-------------------------- MODULE SipSessionProofs --------------------------
(***************************************************************************)
(* Proofs about the measured call.  For every length of the jitter buffer, *)
(* the pad, the polls and the windows that SipConstants admits, and        *)
(* however many packets are lost in a row, arrive late and the loop is     *)
(* late: nothing of what is certified as silence, judged or measured is    *)
(* concealed audio that a poll could tell of.  What no poll can tell of is *)
(* bounded by the last theorem.                                            *)
(*                                                                         *)
(* Sound says what a session S may hold when concealed audio is heard at   *)
(* the times H and packets are transmitted if w; every operator of the     *)
(* session keeps it as long as the voids can be trusted up to the          *)
(* watermark.  That they can is the part of the invariant about the clock, *)
(* the loss counter and the loop.                                          *)
(***************************************************************************)
EXTENDS SipSession, WellFoundedInduction, TLAPS

-----------------------------------------------------------------------------
(* What a session may hold *)

\* A frame as the session records it.
Heard == [host : Int, level : {"active", "faint", "silent", "heard"}]

Fields ==
  {"mode", "outcome", "answered", "rx", "anchor", "stop", "scan", "runStart", "run",
   "holdStart", "dStart", "dRun", "cand", "sched", "armed", "next", "boundary", "fixEnd",
   "sep", "gate", "lastPull", "voids", "mark", "counters", "base", "confirmed", "snapshot",
   "pending", "teardown"}

\* Concealed audio, heard at the times H, lies between two times.
Conceals(H, from, to) == \E t \in H : from <= t /\ t <= to

Captured(S) == S.outcome \in {"captured", "phase3 captured"}

\* The flags of a session.
Armed(S) == S.armed
Snapped(S) == S.snapshot
Confirmed(S) == S.confirmed

\* The types of a session.
Numeric(S) ==
  /\ S.answered \in Int /\ S.mark \in Int /\ S.counters \in Int /\ S.base \in Int
  /\ S.anchor \in Int /\ S.stop \in Int /\ S.sep \in Int
  /\ S.boundary \in Int /\ S.fixEnd \in Int
  /\ S.scan \in Nat /\ S.run \in Nat /\ S.runStart \in Nat /\ S.holdStart \in Nat
  /\ S.dStart \in Nat /\ S.dRun \in Nat /\ S.cand \in Nat /\ S.next \in Nat
Flagged(S) ==
  /\ S.armed \in BOOLEAN /\ S.confirmed \in BOOLEAN /\ S.snapshot \in BOOLEAN
  /\ S.voids \in SUBSET (Int \X Int)

\* A frame is received in every tick from the answer on.
Recorded(S) ==
  /\ S.rx \in Seq(Heard) /\ Len(S.rx) \in Nat /\ DOMAIN S = Fields
  /\ Len(S.rx) > 0 => S.answered >= 0
  /\ \A i \in 1..Len(S.rx) : S.rx[i].host = S.answered + i

\* The session has consumed its windows up to scan, and activity long enough to
\* be an anchor comes before everything that is measured.
Anchored(S) ==
  /\ S.scan <= Len(S.rx) /\ S.run <= S.scan /\ S.runStart <= S.scan
  /\ S.run > 0 => S.runStart > 0
  /\ S.anchor = None => S.holdStart = 0 /\ S.stop = None /\ ~Armed(S)
  /\ S.anchor # None => /\ Arm <= S.scan
                        /\ S.answered < S.anchor /\ S.anchor <= S.answered + S.scan

\* What is certified as silence was heard.
Held(S) ==
  S.holdStart # 0 =>
    /\ Arm < S.holdStart /\ S.holdStart <= S.scan /\ S.anchor < S.answered + S.holdStart
    /\ S.stop = None => S.scan - S.holdStart + 1 < Hold
Stopped(S, H) ==
  S.stop # None =>
    /\ S.anchor < S.stop /\ S.stop + Hold - 1 <= S.answered + S.scan
    /\ ~Conceals(H, S.stop, S.stop + Hold - 1)
Separated(S, H) ==
  S.sep # None =>
    /\ S.fixEnd # None /\ S.mode # "echo-control"
    /\ S.fixEnd <= S.sep - Sep /\ S.sep <= S.answered + Len(S.rx)
    /\ ~Conceals(H, S.sep - Sep, S.sep)
Silent(S, H) == Held(S) /\ Stopped(S, H) /\ Separated(S, H)

\* The stimulus: armed by the stop, in phase 3 by its schedule, then transmitted.
Stimulates(mode) == mode \in {"measurement", "echo-control", "phase3"}
Stimulated(S) ==
  /\ S.sched # None => S.mode = "phase3"
  /\ Armed(S) => /\ Stimulates(S.mode)
                 /\ S.mode # "phase3" => S.stop # None
  /\ S.boundary = None <=> S.next = 0
  /\ S.boundary # None => /\ Armed(S) /\ S.answered + Arm < S.boundary
                          /\ S.boundary <= S.answered + Len(S.rx)
                          /\ S.mode # "phase3" => S.stop < S.boundary
  /\ S.fixEnd # None => S.boundary # None /\ S.boundary < S.fixEnd /\ S.next = Fixture

\* The audio that is judged begins at the candidate, in the echo control at the
\* first frame of the stimulus.
Judges(mode) == mode = "no-stimulus" \/ Stimulates(mode)
Controls(mode) == mode \in {"no-stimulus", "echo-control"}
Ready(S) == S.stop # None /\ S.sep # None
Responds(S) ==
  /\ S.dStart <= S.scan /\ S.cand <= S.scan
  /\ S.dStart # 0 => Ready(S) /\ S.sep <= S.answered + S.dStart
  /\ S.cand # 0 => Ready(S) /\ S.sep <= S.answered + S.cand
  /\ Snapped(S) \/ S.pending # "none" => 
       /\ S.stop # None /\ Judges(S.mode)
       /\ ~Controls(S.mode) => S.sep # None

Measures(mode) == mode \in {"measurement", "phase3"}
Real(S, H, from) == 
  /\ from + Fixture + Search <= Len(S.rx)
  /\ ~Conceals(H, S.answered + from, S.answered + from + Fixture + Search)
Controlled(S) == Snapped(S) \/ S.pending # "none" \/ S.outcome = "control echo"
Judged(S, H, w) ==
  /\ Captured(S) => Ready(S) /\ S.cand # 0 /\ Real(S, H, S.cand) /\ Confirmed(S)
  /\ S.outcome = "control echo" => S.mode = "echo-control"
  /\ w /\ Measures(S.mode) =>
       /\ S.pending = "none"
       /\ Snapped(S) => S.cand # 0 /\ Real(S, H, S.cand) /\ Confirmed(S)
  /\ S.mode = "echo-control" /\ Controlled(S) =>
       S.boundary # None /\ Real(S, H, S.boundary - S.answered)

\* No active window that was consumed lies over the stimulus.
Over(S, i) == S.boundary <= S.answered + i /\ (S.fixEnd = None \/ S.answered + i < S.fixEnd)
Heeded(S, i) == S.rx[i].level # "active" \/ InVoid(S, S.answered + i)
Undisturbed(S) ==
  S.mode = "measurement" /\ S.boundary # None /\ S.outcome # "stimulus_overlap" =>
    \A i \in 1..S.scan : Over(S, i) => Heeded(S, i)

\* The stimulus is confirmed by packets.
Delivered(S, w) ==
  /\ ~w => ~Confirmed(S)
  /\ S.counters = None => ~Armed(S)
  /\ S.outcome = "none" /\ S.counters = None => S.mark <= S.answered + Arm
  /\ S.outcome = "none" /\ w /\ S.fixEnd # None /\ S.fixEnd <= S.mark => Confirmed(S)
  /\ S.outcome = "none" /\ S.pending # "none" => ~Confirmed(S)

\* Only the fields F differ.
Changes(S, T, F) == DOMAIN T = Fields /\ \A f \in Fields \ F : T[f] = S[f]

\* SipConstants, one fact for each constant.
Constants ==
  /\ Arm \in Nat \ {0} /\ Hold \in Nat \ {0} /\ Sep \in Nat \ {0} /\ Fixture \in Nat \ {0}
  /\ Pad \in Nat \ {0} /\ Depth \in Nat /\ Lag \in Nat /\ Search \in Nat
  /\ Depth + Lag <= Pad /\ Depth + Lag < Arm

\* What the assumptions say of each constant.
LEMMA ConstantsHold == Constants
BY SipConstants DEF Constants

\* What a session may hold.
Sound(S, H, w) ==
  /\ Numeric(S) /\ Flagged(S) /\ Recorded(S) /\ Anchored(S) /\ Silent(S, H) /\ Stimulated(S)
  /\ Responds(S) /\ Judged(S, H, w) /\ Undisturbed(S) /\ Delivered(S, w)

\* Before the watermark, concealed audio lies in a void or in the first frames.
Trusted(S, H) ==
  S.pending = "none" => \A t \in H : t < S.mark => InVoid(S, t) \/ t < S.answered + Arm

-----------------------------------------------------------------------------
(* One window *)

\* C is S with its next window consumed.
Consumes(S, C, i) ==
  /\ i = S.scan + 1 /\ i <= Len(S.rx) /\ i \in 1..Len(S.rx)
  /\ Changes(S, C, {"scan", "rx"}) /\ C.scan = i
  /\ C.rx \in Seq(Heard) /\ Len(C.rx) = Len(S.rx)
  /\ \A j \in 1..Len(S.rx) : C.rx[j].host = S.rx[j].host
  /\ \A j \in 1..Len(S.rx) : C.rx[j].level = S.rx[j].level \/ (j = i /\ C.rx[j].level = "heard")
  /\ S.boundary = None => C.rx[i].level = "heard"

\* Consuming a window moves the scan to it and touches no other frame.
LEMMA Consuming ==
  ASSUME NEW S, Recorded(S), NEW i \in 1..Len(S.rx), i = S.scan + 1
  PROVE  Consumes(S, [S EXCEPT !.scan = i,
                               !.rx[i].level = IF S.boundary = None THEN "heard" ELSE @], i)
<1> DEFINE l == IF S.boundary = None THEN "heard" ELSE S.rx[i].level
           rx == [S.rx EXCEPT ![i].level = l]
           C == [S EXCEPT !.scan = i, !.rx = rx]
<1>1. S.rx \in Seq(Heard) /\ Len(S.rx) \in Nat /\ DOMAIN S = Fields
  BY DEF Recorded
<1>a. S.rx[i] \in Heard
  BY <1>1
<1>2. S.rx[i] \in Heard /\ l \in {"active", "faint", "silent", "heard"}
  BY <1>a DEF Heard
<1>3. [S.rx[i] EXCEPT !.level = l] \in Heard
  BY <1>2 DEF Heard
<1>4. rx = [S.rx EXCEPT ![i] = [S.rx[i] EXCEPT !.level = l]]
  OBVIOUS
<1>5. rx \in Seq(Heard) /\ Len(rx) = Len(S.rx) /\ rx[i] = [S.rx[i] EXCEPT !.level = l]
      /\ \A j \in 1..Len(S.rx) : j # i => rx[j] = S.rx[j]
  BY <1>1, <1>3, <1>4
<1>6. rx[i].host = S.rx[i].host /\ rx[i].level = l
  BY <1>2, <1>5 DEF Heard
<1>7. Changes(S, C, {"scan", "rx"}) /\ C.scan = i /\ C.rx = rx
  BY <1>1 DEF Changes, Fields
<1>8. C = [S EXCEPT !.scan = i, !.rx[i].level = IF S.boundary = None THEN "heard" ELSE @]
  OBVIOUS
<1> HIDE DEF rx, C
<1>9. Consumes(S, C, i)
  <2>1. \A j \in 1..Len(S.rx) : rx[j].host = S.rx[j].host
    BY <1>5, <1>6
  <2>2. ASSUME NEW j \in 1..Len(S.rx)
        PROVE  rx[j].level = S.rx[j].level \/ (j = i /\ rx[j].level = "heard")
    <3>1. CASE j = i
      BY <1>6, <3>1
    <3>2. CASE j # i
      BY <1>5, <3>2
    <3> QED BY <3>1, <3>2
  <2>3. S.boundary = None => rx[i].level = "heard"
    BY <1>6
  <2>4. i <= Len(S.rx)
    BY <1>1
  <2> QED BY <1>5, <1>7, <2>1, <2>2, <2>3, <2>4 DEF Consumes
<1> QED BY <1>8, <1>9

\* What a scan does not touch, and of the frames their number and times.
Untouched(S, T) ==
  /\ DOMAIN T = Fields
  /\ T.mode = S.mode /\ T.answered = S.answered /\ T.mark = S.mark /\ T.voids = S.voids
  /\ T.boundary = S.boundary /\ T.fixEnd = S.fixEnd /\ T.next = S.next /\ T.sep = S.sep
  /\ T.counters = S.counters /\ T.base = S.base /\ T.pending = S.pending
  /\ T.lastPull = S.lastPull
  /\ (Confirmed(T) <=> Confirmed(S)) /\ (Snapped(T) <=> Snapped(S))
  /\ T.confirmed = S.confirmed /\ T.snapshot = S.snapshot
  /\ T.rx \in Seq(Heard) /\ Len(T.rx) = Len(S.rx)
  /\ \A j \in 1..Len(S.rx) : T.rx[j].host = S.rx[j].host

\* Consuming a window leaves the rest of the session as it was.
LEMMA ConsumedUntouched ==
  ASSUME NEW S, NEW C, NEW i, Consumes(S, C, i)
  PROVE  /\ Untouched(S, C) /\ DOMAIN C = Fields
         /\ C.outcome = S.outcome /\ C.anchor = S.anchor /\ C.stop = S.stop
         /\ C.runStart = S.runStart /\ C.run = S.run /\ C.holdStart = S.holdStart
         /\ C.dStart = S.dStart /\ C.dRun = S.dRun /\ C.cand = S.cand
         /\ C.sched = S.sched /\ (Armed(C) <=> Armed(S)) /\ C.armed = S.armed
BY DEF Consumes, Changes, Fields, Untouched, Armed, Snapped, Confirmed

\* The windows before the one consumed are heeded as they were.
LEMMA UndisturbedStep ==
  ASSUME NEW S, Numeric(S), Recorded(S), Undisturbed(S), NEW C, NEW i, Consumes(S, C, i),
         S.outcome = "none",
         NEW T, Untouched(S, T), T.scan = i, T.rx = C.rx,
         Over(S, i) /\ S.mode = "measurement" /\ S.boundary # None => Heeded(S, i)
  PROVE  Undisturbed(T)
<1> SUFFICES ASSUME T.mode = "measurement", T.boundary # None, NEW j \in 1..T.scan, Over(T, j)
             PROVE  Heeded(T, j)
  BY DEF Undisturbed
<1>1. i = S.scan + 1 /\ i <= Len(S.rx) /\ Len(S.rx) \in Nat /\ S.scan \in Nat /\ j \in 1..i
  BY DEF Consumes, Numeric, Recorded
<1>2. Over(S, j) /\ S.mode = "measurement" /\ S.boundary # None
  BY DEF Over, Untouched
<1>3. Heeded(S, j)
  <2>1. CASE j = i
    BY <1>2, <2>1
  <2>2. CASE j # i
    <3>1. j \in 1..S.scan
      BY <1>1, <2>2
    <3> QED BY <1>2, <3>1 DEF Undisturbed
  <2> QED BY <2>1, <2>2
<1>4. j \in 1..Len(S.rx)
  BY <1>1
<1>5. T.rx[j].level # "active" \/ T.rx[j].level = S.rx[j].level
  BY <1>4 DEF Consumes
<1> QED BY <1>3, <1>5 DEF Heeded, InVoid, Untouched

\* The outcome certifies nothing that was judged.
Neutral(T) == ~Captured(T) /\ T.outcome # "control echo"

\* What was judged stays so in a step that ends nothing and keeps its candidate.
LEMMA JudgedFrame ==
  ASSUME NEW S, NEW H, NEW w, Judged(S, H, w), S.outcome = "none", NEW T, Untouched(S, T),
         Neutral(T), Snapped(S) => T.cand = S.cand
  PROVE  Judged(T, H, w)
<1>1. \A from : Real(T, H, from) <=> Real(S, H, from)
  BY DEF Untouched, Real
<1>2. /\ T.mode = S.mode /\ T.pending = S.pending /\ (Snapped(T) <=> Snapped(S))
      /\ (Confirmed(T) <=> Confirmed(S)) /\ T.boundary = S.boundary /\ T.answered = S.answered
  BY DEF Untouched
<1>3. ASSUME w, Measures(T.mode)
      PROVE  /\ T.pending = "none"
             /\ Snapped(T) => T.cand # 0 /\ Real(T, H, T.cand) /\ Confirmed(T)
  BY <1>1, <1>2, <1>3 DEF Judged
<1>4. Controlled(T) <=> Controlled(S)
  BY <1>2 DEF Controlled, Neutral
<1>5. ASSUME T.mode = "echo-control", Controlled(T)
      PROVE  T.boundary # None /\ Real(T, H, T.boundary - T.answered)
  BY <1>1, <1>2, <1>4, <1>5 DEF Judged
<1> QED BY <1>3, <1>5 DEF Judged, Neutral

\* A window in a void resets the runs, and nothing more.
LEMMA UnknownSound ==
  ASSUME NEW S, NEW H, NEW w, Sound(S, H, w), NEW C, NEW i, Consumes(S, C, i),
         S.outcome = "none",
         InVoid(S, S.answered + i)
  PROVE  Sound(Unknown(C), H, w) /\ Untouched(S, Unknown(C))
<1> DEFINE T == Unknown(C)
<1>1. /\ T.runStart = 0 /\ T.run = 0 /\ T.holdStart = 0 /\ T.dStart = 0 /\ T.dRun = 0
      /\ T.outcome = S.outcome /\ T.anchor = S.anchor /\ T.stop = S.stop
      /\ T.cand = S.cand /\ T.sched = S.sched /\ (Armed(T) <=> Armed(S)) /\ T.armed = S.armed /\ T.scan = i
      /\ T.rx = C.rx
  BY ConsumedUntouched DEF Consumes, Fields, Unknown, Armed
<1>2. Untouched(S, T)
  BY ConsumedUntouched DEF Consumes, Fields, Unknown, Untouched, Snapped, Confirmed
<1> HIDE DEF T
<1>c. Constants /\ i = S.scan + 1 /\ i \in 1..Len(S.rx)
  BY ConstantsHold DEF Consumes
<1>p. Numeric(S) /\ Flagged(S) /\ Recorded(S) /\ Anchored(S) /\ Silent(S, H) /\ Stimulated(S)
      /\ Responds(S)
      /\ Judged(S, H, w) /\ Undisturbed(S) /\ Delivered(S, w)
  BY DEF Sound
<1>n. /\ Len(S.rx) \in Nat /\ S.scan \in Nat /\ S.answered \in Int /\ S.anchor \in Int
      /\ S.stop \in Int /\ S.sep \in Int /\ S.fixEnd \in Int
      /\ S.cand \in Nat /\ S.boundary \in Int
  BY <1>p DEF Numeric, Recorded
<1>m. /\ i = S.scan + 1 /\ i \in Int /\ S.scan \in Int /\ S.scan <= i
      /\ S.answered + S.scan <= S.answered + i
  <2>1. S.scan \in Int /\ S.answered \in Int
    BY <1>n
  <2> QED BY <1>c, <2>1
<1>t. Numeric(T)
  BY <1>1, <1>2, <1>p, <1>c, <1>n DEF Numeric, Untouched
<1>f. Flagged(T)
  BY <1>1, <1>2, <1>p DEF Flagged, Untouched
<1>r. Recorded(T)
  BY <1>2, <1>p DEF Recorded, Untouched
<1>u. /\ T.mode = S.mode /\ T.answered = S.answered /\ T.fixEnd = S.fixEnd /\ T.sep = S.sep
      /\ Len(T.rx) = Len(S.rx)
  BY <1>2 DEF Untouched
<1>3. Anchored(T)
  <2>1. T.scan \in Nat /\ T.scan <= Len(T.rx) /\ S.scan <= T.scan
    <3>1. i \in Nat /\ i <= Len(S.rx)
      BY <1>c
    <3> QED BY <1>1, <1>m, <1>u, <3>1
  <2>2. S.anchor = None => S.stop = None /\ ~Armed(S)
    BY <1>p DEF Anchored
  <2>3. S.anchor # None => /\ Arm <= S.scan
                           /\ S.answered < S.anchor /\ S.anchor <= S.answered + S.scan
    BY <1>p DEF Anchored
  <2>4. T.anchor # None => /\ Arm <= T.scan
                           /\ T.answered < T.anchor /\ T.anchor <= T.answered + T.scan
    <3> SUFFICES ASSUME S.anchor # None
                 PROVE  Arm <= i /\ S.answered < S.anchor /\ S.anchor <= S.answered + i
      BY <1>1, <1>u
    <3>1. Arm \in Nat
      BY <1>c DEF Constants
    <3>2. Arm <= i
      BY <1>m, <2>3, <3>1
    <3>3. S.anchor <= S.answered + i
      BY <1>m, <1>n, <2>3
    <3> QED BY <2>3, <3>2, <3>3
  <2>5. T.run <= T.scan /\ T.runStart <= T.scan /\ ~(T.run > 0)
    BY <1>1, <2>1
  <2> QED BY <1>1, <2>1, <2>2, <2>4, <2>5 DEF Anchored
<1>4. Silent(T, H)
  <2>1. Held(T)
    BY <1>1 DEF Held
  <2>2. Stopped(T, H)
    <3> SUFFICES ASSUME S.stop # None
                 PROVE  /\ S.anchor < S.stop /\ S.stop + Hold - 1 <= S.answered + i
                        /\ ~Conceals(H, S.stop, S.stop + Hold - 1)
      BY <1>1, <1>u DEF Stopped
    <3>1. /\ S.anchor < S.stop /\ S.stop + Hold - 1 <= S.answered + S.scan
          /\ ~Conceals(H, S.stop, S.stop + Hold - 1)
      BY <1>p DEF Silent, Stopped
    <3>2. Hold \in Nat
      BY <1>c DEF Constants
    <3>3. S.stop + Hold - 1 <= S.answered + i
      <4>1. S.stop \in Int /\ S.answered \in Int /\ S.scan \in Int /\ i \in Int /\ Hold \in Int
        BY <1>m, <1>n, <3>2
      <4>2. S.stop + Hold - 1 <= S.answered + S.scan /\ S.scan <= i
        BY <1>m, <3>1
      <4> QED BY <4>1, <4>2
    <3> QED BY <3>1, <3>3
  <2>3. Separated(T, H)
    BY <1>p, <1>u DEF Silent, Separated
  <2> QED BY <2>1, <2>2, <2>3 DEF Silent
<1>5. Stimulated(T)
  BY <1>1, <1>2, <1>p, <1>c DEF Stimulated, Untouched
<1>6. Responds(T)
  BY <1>1, <1>2, <1>p, <1>c, <1>n DEF Responds, Ready, Untouched
<1>7. Judged(T, H, w)
  <2>1. Neutral(T)
    BY <1>1 DEF Neutral, Captured
  <2> QED BY <1>1, <1>2, <1>p, <2>1, JudgedFrame
<1>8. Undisturbed(T)
  <2>1. Heeded(S, i)
    BY DEF Heeded
  <2> QED BY <1>1, <1>2, <1>p, <2>1, UndisturbedStep
<1>9. Delivered(T, w)
  BY <1>1, <1>2, <1>p, <1>c DEF Delivered, Untouched
<1> QED BY <1>2, <1>t, <1>f, <1>r, <1>3, <1>4, <1>5, <1>6, <1>7, <1>8, <1>9 DEF Sound, T

\* Window i is not activity over the stimulus.
Harmless(S, i) == S.rx[i].level = "active" => ~Overlaps(S, S.answered + i)

\* Frames keep their times.
LEMMA ConsumedHosts ==
  ASSUME NEW S, NEW C, NEW i, Consumes(S, C, i), Recorded(S), NEW j \in 1..Len(S.rx)
  PROVE  C.rx[j].host = S.answered + j /\ S.answered >= 0
BY DEF Consumes, Recorded

\* The outcomes a window can bring, or none.
Leaves(T) == T.outcome \in {"none", "control agent-only", "stimulus_overlap"}

\* What the stages of the analysis have in common: they read the frames and leave
\* the stimulus and the voids alone.
LEMMA StageFrame ==
  ASSUME NEW S, NEW H, NEW w, Sound(S, H, w), NEW C, NEW i, Consumes(S, C, i), NEW T,
         Untouched(S, T),
         Armed(T) => S.counters # None,
         T.scan = i, T.rx = C.rx, S.outcome = "none",
         Leaves(T), Snapped(S) => T.cand = S.cand,
         Harmless(S, i) \/ T.outcome = "stimulus_overlap"
  PROVE  Recorded(T) /\ Judged(T, H, w) /\ Undisturbed(T) /\ Delivered(T, w)
<1>p. /\ Numeric(S) /\ Recorded(S) /\ Judged(S, H, w) /\ Undisturbed(S) /\ Delivered(S, w)
  BY DEF Sound
<1>1. Recorded(T)
  BY <1>p DEF Recorded, Untouched
<1>2. Judged(T, H, w)
  <2>1. Neutral(T)
    BY DEF Neutral, Captured, Leaves
  <2> QED BY <1>p, <2>1, JudgedFrame
<1>3. Delivered(T, w)
  BY <1>p DEF Delivered, Untouched
<1>4. Undisturbed(T)
  <2>1. CASE Harmless(S, i)
    <3>1. Over(S, i) /\ S.mode = "measurement" /\ S.boundary # None => Heeded(S, i)
      BY <2>1 DEF Harmless, Heeded, Over, Overlaps
    <3> QED BY <1>p, <3>1, UndisturbedStep
  <2>2. CASE T.outcome = "stimulus_overlap"
    BY <2>2 DEF Undisturbed
  <2> QED BY <2>1, <2>2
<1> QED BY <1>1, <1>2, <1>3, <1>4

\* The scan advances by a window.
LEMMA AnchoredAdvances ==
  ASSUME NEW S, Numeric(S), Recorded(S), Anchored(S), NEW C, NEW i, Consumes(S, C, i),
         NEW T, Untouched(S, T), T.scan = i,
         T.anchor = S.anchor, T.run = S.run, T.runStart = S.runStart,
         T.anchor = None => T.holdStart = 0 /\ T.stop = None /\ ~Armed(T)
  PROVE  Anchored(T)
<1>1. i = S.scan + 1 /\ S.scan \in Nat /\ i \in 1..Len(S.rx) /\ Len(S.rx) \in Nat
  BY DEF Consumes, Numeric, Recorded
<1>2. T.scan = S.scan + 1 /\ T.scan <= Len(T.rx)
  BY <1>1 DEF Untouched
<1>3. T.run <= T.scan /\ T.runStart <= T.scan
  <2>1. S.run \in Nat /\ S.runStart \in Nat
    BY DEF Numeric
  <2> QED BY <1>1, <1>2, <2>1 DEF Anchored
<1>4. T.anchor # None => Arm <= T.scan /\ T.answered < T.anchor /\ T.anchor <= T.answered + T.scan
  <2>1. S.answered \in Int /\ S.anchor \in Int
    BY DEF Numeric
  <2>2. Arm \in Nat
    BY ConstantsHold DEF Constants
  <2> QED BY <1>1, <1>2, <2>1, <2>2 DEF Anchored, Untouched
<1> QED BY <1>2, <1>3, <1>4 DEF Anchored

\* Once the stop is certified, consuming a window certifies nothing else.
LEMMA SilentAdvances ==
  ASSUME NEW S, NEW H, Numeric(S), Silent(S, H), NEW C, NEW i, Consumes(S, C, i),
         S.stop # None,
         NEW T, Untouched(S, T), T.scan = i,
         T.anchor = S.anchor, T.stop = S.stop, T.holdStart = S.holdStart
  PROVE  Silent(T, H)
<1>1. i = S.scan + 1 /\ S.scan \in Nat
  BY DEF Consumes, Numeric
<1>2. Held(T)
  <2>1. S.holdStart \in Nat
    BY DEF Numeric
  <2>2. S.holdStart # 0 => S.holdStart <= i
    BY <1>1, <2>1 DEF Silent, Held
  <2> QED BY <2>2 DEF Silent, Held, Untouched
<1>3. Stopped(T, H)
  <2>1. S.stop \in Int /\ S.answered \in Int
    BY DEF Numeric
  <2>2. Hold \in Nat
    BY ConstantsHold DEF Constants
  <2>3. S.stop + Hold - 1 <= S.answered + S.scan
    BY DEF Silent, Stopped
  <2>4. S.stop + Hold - 1 <= S.answered + i
    BY <1>1, <2>1, <2>2, <2>3
  <2> QED BY <2>4 DEF Silent, Stopped, Untouched
<1>4. Separated(T, H)
  BY DEF Silent, Separated, Untouched
<1> QED BY <1>2, <1>3, <1>4 DEF Silent

\* A window that is only consumed, or that ends the call.
LEMMA ConsumedSound ==
  ASSUME NEW S, NEW H, NEW w, Sound(S, H, w), NEW C, NEW i, Consumes(S, C, i),
         S.stop # None, S.outcome = "none",
         NEW T, Changes(C, T, {"outcome"}), Leaves(T),
         Harmless(S, i) \/ T.outcome = "stimulus_overlap"
  PROVE  Sound(T, H, w) /\ Untouched(S, T)
<1>1. /\ Untouched(S, T) /\ T.scan = i /\ T.rx = C.rx
      /\ T.anchor = S.anchor /\ T.stop = S.stop
      /\ T.runStart = S.runStart /\ T.run = S.run /\ T.holdStart = S.holdStart
      /\ T.dStart = S.dStart /\ T.dRun = S.dRun /\ T.cand = S.cand
      /\ T.sched = S.sched /\ (Armed(T) <=> Armed(S)) /\ T.armed = S.armed
  <2>1. /\ Untouched(S, C) /\ C.scan = i
        /\ C.anchor = S.anchor /\ C.stop = S.stop
        /\ C.runStart = S.runStart /\ C.run = S.run /\ C.holdStart = S.holdStart
        /\ C.dStart = S.dStart /\ C.dRun = S.dRun /\ C.cand = S.cand
        /\ C.sched = S.sched /\ (Armed(C) <=> Armed(S)) /\ C.armed = S.armed
    BY ConsumedUntouched DEF Consumes
  <2> QED BY <2>1 DEF Changes, Fields, Untouched, Armed, Snapped, Confirmed
<1>c. Constants /\ i = S.scan + 1 /\ i \in 1..Len(S.rx)
  BY ConstantsHold DEF Consumes
<1>ty. Numeric(S)
  BY DEF Sound
<1>fl. Flagged(S)
  BY DEF Sound
<1>re. Recorded(S)
  BY DEF Sound
<1>an. Anchored(S)
  BY DEF Sound
<1>si. Silent(S, H)
  BY DEF Sound
<1>st. Stimulated(S)
  BY DEF Sound
<1>rs. Responds(S)
  BY DEF Sound
<1>n. Len(S.rx) \in Nat /\ S.scan \in Nat /\ S.answered \in Int /\ S.anchor \in Int
      /\ S.stop \in Int /\ S.run \in Nat /\ S.runStart \in Nat /\ S.holdStart \in Nat
      /\ S.dStart \in Nat /\ S.cand \in Nat /\ S.sep \in Int
  BY <1>ty, <1>re DEF Numeric, Recorded
<1>2. Recorded(T) /\ Judged(T, H, w) /\ Undisturbed(T) /\ Delivered(T, w)
  <2>1. Armed(T) => S.counters # None
    BY <1>1 DEF Sound, Delivered
  <2> QED BY <1>1, <2>1, StageFrame
<1>3. Numeric(T)
  BY <1>1, <1>ty, <1>c, <1>n DEF Numeric, Untouched
<1>4. Flagged(T)
  BY <1>1, <1>fl DEF Flagged, Untouched
<1>5. Anchored(T)
  <2>1. T.anchor = None => T.holdStart = 0 /\ T.stop = None /\ ~Armed(T)
    BY <1>1, <1>an DEF Anchored
  <2> QED BY <1>1, <1>ty, <1>re, <1>an, <2>1, AnchoredAdvances
<1>6. Silent(T, H)
  BY <1>1, <1>ty, <1>si, SilentAdvances
<1>7. Stimulated(T)
  BY <1>1, <1>st DEF Stimulated, Untouched
<1>8. Responds(T)
  BY <1>1, <1>rs, <1>c, <1>n DEF Responds, Ready, Untouched
<1> QED BY <1>1, <1>2, <1>3, <1>4, <1>5, <1>6, <1>7, <1>8 DEF Sound

\* Waiting for the anchor keeps the session sound: what it takes was heard.
LEMMA AnchoringSound ==
  ASSUME NEW S, NEW H, NEW w, Sound(S, H, w), NEW C, NEW i, Consumes(S, C, i),
         S.anchor = None, S.outcome = "none",
         NEW active
  PROVE  Sound(Anchoring(C, i, active), H, w) /\ Untouched(S, Anchoring(C, i, active))
         /\ Anchoring(C, i, active).scan = i /\ Anchoring(C, i, active).outcome = "none"
<1> DEFINE T == Anchoring(C, i, active)
           start == IF S.runStart = 0 THEN i ELSE S.runStart
<1>c. Constants /\ i = S.scan + 1 /\ i \in 1..Len(S.rx)
  BY ConstantsHold DEF Consumes
<1>ty. Numeric(S)
  BY DEF Sound
<1>fl. Flagged(S)
  BY DEF Sound
<1>re. Recorded(S)
  BY DEF Sound
<1>an. Anchored(S)
  BY DEF Sound
<1>si. Silent(S, H)
  BY DEF Sound
<1>st. Stimulated(S)
  BY DEF Sound
<1>rs. Responds(S)
  BY DEF Sound
<1>n. Len(S.rx) \in Nat /\ S.scan \in Nat /\ S.answered \in Int /\ S.anchor \in Int
      /\ S.stop \in Int /\ S.run \in Nat /\ S.runStart \in Nat /\ S.holdStart \in Nat
      /\ S.dStart \in Nat /\ S.cand \in Nat /\ S.sep \in Int
  BY <1>ty, <1>re DEF Numeric, Recorded
<1>s. start \in 1..i /\ start \in 1..Len(S.rx)
  BY <1>c, <1>n, <1>an DEF Anchored
<1>h. C.rx[start].host = S.answered + start /\ S.answered >= 0
  BY <1>re, <1>s, ConsumedHosts
<1>1. /\ T.outcome = "none" /\ T.stop = S.stop /\ T.holdStart = S.holdStart
      /\ T.dStart = S.dStart /\ T.dRun = S.dRun /\ T.cand = S.cand
      /\ (Armed(T) <=> Armed(S)) /\ T.armed = S.armed /\ T.scan = i /\ T.rx = C.rx
  BY ConsumedUntouched DEF Consumes, Fields, Anchoring, Armed
<1>2. Untouched(S, T)
  BY ConsumedUntouched DEF Consumes, Fields, Anchoring, Untouched, Snapped, Confirmed
<1>3. \/ T.runStart = 0 /\ T.run = 0 /\ T.anchor = None /\ T.sched = S.sched
      \/ /\ T.runStart = start /\ T.run = S.run + 1 /\ S.run + 1 < Arm
         /\ T.anchor = None /\ T.sched = S.sched
      \/ /\ T.runStart = start /\ T.run = S.run + 1 /\ ~(S.run + 1 < Arm)
         /\ T.anchor = C.rx[start].host /\ (T.sched # None => S.mode = "phase3")
  BY ConsumedUntouched DEF Consumes, Fields, Anchoring, Untouched
<1> HIDE DEF T, start
<1>4. Recorded(T) /\ Judged(T, H, w) /\ Undisturbed(T) /\ Delivered(T, w)
  <2>1. Harmless(S, i)
    BY <1>an, <1>st DEF Harmless, Overlaps, Anchored, Stimulated
  <2>2. Leaves(T)
    BY <1>1 DEF Leaves
  <2>3. Armed(T) => S.counters # None
    BY <1>1 DEF Sound, Delivered
  <2> QED BY <1>1, <1>2, <2>1, <2>2, <2>3, StageFrame
<1>5. Numeric(T)
  <2>1. T.anchor \in Int /\ T.run \in Nat /\ T.runStart \in Nat
    <3>1. None \in Int /\ start \in Nat /\ S.answered + start \in Int /\ S.run + 1 \in Nat
      BY <1>n, <1>s DEF None
    <3>2. T.anchor = None \/ T.anchor = S.answered + start
      BY <1>3, <1>h
    <3>3. (T.run = 0 \/ T.run = S.run + 1) /\ (T.runStart = 0 \/ T.runStart = start)
      BY <1>3
    <3> QED BY <3>1, <3>2, <3>3
  <2> QED BY <1>1, <1>2, <2>1, <1>ty, <1>c, <1>n DEF Numeric, Untouched
<1>6. Flagged(T)
  BY <1>1, <1>2, <1>fl DEF Flagged, Untouched
<1>7. Anchored(T)
  <2>u. T.answered = S.answered /\ Len(T.rx) = Len(S.rx) /\ Arm \in Nat
    BY <1>2, <1>c DEF Untouched, Constants
  <2>1. T.scan <= Len(T.rx) /\ i \in Nat /\ start \in Nat /\ start > 0 /\ start <= i
    BY <1>1, <1>c, <1>n, <1>s, <2>u
  <2>2. S.run \in Nat /\ S.run + 1 <= i
    BY <1>an, <1>c, <1>n DEF Anchored
  <2>3. T.run <= T.scan /\ T.runStart <= T.scan /\ (T.run > 0 => T.runStart > 0)
    <3>1. CASE T.runStart = 0 /\ T.run = 0
      BY <1>1, <2>1, <3>1
    <3>2. CASE T.runStart = start /\ T.run = S.run + 1
      BY <1>1, <2>1, <2>2, <3>2
    <3> QED BY <1>3, <3>1, <3>2
  <2>4. T.anchor = None => T.holdStart = 0 /\ T.stop = None /\ ~Armed(T)
    BY <1>1, <1>an DEF Anchored
  <2>5. T.anchor # None => /\ Arm <= T.scan
                           /\ T.answered < T.anchor /\ T.anchor <= T.answered + T.scan
    <3> SUFFICES ASSUME T.anchor # None
                 PROVE  Arm <= i /\ S.answered < T.anchor /\ T.anchor <= S.answered + i
      BY <1>1, <2>u
    <3>1. T.anchor = S.answered + start /\ ~(S.run + 1 < Arm)
      BY <1>3, <1>h
    <3>2. Arm <= i
      BY <1>n, <2>u, <2>1, <2>2, <3>1
    <3>3. S.answered \in Int /\ S.answered < S.answered + start /\ S.answered + start <= S.answered + i
      BY <1>n, <2>1
    <3> QED BY <3>1, <3>2, <3>3
  <2> QED BY <2>1, <2>3, <2>4, <2>5 DEF Anchored
<1>8. Silent(T, H)
  BY <1>1, <1>2, <1>an, <1>si DEF Anchored, Silent, Held, Stopped, Separated, Untouched
<1>9. Stimulated(T)
  BY <1>1, <1>2, <1>3, <1>st DEF Stimulated, Untouched
<1>10. Responds(T)
  BY <1>1, <1>2, <1>rs, <1>c, <1>n DEF Responds, Ready, Untouched
<1> QED BY <1>1, <1>2, <1>4, <1>5, <1>6, <1>7, <1>8, <1>9, <1>10 DEF Sound, T

Timed(H) == H \subseteq Int
\* Window i has its verdict.
Verdicted(S, i) == S.answered + i < S.mark
Within(S, a, b) == S.answered + Arm <= a /\ b < S.mark

\* Before the watermark, what is clear of every void was heard.
LEMMA ClearIsReal ==
  ASSUME NEW S, NEW H, Numeric(S), Flagged(S), S.pending = "none", Trusted(S, H), Timed(H),
         NEW a \in Int, NEW b \in Int, Clear(S, a, b), Within(S, a, b)
  PROVE  ~Conceals(H, a, b)
<1>1. S.mark \in Int /\ S.answered \in Int /\ Arm \in Nat /\ S.voids \in SUBSET (Int \X Int)
  BY ConstantsHold DEF Numeric, Flagged, Constants
<1> SUFFICES ASSUME NEW t \in H, a <= t, t <= b
             PROVE  FALSE
  BY DEF Conceals
<1>t. t \in Int
  BY DEF Timed
<1>2. t \in Int /\ t < S.mark /\ ~(t < S.answered + Arm)
  BY <1>t, <1>1 DEF Within
<1>3. InVoid(S, t)
  BY <1>2 DEF Trusted
<1>4. PICK v \in S.voids : v[1] <= t /\ t <= v[2]
  BY <1>3 DEF InVoid
<1>5. v[1] \in Int /\ v[2] \in Int
  BY <1>1
<1>6. b < v[1] \/ a > v[2]
  BY DEF Clear
<1> QED BY <1>2, <1>4, <1>5, <1>6

\* Waiting for the stop: a hold that is clear of every void was heard.
LEMMA HoldingSound ==
  ASSUME NEW S, NEW H, NEW w, Sound(S, H, w), Trusted(S, H), Timed(H), NEW C, NEW i,
         Consumes(S, C, i),
         S.anchor # None, S.stop = None, S.outcome = "none", Verdicted(S, i), Harmless(S, i),
         NEW silent
  PROVE  Sound(Holding(C, i, silent), H, w) /\ Untouched(S, Holding(C, i, silent))
         /\ Holding(C, i, silent).scan = i
         /\ Leaves(Holding(C, i, silent))
<1> DEFINE T == Holding(C, i, silent)
           start == IF S.holdStart = 0 THEN i ELSE S.holdStart
<1>arm. Arm \in Nat \ {0}
  BY ConstantsHold DEF Constants
<1>hold. Hold \in Nat \ {0}
  BY ConstantsHold DEF Constants
<1>i. i \in 1..Len(S.rx)
  BY DEF Consumes
<1>ty. Numeric(S)
  BY DEF Sound
<1>fl. Flagged(S)
  BY DEF Sound
<1>re. Recorded(S)
  BY DEF Sound
<1>an. Anchored(S)
  BY DEF Sound
<1>si. Silent(S, H)
  BY DEF Sound
<1>st. Stimulated(S)
  BY DEF Sound
<1>rs. Responds(S)
  BY DEF Sound
<1>de. Delivered(S, w)
  BY DEF Sound
<1>pe. S.pending = "none"
  BY <1>rs DEF Responds
<1>ma. S.mark \in Int
  BY <1>ty DEF Numeric
<1>len. Len(S.rx) \in Nat
  BY <1>re DEF Recorded
<1>scan. S.scan \in Nat /\ i = S.scan + 1
  BY <1>ty DEF Numeric, Consumes
<1>hs. S.holdStart \in Nat
  BY <1>ty DEF Numeric
<1>a. S.answered \in Int
  BY <1>ty DEF Numeric
<1>x. S.anchor \in Int
  BY <1>ty DEF Numeric
<1>b. Arm <= S.scan /\ S.anchor <= S.answered + S.scan
  BY <1>an DEF Anchored
<1>s. start \in 1..i /\ Arm < start
  <2>1. S.holdStart # 0 => Arm < S.holdStart /\ S.holdStart <= S.scan
    BY <1>si DEF Silent, Held
  <2> QED BY <1>scan, <1>hs, <1>b, <1>arm, <2>1
<1>sr. start \in 1..Len(S.rx)
  BY <1>s, <1>i, <1>len
<1>sh. i - start + 1 <= Hold
  <2>1. S.holdStart # 0 => S.scan - S.holdStart + 1 < Hold
    BY <1>si DEF Silent, Held
  <2> QED BY <1>scan, <1>hs, <1>hold, <2>1
<1>sa. S.anchor < S.answered + start
  <2>1. S.holdStart # 0 => S.anchor < S.answered + S.holdStart
    BY <1>si DEF Silent, Held
  <2> QED BY <1>scan, <1>hs, <1>a, <1>x, <1>b, <2>1
<1>h. C.rx[start].host = S.answered + start /\ C.rx[i].host = S.answered + i /\ S.answered >= 0
  BY <1>i, <1>re, <1>sr, ConsumedHosts
<1>ns. C.rx[start].host # None
  BY <1>h, <1>s, <1>scan, <1>a DEF None
<1>cu. Untouched(S, C)
  BY ConsumedUntouched
<1>cf. DOMAIN C = Fields /\ C.scan = i
  BY DEF Consumes, Changes
<1>co. /\ C.outcome = S.outcome /\ C.anchor = S.anchor /\ C.stop = S.stop
       /\ C.runStart = S.runStart /\ C.run = S.run /\ C.holdStart = S.holdStart
       /\ C.dStart = S.dStart /\ C.dRun = S.dRun /\ C.cand = S.cand
       /\ C.sched = S.sched
  BY ConsumedUntouched
<1>ca. C.armed = S.armed /\ (Armed(C) <=> Armed(S))
  BY ConsumedUntouched
<1>1. /\ T.anchor = S.anchor /\ T.runStart = S.runStart /\ T.run = S.run
      /\ T.dStart = S.dStart /\ T.dRun = S.dRun /\ T.cand = S.cand /\ T.sched = S.sched
      /\ T.scan = i /\ T.rx = C.rx
  BY <1>cf, <1>co DEF Fields, Holding
<1>o. Leaves(T)
  BY <1>cf, <1>co DEF Fields, Holding, Leaves
<1>2. Untouched(S, T)
  BY <1>cf, <1>cu DEF Fields, Holding, Untouched, Snapped, Confirmed
<1>3. \/ T.holdStart = 0 /\ T.stop = None
      \/ T.holdStart = start /\ T.stop = None /\ i - start + 1 < Hold
      \/ /\ T.holdStart = start /\ T.stop = S.answered + start /\ ~(i - start + 1 < Hold)
         /\ Clear(S, S.answered + start, S.answered + i)
  BY <1>cf, <1>cu, <1>co, <1>h DEF Fields, Holding, Untouched, Clear
<1>4. T.armed \in BOOLEAN
  BY <1>cf, <1>ca, <1>fl DEF Fields, Holding, Flagged
<1>5. Armed(T) => Armed(S) \/ S.sched # None
                  \/ (T.stop # None /\ Stimulates(S.mode))
  <2>0. {"armed", "holdStart", "stop", "outcome"} \subseteq DOMAIN C /\ C.mode = S.mode
    BY <1>cf, <1>cu DEF Fields, Untouched
  <2> DEFINE a == C.armed \/ (C.sched # None /\ C.rx[i].host >= C.sched /\ C.boundary = None)
  <2>1. \/ T.armed = a
        \/ T.armed = (a \/ C.mode \in {"measurement", "echo-control"}) /\ T.stop = C.rx[start].host
    <3> DEFINE A == [C EXCEPT !.armed = a]
    <3>1. A.armed = a /\ DOMAIN A = DOMAIN C
      BY <2>0
    <3>2. \/ T = [A EXCEPT !.holdStart = 0] \/ T = [A EXCEPT !.holdStart = start]
          \/ T = [A EXCEPT !.holdStart = start, !.stop = C.rx[start].host,
                           !.outcome = IF C.mode = "agent-only" THEN "control agent-only" ELSE "none",
                           !.armed = @ \/ C.mode \in {"measurement", "echo-control"}]
      BY Zenon, <1>co DEF Holding
    <3> HIDE DEF A, a, T, start
    <3> QED BY <2>0, <3>1, <3>2
  <2>2. a => Armed(S) \/ S.sched # None
    BY <1>co, <1>ca DEF Armed
  <2> HIDE DEF a, T, start
  <2>3. CASE T.armed = a
    BY Zenon, <2>2, <2>3 DEF Armed
  <2>4. CASE T.armed = (a \/ C.mode \in {"measurement", "echo-control"}) /\ T.stop = C.rx[start].host
    <3>1. T.armed = (a \/ C.mode \in {"measurement", "echo-control"}) /\ T.stop # None
      BY <1>ns, <2>4
    <3>2. C.mode \in {"measurement", "echo-control"} => Stimulates(S.mode)
      BY <2>0 DEF Stimulates
    <3> QED BY Zenon, <2>2, <3>1, <3>2 DEF Armed
  <2> QED BY <2>1, <2>3, <2>4
<1>6. Armed(S) => Armed(T)
  BY <1>cf, <1>ca DEF Fields, Holding, Armed
<1> HIDE DEF T, start
<1>7. Recorded(T) /\ Judged(T, H, w) /\ Undisturbed(T) /\ Delivered(T, w)
  <2>1. Armed(T) => S.counters # None
    <3>1. S.answered + Arm < S.mark
      BY <1>s, <1>ma, <1>arm, <1>a, <1>scan DEF Verdicted
    <3>2. S.counters # None
      BY <1>de, <3>1, <1>ma, <1>arm, <1>a DEF Delivered
    <3> QED BY <3>2
  <2> QED BY <1>1, <1>2, <1>o, <2>1, StageFrame
<1>t. Numeric(T)
  <2>1. T.holdStart \in Nat /\ T.stop \in Int
    BY <1>3, <1>s, <1>a, <1>scan DEF None
  <2>2. i \in Nat
    BY <1>scan
  <2> QED BY <1>1, <1>2, <2>1, <2>2, <1>ty DEF Numeric, Untouched
<1>f. Flagged(T)
  BY <1>2, <1>4, <1>fl DEF Flagged, Untouched
<1>8. Anchored(T)
  BY <1>1, <1>2, <1>ty, <1>re, <1>an, AnchoredAdvances
<1>9. Silent(T, H)
  <2>1. Held(T)
    <3>1. CASE T.holdStart = 0
      BY <3>1 DEF Held
    <3>2. CASE T.holdStart # 0
      <4>1. T.holdStart = start /\ (T.stop = None => i - start + 1 < Hold)
        BY <1>3, <1>ns, <1>h, <3>2
      <4>2. start <= i /\ S.anchor < S.answered + start
        BY <1>s, <1>sa
      <4> QED BY <1>1, <1>2, <1>s, <4>1, <4>2 DEF Held, Untouched
    <3> QED BY <3>1, <3>2
  <2>2. Stopped(T, H)
    <3>1. CASE T.stop = None
      BY <3>1 DEF Stopped
    <3>2. CASE T.stop # None
      <4>1. T.stop = S.answered + start /\ i - start + 1 = Hold
            /\ Clear(S, S.answered + start, S.answered + i)
        BY <1>3, <3>2, <1>s, <1>sh, <1>scan, <1>hold
      <4>2. ~Conceals(H, S.answered + start, S.answered + i)
        <5>1. S.answered + start \in Int /\ S.answered + i \in Int
              /\ Within(S, S.answered + start, S.answered + i)
          BY <1>s, <1>arm, <1>a, <1>scan DEF Verdicted, Within
        <5> QED BY <4>1, <5>1, <1>ty, <1>fl, <1>pe, ClearIsReal
      <4>3. T.stop + Hold - 1 = S.answered + i
        BY <4>1, <1>s, <1>a, <1>scan, <1>hold
      <4>4. T.anchor < T.stop /\ T.stop + Hold - 1 <= T.answered + T.scan
        BY <1>1, <1>2, <4>1, <4>3, <1>sa, <1>a, <1>scan DEF Untouched
      <4> QED BY <4>1, <4>2, <4>3, <4>4 DEF Stopped
    <3> QED BY <3>1, <3>2
  <2>3. Separated(T, H)
    BY <1>1, <1>2, <1>si DEF Silent, Separated, Untouched
  <2> QED BY <2>1, <2>2, <2>3 DEF Silent
<1>10. Stimulated(T)
  <2>1. S.boundary # None => Armed(S) /\ S.mode = "phase3"
    BY <1>st DEF Stimulated
  <2>2. Armed(T) => Stimulates(T.mode)
    BY <1>2, <1>5, <1>st DEF Stimulated, Untouched, Stimulates
  <2>3. Armed(T) /\ T.mode # "phase3" => T.stop # None
    BY <1>2, <1>5, <1>st DEF Stimulated, Untouched
  <2> QED BY <1>1, <1>2, <1>6, <1>st, <2>1, <2>2, <2>3 DEF Stimulated, Untouched
<1>11. Responds(T)
  <2>1. S.dStart = 0 /\ S.cand = 0 /\ ~Snapped(S) /\ S.pending = "none"
    BY <1>rs DEF Responds, Ready
  <2>2. T.dStart = 0 /\ T.cand = 0 /\ ~Snapped(T) /\ T.pending = "none" /\ 0 <= T.scan
    BY <1>1, <1>2, <2>1, <1>scan DEF Untouched
  <2> QED BY <2>2 DEF Responds
<1> QED BY <1>1, <1>2, <1>o, <1>7, <1>t, <1>f, <1>8, <1>9, <1>10, <1>11 DEF Sound, T

\* Waiting for the response: the candidate begins after the separating silence.
LEMMA RespondingSound ==
  ASSUME NEW S, NEW H, NEW w, Sound(S, H, w), NEW C, NEW i, Consumes(S, C, i), Ready(S),
         S.outcome = "none",
         Harmless(S, i), ~Snapped(S), S.sep <= S.answered + i,
         NEW active
  PROVE  Sound(Responding(C, i, active), H, w) /\ Untouched(S, Responding(C, i, active))
         /\ Responding(C, i, active).scan = i /\ Responding(C, i, active).outcome = "none"
<1> DEFINE T == Responding(C, i, active)
           start == IF S.dStart = 0 THEN i ELSE S.dStart
<1>ty. Numeric(S)
  BY DEF Sound
<1>fl. Flagged(S)
  BY DEF Sound
<1>re. Recorded(S)
  BY DEF Sound
<1>an. Anchored(S)
  BY DEF Sound
<1>si. Silent(S, H)
  BY DEF Sound
<1>st. Stimulated(S)
  BY DEF Sound
<1>rs. Responds(S)
  BY DEF Sound
<1>len. i \in 1..Len(S.rx) /\ Len(S.rx) \in Nat
  BY DEF Consumes, Sound, Recorded
<1>scan. S.scan \in Nat /\ i = S.scan + 1
  BY <1>ty DEF Numeric, Consumes
<1>d. S.dStart \in Nat /\ S.cand \in Nat
  BY <1>ty DEF Numeric
<1>r. S.dStart <= S.scan /\ S.cand <= S.scan
  BY <1>rs DEF Responds
<1>s. start \in 1..i
  BY <1>scan, <1>d, <1>r
<1>sp. S.sep <= S.answered + start
  BY <1>rs DEF Responds
<1>cu. Untouched(S, C)
  BY ConsumedUntouched
<1>cf. DOMAIN C = Fields /\ C.scan = i
  BY DEF Consumes, Changes
<1>co. /\ C.outcome = S.outcome /\ C.anchor = S.anchor /\ C.stop = S.stop
       /\ C.runStart = S.runStart /\ C.run = S.run /\ C.holdStart = S.holdStart
       /\ C.dStart = S.dStart /\ C.dRun = S.dRun /\ C.cand = S.cand
       /\ C.sched = S.sched
  BY ConsumedUntouched
<1>ca. C.armed = S.armed /\ (Armed(C) <=> Armed(S))
  BY ConsumedUntouched
<1>1. /\ T.anchor = S.anchor /\ T.runStart = S.runStart /\ T.run = S.run
      /\ T.holdStart = S.holdStart /\ T.stop = S.stop /\ T.sched = S.sched
      /\ T.scan = i /\ T.rx = C.rx /\ T.outcome = "none"
  BY <1>cf, <1>co DEF Fields, Responding
<1>2. Untouched(S, T)
  BY <1>cf, <1>cu DEF Fields, Responding, Untouched, Snapped, Confirmed
<1>3. T.armed = S.armed /\ (Armed(T) <=> Armed(S))
  BY <1>cf, <1>ca DEF Fields, Responding, Armed
<1>4. (T.dStart = 0 /\ T.dRun = 0) \/ (T.dStart = start /\ T.dRun = S.dRun + 1)
  BY <1>cf, <1>co DEF Fields, Responding
<1>5. T.cand = S.cand \/ T.cand = start
  BY <1>cf, <1>co DEF Fields, Responding
<1> HIDE DEF T, start
<1>6. Recorded(T) /\ Judged(T, H, w) /\ Undisturbed(T) /\ Delivered(T, w)
  <2>1. Leaves(T)
    BY <1>1 DEF Leaves
  <2>2. Armed(T) => S.counters # None
    BY <1>3 DEF Sound, Delivered
  <2> QED BY <1>1, <1>2, <2>1, <2>2, StageFrame
<1>7. Numeric(T)
  <2>1. T.dStart \in Nat /\ T.cand \in Nat /\ T.scan \in Nat
    BY <1>1, <1>4, <1>5, <1>d, <1>s, <1>scan
  <2>2. T.dRun \in Nat
    BY <1>4, <1>ty DEF Numeric
  <2> QED BY <1>1, <1>2, <2>1, <2>2, <1>ty DEF Numeric, Untouched
<1>8. Flagged(T)
  BY <1>2, <1>3, <1>fl DEF Flagged, Untouched
<1>9. Anchored(T)
  <2>1. T.anchor = None => T.holdStart = 0 /\ T.stop = None /\ ~Armed(T)
    BY <1>1, <1>3, <1>an DEF Anchored
  <2> QED BY <1>1, <1>2, <1>ty, <1>re, <1>an, <2>1, AnchoredAdvances
<1>10. Silent(T, H)
  <2>1. S.stop # None
    BY DEF Ready
  <2> QED BY <1>1, <1>2, <1>ty, <1>si, <2>1, SilentAdvances
<1>11. Stimulated(T)
  BY <1>1, <1>2, <1>3, <1>st DEF Stimulated, Untouched
<1>12. Responds(T)
  <2>1. T.dStart <= T.scan /\ T.cand <= T.scan
    BY <1>1, <1>4, <1>5, <1>scan, <1>d, <1>r, <1>s
  <2>2. Ready(T)
    BY <1>1, <1>2 DEF Ready, Untouched
  <2>3. T.dStart # 0 => T.sep <= T.answered + T.dStart
    BY <1>2, <1>4, <1>sp DEF Untouched
  <2>4. T.cand # 0 => T.sep <= T.answered + T.cand
    BY <1>2, <1>5, <1>sp, <1>rs DEF Untouched, Responds
  <2> QED BY <1>1, <1>2, <1>rs, <2>1, <2>2, <2>3, <2>4 DEF Responds, Untouched
<1> QED BY <1>1, <1>2, <1>6, <1>7, <1>8, <1>9, <1>10, <1>11, <1>12 DEF Sound, T

\* Window i is the next to be consumed.
Window(S, i) == i = S.scan + 1 /\ i \in 1..Len(S.rx)
ScannedTo(T, i) == T.scan = i

\* One window, whichever stage consumes it.
LEMMA ScanWindowSound ==
  ASSUME NEW S, NEW H, NEW w, Sound(S, H, w), Trusted(S, H), Timed(H), NEW i, Window(S, i),
         S.outcome = "none", Verdicted(S, i)
  PROVE  /\ Sound(ScanWindow(S, i), H, w) /\ Untouched(S, ScanWindow(S, i))
         /\ ScannedTo(ScanWindow(S, i), i)
<1> DEFINE C == [S EXCEPT !.scan = i,
                          !.rx[i].level = IF S.boundary = None THEN "heard" ELSE @]
           T == ScanWindow(S, i)
<1>re. Recorded(S)
  BY DEF Sound
<1>i. i \in 1..Len(S.rx) /\ i = S.scan + 1
  BY DEF Window
<1>1. Consumes(S, C, i)
  BY <1>re, <1>i, Consuming
<1>h. S.rx[i].host = S.answered + i
  BY <1>re, <1>i DEF Recorded
<1>cu. Untouched(S, C) /\ DOMAIN C = Fields
  BY <1>1, ConsumedUntouched
<1>co. /\ C.outcome = S.outcome /\ C.anchor = S.anchor /\ C.stop = S.stop
       /\ C.holdStart = S.holdStart /\ C.scan = i
  <2> HIDE DEF C, T
  <2> QED BY <1>1, ConsumedUntouched DEF Consumes
<1>v. (InVoid(C, S.answered + i) <=> InVoid(S, S.answered + i))
      /\ (Overlaps(C, S.answered + i) <=> Overlaps(S, S.answered + i))
  <2> HIDE DEF C
  <2>1. /\ C.voids = S.voids /\ C.mode = S.mode /\ C.boundary = S.boundary
        /\ C.fixEnd = S.fixEnd
    BY <1>cu DEF Untouched
  <2> QED BY <2>1 DEF InVoid, Overlaps
<1>2. CASE InVoid(S, S.answered + i)
  <2>1. T = Unknown(C)
    BY <1>h, <1>v, <1>2 DEF ScanWindow
  <2>2. Unknown(C).scan = i
    BY <1>cu, <1>co DEF Unknown, Fields
  <2> HIDE DEF C, T
  <2> QED BY <1>1, <1>2, <2>1, <2>2, UnknownSound DEF ScannedTo, T
<1>3. CASE ~InVoid(S, S.answered + i) /\ ~Harmless(S, i)
  <2>1. S.rx[i].level = "active" /\ Overlaps(S, S.answered + i)
    BY <1>3 DEF Harmless
  <2>2. T = Fail(C, "stimulus_overlap")
    BY <1>h, <1>v, <1>3, <2>1 DEF ScanWindow
  <2>3. T.outcome = "stimulus_overlap" /\ Changes(C, T, {"outcome"}) /\ T.scan = i
    <3>1. DOMAIN C = Fields /\ C.outcome = "none" /\ C.scan = i
      BY <1>cu, <1>co
    <3> HIDE DEF C
    <3>2. T = [C EXCEPT !.outcome = "stimulus_overlap"]
      BY <2>2, <3>1 DEF Fail
    <3> HIDE DEF T
    <3>3. T.outcome = "stimulus_overlap" /\ T.scan = i /\ DOMAIN T = Fields
      BY <3>1, <3>2 DEF Fields
    <3>4. \A f \in Fields \ {"outcome"} : T[f] = C[f]
      BY <3>1, <3>2
    <3> QED BY <3>3, <3>4 DEF Changes
  <2>4. S.stop # None
    BY <2>1 DEF Overlaps, Sound, Stimulated
  <2> HIDE DEF C, T
  <2>5. Leaves(T)
    BY <2>3 DEF Leaves
  <2>6. Sound(T, H, w) /\ Untouched(S, T)
    BY <1>1, <2>3, <2>4, <2>5, ConsumedSound
  <2> QED BY <2>3, <2>6 DEF ScannedTo, T
<1>4. CASE ~InVoid(S, S.answered + i) /\ Harmless(S, i)
  <2> DEFINE active == S.rx[i].level = "active"
             silent == S.rx[i].level = "silent"
  <2>1. ~(~InVoid(C, S.answered + i) /\ active /\ Overlaps(C, S.answered + i))
        /\ ~InVoid(C, S.answered + i)
    BY <1>v, <1>4 DEF Harmless
  <2>2. T = IF C.anchor = None THEN Anchoring(C, i, active)
            ELSE IF C.stop = None THEN Holding(C, i, silent)
            ELSE IF Awaits(C, S.answered + i) THEN C ELSE Responding(C, i, active)
    BY <1>h, <2>1 DEF ScanWindow
  <2> HIDE DEF C, T, active, silent
  <2>3. CASE S.anchor = None
    <3>1. T = Anchoring(C, i, active)
      BY <1>co, <2>2, <2>3
    <3> QED BY <1>1, <2>3, <3>1, AnchoringSound DEF ScannedTo, T
  <2>4. CASE S.anchor # None /\ S.stop = None
    <3>1. T = Holding(C, i, silent)
      BY <1>co, <2>2, <2>4
    <3> QED BY <1>1, <1>4, <2>4, <3>1, HoldingSound DEF ScannedTo, T
  <2>5. CASE S.anchor # None /\ S.stop # None
    <3>1. T = IF Awaits(C, S.answered + i) THEN C ELSE Responding(C, i, active)
      BY <1>co, <2>2, <2>5
    <3>2. CASE T = C
      <4>1. Changes(C, C, {"outcome"}) /\ Leaves(C)
        BY <1>cu, <1>co DEF Changes, Leaves
      <4> QED BY <1>1, <1>4, <1>co, <2>5, <3>2, <4>1, ConsumedSound DEF ScannedTo, T
    <3>3. CASE T # C
      <4>1. T = Responding(C, i, active) /\ C.sep # None /\ ~(S.answered + i < C.sep)
            /\ ~Snapped(C)
        BY <3>1, <3>3 DEF Awaits, Snapped
      <4>2. Ready(S) /\ ~Snapped(S) /\ ~(S.answered + i < S.sep)
        BY <1>cu, <2>5, <4>1 DEF Ready, Untouched
      <4>3. S.sep <= S.answered + i
        <5>1. S.sep \in Int /\ S.answered + i \in Int
          <6>1. S.sep \in Int /\ S.answered \in Int
            BY DEF Sound, Numeric
          <6> QED BY <1>i, <6>1
        <5> QED BY <4>2, <5>1
      <4> QED BY <1>1, <1>4, <4>1, <4>2, <4>3, RespondingSound DEF ScannedTo, T
    <3> QED BY <3>2, <3>3
  <2> QED BY <2>3, <2>4, <2>5
<1> QED BY <1>2, <1>3, <1>4

-----------------------------------------------------------------------------
(* The scan *)

\* A set of numbers has a least one.
LEMMA LeastNat ==
  ASSUME NEW S \in SUBSET Nat, S # {}
  PROVE  \E n \in S : \A m \in S : n <= m
<1>1. PICK n \in S : \A m \in S : <<m, n>> \notin OpToRel(<, Nat)
  BY NatLessThanWellFounded, WFMin
<1>2. ASSUME NEW m \in S PROVE n <= m
  <2>1. m \in Nat /\ n \in Nat /\ ~(m < n)
    BY <1>1 DEF OpToRel
  <2> QED BY <2>1
<1> QED BY <1>2

\* What the scan comes to after window i, given what it comes to after the one before.
ScanStep(S, g, i) ==
  IF i = S.scan THEN S
  ELSE IF S.rx[i].host >= S.mark THEN g[i - 1]
  ELSE ScanWindow(g[i - 1], i)
Scanned(S, g, n) == g = [i \in S.scan..n |-> ScanStep(S, g, i)]

\* The scan is defined for every number of windows: by least counterexample.
LEMMA ScanExists ==
  ASSUME NEW S, S.scan \in Nat, NEW n \in Nat, S.scan <= n
  PROVE  \E g : Scanned(S, g, n)
<1> DEFINE Bad == {k \in Nat : S.scan <= k /\ ~\E g : Scanned(S, g, k)}
<1> SUFFICES ASSUME Bad # {} PROVE FALSE
  OBVIOUS
<1>1. PICK k \in Bad : \A m \in Bad : k <= m
  BY LeastNat
<1>2. k \in Nat /\ S.scan <= k /\ ~\E g : Scanned(S, g, k)
  BY <1>1
<1>3. CASE k = S.scan
  <2> DEFINE h == [i \in S.scan..k |-> S]
  <2>1. ASSUME NEW i \in S.scan..k PROVE ScanStep(S, h, i) = S
    BY <1>3 DEF ScanStep
  <2>2. Scanned(S, h, k)
    BY <2>1 DEF Scanned
  <2> QED BY <1>2, <2>2
<1>4. CASE k # S.scan
  <2>1. k - 1 \in Nat /\ S.scan <= k - 1 /\ k - 1 \notin Bad
    BY <1>1, <1>2, <1>4
  <2>2. PICK g : Scanned(S, g, k - 1)
    BY <2>1
  <2> DEFINE h == [i \in S.scan..k |-> IF i = k THEN ScanStep(S, g, k) ELSE g[i]]
  <2>3. ASSUME NEW i \in S.scan..k PROVE h[i] = ScanStep(S, h, i)
    <3>1. CASE i = S.scan
      <4>1. h[i] = g[i] /\ i \in S.scan..(k - 1)
        BY <1>2, <1>4, <3>1
      <4>2. g[i] = ScanStep(S, g, i)
        BY <2>2, <4>1 DEF Scanned
      <4> QED BY <3>1, <4>1, <4>2 DEF ScanStep
    <3>2. CASE i # S.scan
      <4>1. i - 1 \in S.scan..k /\ i - 1 # k
        BY <1>2, <3>2
      <4>2. h[i - 1] = g[i - 1]
        BY <4>1
      <4>3. ScanStep(S, h, i) = ScanStep(S, g, i)
        BY <3>2, <4>2 DEF ScanStep
      <4>4. i # k => h[i] = g[i] /\ i \in S.scan..(k - 1)
        BY <1>2
      <4>5. i # k => g[i] = ScanStep(S, g, i)
        BY <2>2, <4>4 DEF Scanned
      <4> QED BY <4>3, <4>4, <4>5
    <3> QED BY <3>1, <3>2
  <2>4. Scanned(S, h, k)
    BY <2>3 DEF Scanned
  <2> QED BY <1>2, <2>4
<1> QED BY <1>3, <1>4

\* So the function the scan is written with satisfies its own equations.
LEMMA ScanIs ==
  ASSUME NEW S, S.scan \in Nat, Len(S.rx) \in Nat, S.scan <= Len(S.rx)
  PROVE  \E g : Scanned(S, g, Len(S.rx)) /\ Scan(S) = g[Len(S.rx)]
<1> DEFINE P(g) == Scanned(S, g, Len(S.rx))
           c == CHOOSE g : P(g)
<1>1. \E g : P(g)
  BY ScanExists
<1>2. P(c)
  BY <1>1
<1>3. Scan(S) = c[Len(S.rx)]
  BY DEF Scan, Scanned, ScanStep
<1> QED BY <1>2, <1>3

\* The windows with a verdict up to n are consumed.
Advances(S, T) == T.scan = S.scan \/ Verdicted(S, T.scan)
Caught(S, T, n) ==
  /\ Advances(S, T)
  /\ T.outcome = "none" =>
       /\ S.scan <= T.scan /\ T.scan <= n
       /\ \A k \in (S.scan + 1)..n : Verdicted(S, k) => k <= T.scan
Scans(S, H, w, T, n) == Sound(T, H, w) /\ Untouched(S, T) /\ Caught(S, T, n)

\* What is left alone twice is left alone.
LEMMA UntouchedChains ==
  ASSUME NEW S, NEW T, NEW U, Untouched(S, T), Untouched(T, U)
  PROVE  Untouched(S, U)
BY DEF Untouched

\* The voids and the watermark are trusted as they were.
LEMMA UntouchedTrusted ==
  ASSUME NEW S, NEW H, NEW T, Untouched(S, T)
  PROVE  /\ Trusted(S, H) => Trusted(T, H)
         /\ \A i : Verdicted(S, i) <=> Verdicted(T, i)
BY DEF Untouched, Trusted, InVoid, Verdicted

\* Every window up to the watermark, in order: by least counterexample.
LEMMA ScanSound ==
  ASSUME NEW S, NEW H, NEW w, Sound(S, H, w), Trusted(S, H), Timed(H)
  PROVE  Scans(S, H, w, Scan(S), Len(S.rx))
<1>ty. /\ S.scan \in Nat /\ Len(S.rx) \in Nat /\ S.scan <= Len(S.rx)
       /\ S.answered \in Int /\ S.mark \in Int
  BY DEF Sound, Numeric, Recorded, Anchored
<1>re. Recorded(S)
  BY DEF Sound
<1>1. PICK g : Scanned(S, g, Len(S.rx)) /\ Scan(S) = g[Len(S.rx)]
  BY <1>ty, ScanIs
<1>2. ASSUME NEW n \in Nat, S.scan <= n, n <= Len(S.rx) PROVE g[n] = ScanStep(S, g, n)
  BY <1>1, <1>ty, <1>2 DEF Scanned
<1> DEFINE Bad == {n \in Nat : S.scan <= n /\ n <= Len(S.rx) /\ ~Scans(S, H, w, g[n], n)}
<1>3. Bad = {}
  <2> SUFFICES ASSUME Bad # {} PROVE FALSE
    OBVIOUS
  <2>1. PICK n \in Bad : \A m \in Bad : n <= m
    BY LeastNat
  <2>2. n \in Nat /\ S.scan <= n /\ n <= Len(S.rx) /\ ~Scans(S, H, w, g[n], n)
    BY <2>1
  <2>3. g[n] = ScanStep(S, g, n)
    BY <1>2, <2>2
  <2>4. CASE n = S.scan
    <3>1. g[n] = S
      BY <2>3, <2>4 DEF ScanStep
    <3>2. Untouched(S, S)
      BY <1>re DEF Recorded, Untouched
    <3>3. Caught(S, S, n)
      BY <1>ty, <2>4 DEF Caught, Advances
    <3> QED BY <2>2, <3>1, <3>2, <3>3 DEF Scans
  <2>5. CASE n # S.scan
    <3> DEFINE T == g[n - 1]
    <3>1. n - 1 \in Nat /\ S.scan <= n - 1 /\ n - 1 <= Len(S.rx) /\ n - 1 \notin Bad
          /\ n \in 1..Len(S.rx)
      BY <1>ty, <2>1, <2>2, <2>5
    <3>2. Scans(S, H, w, T, n - 1)
      BY <3>1
    <3>3. S.rx[n].host = S.answered + n
      BY <1>re, <3>1 DEF Recorded
    <3>4. g[n] = IF S.rx[n].host >= S.mark THEN T ELSE ScanWindow(T, n)
      BY <2>3, <2>5 DEF ScanStep
    <3> HIDE DEF T
    <3>5. CASE S.rx[n].host >= S.mark
      <4>1. ~Verdicted(S, n)
        BY <1>ty, <2>2, <3>3, <3>5 DEF Verdicted
      <4>2. Caught(S, T, n)
        <5>0. Advances(S, T)
          BY <3>2 DEF Scans, Caught
        <5> SUFFICES ASSUME T.outcome = "none" PROVE Caught(S, T, n)
          BY <5>0 DEF Caught
        <5>1. T.scan \in Nat /\ S.scan <= T.scan /\ T.scan <= n - 1
          BY <3>2 DEF Scans, Caught, Sound, Numeric
        <5>2. ASSUME NEW k \in (S.scan + 1)..n, Verdicted(S, k) PROVE k <= T.scan
          <6>1. k # n
            BY <4>1, <5>2
          <6>2. k \in (S.scan + 1)..(n - 1)
            BY <1>ty, <2>2, <6>1
          <6> QED BY <3>2, <5>2, <6>2 DEF Scans, Caught
        <5>3. T.scan <= n
          BY <5>1, <2>2
        <5> QED BY <5>0, <5>1, <5>2, <5>3 DEF Caught
      <4> QED BY <2>2, <3>2, <3>4, <3>5, <4>2 DEF Scans
    <3>6. CASE ~(S.rx[n].host >= S.mark)
      <4> DEFINE U == ScanWindow(T, n)
      <4>1. g[n] = U
        BY <3>4, <3>6
      <4>2. CASE T.outcome # "none"
        <5>1. U = T
          BY <4>2 DEF ScanWindow
        <5>2. Caught(S, T, n)
          BY <3>2, <4>2 DEF Scans, Caught
        <5> QED BY <2>2, <3>2, <4>1, <5>1, <5>2 DEF Scans
      <4>3. CASE T.outcome = "none"
        <5>1. Verdicted(S, n) /\ (n - 1 \in (S.scan + 1)..(n - 1) => Verdicted(S, n - 1))
          BY <1>ty, <2>2, <3>3, <3>6 DEF Verdicted
        <5>2. T.scan \in Nat /\ S.scan <= T.scan /\ T.scan <= n - 1
          BY <3>2, <4>3 DEF Scans, Caught, Sound, Numeric
        <5>3. T.scan = n - 1
          <6>1. CASE n - 1 = S.scan
            BY <5>2, <6>1
          <6>2. CASE n - 1 # S.scan
            <7>1. n - 1 \in (S.scan + 1)..(n - 1)
              BY <1>ty, <3>1, <6>2
            <7>2. n - 1 <= T.scan
              BY <3>2, <4>3, <5>1, <7>1 DEF Scans, Caught
            <7> QED BY <5>2, <7>2, <2>2
          <6> QED BY <6>1, <6>2
        <5>4. Window(T, n)
          <6>1. n = T.scan + 1
            BY <5>3, <2>2
          <6>2. Len(T.rx) = Len(S.rx)
            BY <3>2 DEF Scans, Untouched
          <6> QED BY <3>1, <6>1, <6>2 DEF Window
        <5>5. Sound(T, H, w) /\ Trusted(T, H) /\ Verdicted(T, n)
          BY <3>2, <5>1, UntouchedTrusted DEF Scans
        <5>6. Sound(U, H, w) /\ Untouched(T, U) /\ ScannedTo(U, n)
          BY <4>3, <5>4, <5>5, ScanWindowSound
        <5>7. Untouched(S, U)
          BY <3>2, <5>6, UntouchedChains DEF Scans
        <5> HIDE DEF U
        <5>9. Advances(S, U)
          BY <5>1, <5>6 DEF ScannedTo, Advances
        <5>8. Caught(S, U, n)
          BY <5>6, <5>9, <2>2, <1>ty DEF ScannedTo, Caught
        <5> QED BY <2>2, <4>1, <5>6, <5>7, <5>8 DEF Scans
      <4> QED BY <4>2, <4>3
    <3> QED BY <3>5, <3>6
  <2> QED BY <2>4, <2>5
<1>4. Len(S.rx) \notin Bad
  BY <1>3
<1> QED BY <1>1, <1>4, <1>ty

-----------------------------------------------------------------------------
(* What is prepared after the scan *)

\* The watermark is not ahead of the frames, and the frames behind it are consumed.
Fresh(S) == S.mark <= S.answered + Len(S.rx)
Consumed(S) == \A k \in 1..Len(S.rx) : Verdicted(S, k) => k <= S.scan

\* What a tick does not touch, and of the frames their number and times.
Kept(S, T) ==
  /\ DOMAIN T = Fields
  /\ T.mode = S.mode /\ T.answered = S.answered /\ T.mark = S.mark /\ T.voids = S.voids
  /\ T.boundary = S.boundary /\ T.fixEnd = S.fixEnd /\ T.next = S.next
  /\ T.counters = S.counters /\ T.base = S.base /\ T.pending = S.pending
  /\ T.lastPull = S.lastPull /\ Advances(S, T)
  /\ (Confirmed(T) <=> Confirmed(S))
  /\ T.rx \in Seq(Heard) /\ Len(T.rx) = Len(S.rx)
  /\ \A j \in 1..Len(S.rx) : T.rx[j].host = S.rx[j].host

\* A stage of the scan keeps what an analysis keeps.
LEMMA UntouchedKept ==
  ASSUME NEW S, NEW T, Untouched(S, T), Advances(S, T)
  PROVE  Kept(S, T)
BY DEF Untouched, Kept

\* What two parts of an analysis keep, both together keep.
LEMMA KeptChains ==
  ASSUME NEW S, NEW T, NEW U, Kept(S, T), Kept(T, U)
  PROVE  Kept(S, U)
<1>1. Advances(S, U)
  BY DEF Kept, Advances, Verdicted
<1> QED BY <1>1 DEF Kept

\* An analysis leaves the voids and the watermark as they were.
LEMMA KeptTrusted ==
  ASSUME NEW S, NEW H, NEW T, Kept(S, T)
  PROVE  /\ Trusted(S, H) => Trusted(T, H)
         /\ Fresh(S) => Fresh(T)
         /\ \A i : Verdicted(S, i) <=> Verdicted(T, i)
BY DEF Kept, Trusted, InVoid, Verdicted, Fresh

\* Doing nothing keeps everything.
LEMMA SoundKept ==
  ASSUME NEW S, NEW H, NEW w, Sound(S, H, w)
  PROVE  Kept(S, S)
BY DEF Sound, Recorded, Kept, Advances

\* An outcome that certifies nothing that was judged.
LEMMA OutcomeSound ==
  ASSUME NEW S, NEW H, NEW w, Sound(S, H, w), S.outcome = "none",
         NEW T, Changes(S, T, {"outcome", "teardown"}), Neutral(T)
  PROVE  Sound(T, H, w) /\ Kept(S, T)
<1>r. Recorded(S)
  BY DEF Sound
<1>1. Untouched(S, T)
  BY <1>r DEF Changes, Fields, Recorded, Untouched, Snapped, Confirmed
<1>2. /\ T.anchor = S.anchor /\ T.stop = S.stop /\ T.scan = S.scan /\ T.rx = S.rx
      /\ T.runStart = S.runStart /\ T.run = S.run /\ T.holdStart = S.holdStart
      /\ T.dStart = S.dStart /\ T.dRun = S.dRun /\ T.cand = S.cand
      /\ T.sched = S.sched
  BY DEF Changes, Fields
<1>3. T.armed = S.armed /\ (Armed(T) <=> Armed(S))
  BY DEF Changes, Fields, Armed
<1>4. Numeric(T)
  BY <1>1, <1>2 DEF Sound, Numeric, Untouched
<1>f. Flagged(S)
  BY DEF Sound
<1>5. Flagged(T)
  BY <1>f DEF Changes, Fields, Flagged
<1>6. Recorded(T)
  BY <1>1, <1>2, <1>r DEF Recorded, Untouched
<1>7. Anchored(T)
  BY <1>1, <1>2, <1>3 DEF Sound, Anchored, Untouched
<1>8. Silent(T, H)
  BY <1>1, <1>2 DEF Sound, Silent, Held, Stopped, Separated, Untouched
<1>9. Stimulated(T)
  BY <1>1, <1>2, <1>3 DEF Sound, Stimulated, Untouched
<1>10. Responds(T)
  BY <1>1, <1>2 DEF Sound, Responds, Ready, Untouched
<1>11. Judged(T, H, w)
  BY <1>1, <1>2, JudgedFrame DEF Sound
<1>12. Undisturbed(T)
  BY <1>1, <1>2 DEF Sound, Undisturbed, Over, Heeded, InVoid, Untouched
<1>13. Delivered(T, w)
  BY <1>1, <1>3 DEF Sound, Delivered, Untouched
<1>14. Kept(S, T)
  BY <1>1, <1>2, UntouchedKept DEF Advances
<1> QED BY <1>4, <1>5, <1>6, <1>7, <1>8, <1>9, <1>10, <1>11, <1>12, <1>13, <1>14 DEF Sound

\* The categories a failure may have.
Fails(category) == category \notin {"none", "captured", "phase3 captured", "control echo"}

\* A failure certifies nothing, and only ends the session.
LEMMA FailSound ==
  ASSUME NEW S, NEW H, NEW w, Sound(S, H, w), NEW category, Fails(category)
  PROVE  /\ Sound(Fail(S, category), H, w) /\ Kept(S, Fail(S, category))
         /\ Fail(S, category).outcome # "none"
         /\ Changes(S, Fail(S, category), {"outcome"})
<1> DEFINE T == Fail(S, category)
<1>1. DOMAIN S = Fields
  BY DEF Sound, Recorded
<1>2. CASE S.outcome = "none"
  <2>1. T.outcome = category /\ Changes(S, T, {"outcome"})
    BY <1>1, <1>2 DEF Fail, Changes, Fields
  <2> HIDE DEF T
  <2>2. Neutral(T) /\ T.outcome # "none"
    BY <2>1 DEF Fails, Neutral, Captured
  <2>3. Changes(S, T, {"outcome", "teardown"})
    BY <2>1 DEF Changes
  <2> QED BY <1>2, <2>1, <2>2, <2>3, OutcomeSound DEF T
<1>3. CASE S.outcome # "none"
  <2>1. T = S
    BY <1>3 DEF Fail
  <2>2. Changes(S, S, {"outcome"})
    BY <1>1 DEF Changes
  <2> QED BY <1>3, <2>1, <2>2, SoundKept
<1> QED BY <1>2, <1>3

\* The separating silence is after the fixture, verdicted, clear of voids: it was heard.
LEMMA SeparatingSound ==
  ASSUME NEW S, NEW H, NEW w, Sound(S, H, w), Trusted(S, H), Timed(H), Fresh(S),
         S.outcome = "none", S.fixEnd # None, S.sep = None, S.mode # "echo-control"
  PROVE  Sound(Separating(S), H, w) /\ Kept(S, Separating(S))
<1> DEFINE starts == {k \in 1..Len(S.rx) : Separates(S, k)}
           T == Separating(S)
<1>1. CASE starts = {}
  BY <1>1, SoundKept DEF Separating
<1>2. CASE starts # {}
  <2> DEFINE k == Min(starts)
             from == S.answered + k
  <2>ty. Numeric(S)
    BY DEF Sound
  <2>fl. Flagged(S)
    BY DEF Sound
  <2>re. Recorded(S)
    BY DEF Sound
  <2>len. Len(S.rx) \in Nat
    BY <2>re DEF Recorded
  <2>1. k \in starts
    <3>1. starts \in SUBSET Nat
      BY <2>len
    <3>2. \E x \in starts : \A y \in starts : x <= y
      BY <1>2, <3>1, LeastNat
    <3> HIDE DEF starts
    <3> QED BY <3>2 DEF Min
  <2>2. T = [S EXCEPT !.sep = S.rx[k].host + Sep, !.gate = FALSE]
    BY <1>2 DEF Separating
  <2>3. k \in 1..Len(S.rx) /\ Separates(S, k)
    BY <2>1
  <2> HIDE DEF starts, k
  <2>4. S.rx[k].host = from
    BY <2>3, <2>re DEF Recorded
  <2>5. from >= S.fixEnd /\ from + Sep < S.mark /\ Clear(S, from, from + Sep)
    BY <2>3, <2>4 DEF Separates
  <2>6. S.answered \in Int /\ S.fixEnd \in Int /\ S.boundary \in Int /\ S.mark \in Int /\ from \in Int
    <3>1. S.answered \in Int /\ S.fixEnd \in Int /\ S.boundary \in Int /\ S.mark \in Int
      BY <2>ty DEF Numeric
    <3>2. k \in Nat
      BY <2>3, <2>len
    <3> QED BY <3>1, <3>2
  <2>7. Sep \in Nat \ {0} /\ Arm \in Nat
    BY ConstantsHold DEF Constants
  <2> HIDE DEF from
  <2>8. S.boundary # None /\ S.answered + Arm < S.boundary /\ S.boundary < S.fixEnd /\ Armed(S)
        /\ Stimulates(S.mode)
    BY DEF Sound, Stimulated
  <2>9. ~Controls(S.mode)
    BY <2>8 DEF Controls, Stimulates
  <2>10. S.pending = "none" /\ ~Snapped(S) /\ S.dStart = 0 /\ S.cand = 0
    BY <2>9 DEF Sound, Responds, Ready
  <2>11. Within(S, from, from + Sep)
    BY <2>5, <2>6, <2>7, <2>8 DEF Within
  <2>12. ~Conceals(H, from, from + Sep)
    <3>1. from + Sep \in Int
      BY <2>6, <2>7
    <3> QED BY <2>ty, <2>fl, <2>5, <2>6, <2>10, <2>11, <3>1, ClearIsReal
  <2>13. Changes(S, T, {"sep", "gate"}) /\ T.sep = from + Sep
    BY <2>2, <2>4, <2>re DEF Recorded, Changes, Fields
  <2> HIDE DEF T
  <2>14. /\ T.mode = S.mode /\ T.outcome = S.outcome /\ T.answered = S.answered /\ T.rx = S.rx
         /\ T.anchor = S.anchor /\ T.stop = S.stop /\ T.scan = S.scan
         /\ T.runStart = S.runStart /\ T.run = S.run /\ T.holdStart = S.holdStart
         /\ T.dStart = S.dStart /\ T.dRun = S.dRun /\ T.cand = S.cand /\ T.sched = S.sched
         /\ T.next = S.next /\ T.boundary = S.boundary /\ T.fixEnd = S.fixEnd
         /\ T.voids = S.voids /\ T.mark = S.mark /\ T.counters = S.counters /\ T.base = S.base
         /\ T.pending = S.pending /\ DOMAIN T = Fields
    BY <2>13 DEF Changes, Fields
  <2>15. T.armed = S.armed /\ T.confirmed = S.confirmed /\ T.snapshot = S.snapshot
    BY <2>13 DEF Changes, Fields
  <2>16. (Armed(T) <=> Armed(S)) /\ (Confirmed(T) <=> Confirmed(S)) /\ (Snapped(T) <=> Snapped(S))
    BY <2>15 DEF Armed, Confirmed, Snapped
  <2>20. Numeric(T)
    <3>1. T.sep \in Int
      BY <2>6, <2>7, <2>13
    <3> QED BY <2>ty, <2>14, <3>1 DEF Numeric
  <2>21. Flagged(T)
    BY <2>fl, <2>14, <2>15 DEF Flagged
  <2>22. Recorded(T)
    BY <2>re, <2>14 DEF Recorded
  <2>23. Anchored(T)
    BY <2>14, <2>16 DEF Sound, Anchored
  <2>24. Silent(T, H)
    <3>1. Held(T) /\ Stopped(T, H)
      BY <2>14 DEF Sound, Silent, Held, Stopped
    <3>2. T.sep - Sep = from
      BY <2>6, <2>7, <2>13
    <3>3. T.sep <= T.answered + Len(T.rx)
      <4>1. from + Sep < S.mark /\ S.mark <= S.answered + Len(S.rx)
        BY <2>5 DEF Fresh
      <4> QED BY <2>6, <2>7, <2>len, <2>13, <2>14, <4>1
    <3>4. T.fixEnd <= from
      BY <2>5, <2>6, <2>14
    <3> QED BY <2>12, <2>13, <2>14, <3>1, <3>2, <3>3, <3>4 DEF Silent, Separated
  <2>25. Stimulated(T)
    BY <2>14, <2>16 DEF Sound, Stimulated
  <2>26. Responds(T)
    BY <2>10, <2>14, <2>16 DEF Sound, Responds
  <2>27. Judged(T, H, w)
    <3>1. Neutral(T) /\ ~Controlled(T)
      BY <2>10, <2>14, <2>16 DEF Neutral, Captured, Controlled
    <3> QED BY <2>10, <2>14, <2>16, <3>1 DEF Judged, Neutral
  <2>28. Undisturbed(T)
    BY <2>14 DEF Sound, Undisturbed, Over, Heeded, InVoid
  <2>29. Delivered(T, w)
    BY <2>14, <2>16 DEF Sound, Delivered
  <2>30. Kept(S, T)
    BY <2>re, <2>13, <2>14, <2>16 DEF Kept, Recorded, Advances, Changes, Fields
  <2> QED BY <2>20, <2>21, <2>22, <2>23, <2>24, <2>25, <2>26, <2>27, <2>28, <2>29, <2>30 DEF Sound, T
<1> QED BY <1>1, <1>2

\* The audio after a window is real, if it has its verdict and is clear of voids.
LEMMA UntilIsReal ==
  ASSUME NEW S, NEW H, NEW w, Sound(S, H, w), Trusted(S, H), Timed(H), Fresh(S),
         S.pending = "none",
         NEW first \in 1..Len(S.rx), Arm <= first, Verdicted(S, Until(S, first)),
         Clear(S, S.answered + first, S.answered + Until(S, first))
  PROVE  Real(S, H, first)
<1>ty. Numeric(S) /\ Flagged(S)
  BY DEF Sound
<1>1. Len(S.rx) \in Nat /\ S.answered \in Int /\ S.mark \in Int
  BY DEF Sound, Recorded, Numeric
<1>2. Fixture \in Nat /\ Search \in Nat /\ Arm \in Nat
  BY ConstantsHold DEF Constants
<1>3. first \in Nat /\ Until(S, first) \in Nat
  BY <1>1, <1>2 DEF Until
<1>4. Until(S, first) < Len(S.rx)
  <2>1. S.answered + Until(S, first) < S.mark /\ S.mark <= S.answered + Len(S.rx)
    BY DEF Verdicted, Fresh
  <2> QED BY <1>1, <1>3, <2>1
<1>5. Until(S, first) = first + Fixture + Search /\ first + Fixture + Search <= Len(S.rx)
  BY <1>1, <1>2, <1>3, <1>4 DEF Until
<1>6. Within(S, S.answered + first, S.answered + Until(S, first))
  BY <1>1, <1>2, <1>3 DEF Within, Verdicted
<1>7. ~Conceals(H, S.answered + first, S.answered + Until(S, first))
  <2>1. S.answered + first \in Int /\ S.answered + Until(S, first) \in Int
    BY <1>1, <1>3
  <2> QED BY <1>ty, <1>6, <2>1, ClearIsReal
<1>8. S.answered + Until(S, first) = S.answered + first + Fixture + Search
  BY <1>1, <1>2, <1>3, <1>5
<1> QED BY <1>5, <1>7, <1>8 DEF Real

\* What the session must have before audio is judged.
Worthy(S, H, w) ==
  /\ S.stop # None /\ Judges(S.mode)
  /\ ~Controls(S.mode) => S.sep # None
  /\ w /\ Measures(S.mode) => S.cand # 0 /\ Real(S, H, S.cand) /\ Confirmed(S)
  /\ S.mode = "echo-control" => S.boundary # None /\ Real(S, H, S.boundary - S.answered)

\* Taking a snapshot is sound when its audio is worthy of it.
LEMMA SnapshotSound ==
  ASSUME NEW S, NEW H, NEW w, Sound(S, H, w), S.outcome = "none",
         NEW T, Changes(S, T, {"snapshot"}), T.snapshot \in BOOLEAN,
         Snapped(T) => Snapped(S) \/ Worthy(S, H, w)
  PROVE  Sound(T, H, w) /\ Kept(S, T)
<1>re. Recorded(S)
  BY DEF Sound
<1>1. /\ T.mode = S.mode /\ T.outcome = S.outcome /\ T.answered = S.answered /\ T.rx = S.rx
      /\ T.anchor = S.anchor /\ T.stop = S.stop /\ T.scan = S.scan
      /\ T.runStart = S.runStart /\ T.run = S.run /\ T.holdStart = S.holdStart
      /\ T.dStart = S.dStart /\ T.dRun = S.dRun /\ T.cand = S.cand /\ T.sched = S.sched
      /\ T.next = S.next /\ T.boundary = S.boundary /\ T.fixEnd = S.fixEnd /\ T.sep = S.sep
      /\ T.voids = S.voids /\ T.mark = S.mark /\ T.counters = S.counters /\ T.base = S.base
      /\ T.pending = S.pending /\ DOMAIN T = Fields
  BY DEF Changes, Fields
<1>2. T.armed = S.armed /\ T.confirmed = S.confirmed
  BY DEF Changes, Fields
<1>3. (Armed(T) <=> Armed(S)) /\ (Confirmed(T) <=> Confirmed(S))
  BY <1>2 DEF Armed, Confirmed
<1>4. \A from : Real(T, H, from) <=> Real(S, H, from)
  BY <1>1 DEF Real
<1>5. Numeric(T)
  BY <1>1 DEF Sound, Numeric
<1>6. Flagged(T)
  BY <1>1, <1>2 DEF Sound, Flagged
<1>7. Recorded(T)
  BY <1>re, <1>1 DEF Recorded
<1>8. Anchored(T)
  BY <1>1, <1>3 DEF Sound, Anchored
<1>9. Silent(T, H)
  BY <1>1 DEF Sound, Silent, Held, Stopped, Separated
<1>10. Stimulated(T)
  BY <1>1, <1>3 DEF Sound, Stimulated
<1>11. Responds(T)
  <2>1. Snapped(T) \/ T.pending # "none" =>
          /\ T.stop # None /\ Judges(T.mode)
          /\ ~Controls(T.mode) => T.sep # None
    BY <1>1 DEF Sound, Responds, Worthy
  <2>2. /\ S.dStart <= S.scan /\ S.cand <= S.scan
        /\ S.dStart # 0 => Ready(S) /\ S.sep <= S.answered + S.dStart
        /\ S.cand # 0 => Ready(S) /\ S.sep <= S.answered + S.cand
    BY DEF Sound, Responds
  <2>3. Ready(T) <=> Ready(S)
    BY <1>1 DEF Ready
  <2> QED BY <1>1, <2>1, <2>2, <2>3 DEF Responds
<1>12. Judged(T, H, w)
  <2>j. Judged(S, H, w)
    BY DEF Sound
  <2>1. Neutral(T) /\ (Controlled(T) => Controlled(S) \/ Worthy(S, H, w))
    BY <1>1 DEF Neutral, Captured, Controlled
  <2>2. ASSUME w, Measures(T.mode)
        PROVE  /\ T.pending = "none"
               /\ Snapped(T) => T.cand # 0 /\ Real(T, H, T.cand) /\ Confirmed(T)
    BY <1>1, <1>3, <1>4, <2>j, <2>2 DEF Judged, Worthy
  <2>3. ASSUME T.mode = "echo-control", Controlled(T)
        PROVE  T.boundary # None /\ Real(T, H, T.boundary - T.answered)
    BY <1>1, <1>4, <2>j, <2>1, <2>3 DEF Judged, Worthy
  <2> QED BY <2>1, <2>2, <2>3 DEF Judged, Neutral
<1>13. Undisturbed(T)
  BY <1>1 DEF Sound, Undisturbed, Over, Heeded, InVoid
<1>14. Delivered(T, w)
  BY <1>1, <1>3 DEF Sound, Delivered
<1>15. Kept(S, T)
  BY <1>re, <1>1, <1>3 DEF Kept, Recorded, Advances, Changes, Fields
<1> QED BY <1>5, <1>6, <1>7, <1>8, <1>9, <1>10, <1>11, <1>12, <1>13, <1>14, <1>15 DEF Sound

\* A void loses the candidate.
LEMMA RestartSound ==
  ASSUME NEW S, NEW H, NEW w, Sound(S, H, w), S.outcome = "none", ~Snapped(S),
         NEW T, Changes(S, T, {"cand", "dStart", "dRun"}), T.cand = 0, T.dStart = 0, T.dRun = 0
  PROVE  Sound(T, H, w) /\ Kept(S, T)
<1>re. Recorded(S)
  BY DEF Sound
<1>1. /\ T.mode = S.mode /\ T.outcome = S.outcome /\ T.answered = S.answered /\ T.rx = S.rx
      /\ T.anchor = S.anchor /\ T.stop = S.stop /\ T.scan = S.scan
      /\ T.runStart = S.runStart /\ T.run = S.run /\ T.holdStart = S.holdStart
      /\ T.sched = S.sched
      /\ T.next = S.next /\ T.boundary = S.boundary /\ T.fixEnd = S.fixEnd /\ T.sep = S.sep
      /\ T.voids = S.voids /\ T.mark = S.mark /\ T.counters = S.counters /\ T.base = S.base
      /\ T.pending = S.pending /\ DOMAIN T = Fields
  BY DEF Changes, Fields
<1>2. T.armed = S.armed /\ T.confirmed = S.confirmed /\ T.snapshot = S.snapshot
  BY DEF Changes, Fields
<1>3. (Armed(T) <=> Armed(S)) /\ (Confirmed(T) <=> Confirmed(S)) /\ (Snapped(T) <=> Snapped(S))
  BY <1>2 DEF Armed, Confirmed, Snapped
<1>4. \A from : Real(T, H, from) <=> Real(S, H, from)
  BY <1>1 DEF Real
<1>5. Numeric(T)
  BY <1>1 DEF Sound, Numeric
<1>6. Flagged(T)
  BY <1>1, <1>2 DEF Sound, Flagged
<1>7. Recorded(T)
  BY <1>re, <1>1 DEF Recorded
<1>8. Anchored(T)
  BY <1>1, <1>3 DEF Sound, Anchored
<1>9. Silent(T, H)
  BY <1>1 DEF Sound, Silent, Held, Stopped, Separated
<1>10. Stimulated(T)
  BY <1>1, <1>3 DEF Sound, Stimulated
<1>11. Responds(T)
  <2>1. 0 <= T.scan
    BY <1>5 DEF Numeric
  <2>2. Snapped(S) \/ S.pending # "none" =>
          /\ S.stop # None /\ Judges(S.mode)
          /\ ~Controls(S.mode) => S.sep # None
    BY DEF Sound, Responds
  <2> QED BY <1>1, <1>3, <2>1, <2>2 DEF Responds
<1>12. Judged(T, H, w)
  <2>j. Judged(S, H, w)
    BY DEF Sound
  <2>1. Neutral(T) /\ (Controlled(T) => Controlled(S))
    BY <1>1, <1>3 DEF Neutral, Captured, Controlled
  <2>2. ASSUME T.mode = "echo-control", Controlled(T)
        PROVE  T.boundary # None /\ Real(T, H, T.boundary - T.answered)
    BY <1>1, <1>4, <2>j, <2>1, <2>2 DEF Judged
  <2> QED BY <1>1, <1>3, <2>j, <2>1, <2>2 DEF Judged, Neutral
<1>13. Undisturbed(T)
  BY <1>1 DEF Sound, Undisturbed, Over, Heeded, InVoid
<1>14. Delivered(T, w)
  BY <1>1, <1>3 DEF Sound, Delivered
<1>15. Kept(S, T)
  BY <1>re, <1>1, <1>3 DEF Kept, Recorded, Advances, Changes, Fields
<1> QED BY <1>5, <1>6, <1>7, <1>8, <1>9, <1>10, <1>11, <1>12, <1>13, <1>14, <1>15 DEF Sound

\* The candidate's audio is clear of voids and verdicted to its end.
LEMMA EchoSnapshotSound ==
  ASSUME NEW S, NEW H, NEW w, Sound(S, H, w), Trusted(S, H), Timed(H), Fresh(S), Consumed(S),
         S.outcome = "none", S.cand # 0, ~Snapped(S)
  PROVE  Sound(EchoSnapshot(S), H, w) /\ Kept(S, EchoSnapshot(S))
<1> DEFINE T == EchoSnapshot(S)
           clear == Clear(S, S.rx[S.cand].host, S.rx[S.scan].host)
<1>re. Recorded(S)
  BY DEF Sound
<1>ty. Numeric(S)
  BY DEF Sound
<1>len. Len(S.rx) \in Nat
  BY <1>re DEF Recorded
<1>n. S.cand \in Nat /\ S.scan \in Nat /\ S.answered \in Int /\ S.mark \in Int
  BY <1>ty DEF Numeric
<1>fe. S.boundary \in Int /\ S.fixEnd \in Int /\ S.sep \in Int
  BY <1>ty DEF Numeric
<1>k. Fixture \in Nat /\ Search \in Nat /\ Arm \in Nat /\ Sep \in Nat
  BY ConstantsHold DEF Constants
<1>1. CASE ~clear
  <2>1. Changes(S, T, {"cand", "dStart", "dRun"}) /\ T.cand = 0 /\ T.dStart = 0 /\ T.dRun = 0
    BY <1>1, <1>re DEF EchoSnapshot, Recorded, Changes, Fields
  <2> HIDE DEF T
  <2> QED BY <2>1, RestartSound DEF T
<1>2. CASE clear
  <2>1. Changes(S, T, {"snapshot"})
    BY <1>2, <1>re DEF EchoSnapshot, Recorded, Changes, Fields
  <2>2. T.snapshot \in BOOLEAN /\ (Snapped(T) => Snapped(S) \/ Judgeable(S, S.cand))
    BY <1>2, <1>re DEF EchoSnapshot, Recorded, Fields, Snapped
  <2> HIDE DEF T
  <2>3. ASSUME Judgeable(S, S.cand) PROVE Worthy(S, H, w)
    <3>1. Ready(S) /\ S.sep <= S.answered + S.cand /\ S.cand <= S.scan
      BY DEF Sound, Responds
    <3>2. S.fixEnd # None /\ S.fixEnd <= S.sep - Sep /\ S.mode # "echo-control"
      BY <3>1 DEF Sound, Silent, Separated, Ready
    <3>3. S.boundary # None /\ S.boundary < S.fixEnd
      BY <3>2 DEF Sound, Stimulated
    <3>4. Armed(S) /\ S.answered + Arm < S.boundary
      BY <3>3 DEF Sound, Stimulated
    <3>5. Stimulates(S.mode)
      BY <3>4 DEF Sound, Stimulated
    <3>6. S.scan <= Len(S.rx)
      BY DEF Sound, Anchored
    <3>7. S.cand \in 1..Len(S.rx) /\ S.scan \in 1..Len(S.rx)
      BY <1>n, <1>len, <3>1, <3>6
    <3>8. Until(S, S.cand) \in 1..Len(S.rx)
      BY <1>n, <1>len, <1>k, <3>7 DEF Until
    <3>9. Verdicted(S, Until(S, S.cand))
      BY <2>3, <3>8, <1>re DEF Judgeable, Recorded, Verdicted
    <3>10. Until(S, S.cand) <= S.scan
      BY <3>8, <3>9 DEF Consumed
    <3>11. Clear(S, S.answered + S.cand, S.answered + S.scan)
      BY <1>2, <1>re, <3>7 DEF Recorded
    <3>12. Clear(S, S.answered + S.cand, S.answered + Until(S, S.cand))
      <4> SUFFICES ASSUME NEW v \in S.voids
                   PROVE  S.answered + Until(S, S.cand) < v[1] \/ S.answered + S.cand > v[2]
        BY DEF Clear
      <4>1. S.answered + S.scan < v[1] \/ S.answered + S.cand > v[2]
        BY <3>11 DEF Clear
      <4>2. v[1] \in Int
        BY DEF Sound, Flagged
      <4>3. S.answered + Until(S, S.cand) <= S.answered + S.scan
        BY <1>n, <3>8, <3>10, <1>len
      <4>4. S.answered + Until(S, S.cand) \in Int /\ S.answered + S.scan \in Int
        BY <1>n, <3>8, <1>len
      <4> QED BY <4>1, <4>2, <4>3, <4>4
    <3>13. Arm <= S.cand
      BY <1>n, <1>fe, <1>k, <3>1, <3>2, <3>3, <3>4
    <3>14. ASSUME w, Measures(S.mode) PROVE Real(S, H, S.cand) /\ Confirmed(S)
      <4>1. S.pending = "none"
        BY <3>14 DEF Sound, Judged
      <4>2. Real(S, H, S.cand)
        BY <3>7, <3>9, <3>12, <3>13, <4>1, UntilIsReal
      <4>3. S.answered + S.cand < S.mark
        <5>1. S.answered + Until(S, S.cand) < S.mark
          BY <3>9 DEF Verdicted
        <5>2. S.cand <= Until(S, S.cand)
          BY <1>n, <1>len, <1>k, <3>7 DEF Until
        <5> QED BY <1>n, <1>len, <3>8, <5>1, <5>2
      <4>4. S.fixEnd <= S.mark
        BY <1>n, <1>fe, <1>k, <3>1, <3>2, <4>3
      <4> QED BY <3>2, <3>14, <4>2, <4>4 DEF Sound, Delivered
    <3> QED BY <3>1, <3>2, <3>5, <3>14 DEF Worthy, Judges, Ready
  <2>4. Snapped(T) => Snapped(S) \/ Worthy(S, H, w)
    BY <2>2, <2>3
  <2> QED BY <2>1, <2>2, <2>4, SnapshotSound DEF T
<1> QED BY <1>1, <1>2

\* The echo control's audio, from the first frame of the stimulus.
LEMMA EchoControlSnapshotSound ==
  ASSUME NEW S, NEW H, NEW w, Sound(S, H, w), Trusted(S, H), Timed(H), Fresh(S),
         S.outcome = "none", S.mode = "echo-control", S.fixEnd # None
  PROVE  Sound(EchoControlSnapshot(S), H, w) /\ Kept(S, EchoControlSnapshot(S))
<1> DEFINE T == EchoControlSnapshot(S)
           after == {i \in DOMAIN S.rx : S.rx[i].host >= S.boundary}
           first == Min(after)
           end == S.rx[Until(S, first)].host
<1>re. Recorded(S)
  BY DEF Sound
<1>ty. Numeric(S)
  BY DEF Sound
<1>len. Len(S.rx) \in Nat /\ DOMAIN S.rx = 1..Len(S.rx)
  BY <1>re DEF Recorded
<1>n. S.answered \in Int /\ S.mark \in Int /\ S.boundary \in Int
  BY <1>ty DEF Numeric
<1>k. Fixture \in Nat /\ Search \in Nat /\ Arm \in Nat
  BY ConstantsHold DEF Constants
<1>1. CASE S.snapshot \/ S.pending # "none" \/ after = {}
  BY <1>1, SoundKept DEF EchoControlSnapshot
<1>2. CASE ~(S.snapshot \/ S.pending # "none" \/ after = {})
  <2>1. T = IF ~Judgeable(S, first) THEN S
            ELSE IF ~Clear(S, S.rx[first].host, end) THEN Fail(S, "rx_timeline_discontinuity")
            ELSE [S EXCEPT !.snapshot = TRUE]
    BY <1>2 DEF EchoControlSnapshot
  <2> HIDE DEF T
  <2>2. CASE T = S
    BY <2>2, SoundKept DEF T
  <2>3. CASE T = Fail(S, "rx_timeline_discontinuity")
    <3>1. Fails("rx_timeline_discontinuity")
      BY DEF Fails
    <3> QED BY <2>3, <3>1, FailSound DEF T
  <2>4. CASE /\ Judgeable(S, first) /\ Clear(S, S.rx[first].host, end)
             /\ T = [S EXCEPT !.snapshot = TRUE]
    <3>1. S.boundary # None /\ Armed(S) /\ S.answered + Arm < S.boundary /\ S.stop # None
      BY DEF Sound, Stimulated
    <3>2. first \in after /\ \A i \in after : first <= i
      <4>1. after \in SUBSET Nat
        BY <1>len
      <4>2. \E x \in after : \A y \in after : x <= y
        BY <1>2, <4>1, LeastNat
      <4> HIDE DEF after
      <4> QED BY <4>2 DEF Min
    <3>3. first \in 1..Len(S.rx) /\ S.rx[first].host >= S.boundary
      BY <1>len, <3>2
    <3>4. S.rx[first].host = S.answered + first
      BY <1>re, <3>3 DEF Recorded
    <3>5. first = S.boundary - S.answered
      <4> DEFINE k == S.boundary - S.answered
      <4>1. k \in 1..Len(S.rx) /\ k <= first
        BY <1>n, <1>len, <1>k, <3>1, <3>3, <3>4
      <4>2. S.rx[k].host = S.answered + k
        BY <1>re, <4>1 DEF Recorded
      <4>3. k \in after
        BY <1>n, <1>len, <4>1, <4>2
      <4>4. first <= k
        BY <3>2, <4>3
      <4> HIDE DEF first
      <4> QED BY <4>1, <4>4, <1>len, <3>3
    <3> HIDE DEF first
    <3>6. Until(S, first) \in 1..Len(S.rx)
      BY <1>len, <1>k, <3>3 DEF Until
    <3>7. end = S.answered + Until(S, first)
      BY <1>re, <3>6 DEF Recorded
    <3>8. Verdicted(S, Until(S, first))
      BY <1>n, <1>len, <2>4, <3>6, <3>7 DEF Judgeable, Verdicted
    <3>9. Clear(S, S.answered + first, S.answered + Until(S, first))
      BY <2>4, <3>4, <3>7
    <3>10. Arm <= first
      BY <1>n, <1>k, <3>1, <3>5
    <3>11. Real(S, H, S.boundary - S.answered)
      BY <1>2, <3>3, <3>5, <3>8, <3>9, <3>10, UntilIsReal
    <3>12. Worthy(S, H, w)
      BY <3>1, <3>11 DEF Worthy, Judges, Stimulates, Controls, Measures
    <3>13. Changes(S, T, {"snapshot"}) /\ T.snapshot \in BOOLEAN
      BY <2>4, <1>re DEF Recorded, Changes, Fields
    <3> QED BY <3>12, <3>13, SnapshotSound DEF T
  <2> QED BY <2>1, <2>2, <2>3, <2>4
<1> QED BY <1>1, <1>2

\* Without a stimulus the snapshot needs only the stop.
LEMMA NoStimulusSnapshotSound ==
  ASSUME NEW S, NEW H, NEW w, Sound(S, H, w), S.outcome = "none", S.mode = "no-stimulus",
         S.stop # None
  PROVE  Sound(NoStimulusSnapshot(S), H, w) /\ Kept(S, NoStimulusSnapshot(S))
<1> DEFINE T == NoStimulusSnapshot(S)
<1>re. Recorded(S)
  BY DEF Sound
<1>1. \/ T = S \/ T = Fail(S, "rx_timeline_discontinuity") \/ T = [S EXCEPT !.snapshot = TRUE]
  BY DEF NoStimulusSnapshot
<1> HIDE DEF T
<1>2. CASE T = S
  BY <1>2, SoundKept DEF T
<1>3. CASE T = Fail(S, "rx_timeline_discontinuity")
  <2>1. Fails("rx_timeline_discontinuity")
    BY DEF Fails
  <2> QED BY <1>3, <2>1, FailSound DEF T
<1>4. CASE T = [S EXCEPT !.snapshot = TRUE]
  <2>1. Worthy(S, H, w)
    BY DEF Worthy, Judges, Controls, Measures
  <2>2. Changes(S, T, {"snapshot"}) /\ T.snapshot \in BOOLEAN
    BY <1>4, <1>re DEF Recorded, Changes, Fields
  <2> QED BY <2>1, <2>2, SnapshotSound DEF T
<1> QED BY <1>1, <1>2, <1>3, <1>4

\* One whole analysis.
LEMMA AnalyzeSound ==
  ASSUME NEW S, NEW H, NEW w, Sound(S, H, w), Trusted(S, H), Timed(H), Fresh(S),
         S.outcome = "none", ~Snapped(S)
  PROVE  Sound(Analyze(S), H, w) /\ Kept(S, Analyze(S))
<1> DEFINE A == Scan(S)
           B == IF A.outcome # "none" \/ A.fixEnd = None THEN A
                ELSE IF A.mode = "echo-control" THEN EchoControlSnapshot(A)
                ELSE IF A.sep = None THEN Separating(A) ELSE A
           T == Analyze(S)
<1>1. Sound(A, H, w) /\ Untouched(S, A) /\ Caught(S, A, Len(S.rx))
  BY ScanSound DEF Scans
<1>2. T = IF B.outcome = "none" /\ B.cand # 0 THEN EchoSnapshot(B) ELSE B
  BY DEF Analyze
<1> HIDE DEF A, T
<1>3. Kept(S, A) /\ Trusted(A, H) /\ Fresh(A) /\ ~Snapped(A)
  BY <1>1, UntouchedKept, KeptTrusted DEF Untouched, Caught
<1>4. A.outcome = "none" => Consumed(A)
  <2> SUFFICES ASSUME A.outcome = "none", NEW k \in 1..Len(A.rx), Verdicted(A, k)
               PROVE  k <= A.scan
    BY DEF Consumed
  <2>1. Verdicted(S, k) /\ k \in 1..Len(S.rx)
    BY <1>1, UntouchedTrusted DEF Untouched
  <2>2. S.scan \in Nat /\ A.scan \in Nat /\ Len(S.rx) \in Nat
    BY <1>1 DEF Sound, Numeric, Recorded
  <2>3. S.scan <= A.scan
    BY <1>1 DEF Caught
  <2>4. CASE k <= S.scan
    BY <2>1, <2>2, <2>3, <2>4
  <2>5. CASE ~(k <= S.scan)
    <3>1. k \in (S.scan + 1)..Len(S.rx)
      BY <2>1, <2>2, <2>5
    <3> QED BY <1>1, <2>1, <3>1 DEF Caught
  <2> QED BY <2>4, <2>5
<1>5. Sound(B, H, w) /\ Kept(A, B) /\ (B = A \/ B.outcome # "none" \/ B.cand = 0)
  <2>1. CASE B = A
    BY <1>1, <2>1, SoundKept
  <2>2. CASE B # A
    <3>1. A.outcome = "none" /\ A.fixEnd # None
      BY <2>2
    <3>2. CASE A.mode = "echo-control"
      <4>1. B = EchoControlSnapshot(A)
        BY <3>1, <3>2
      <4> HIDE DEF B
      <4>2. Sound(B, H, w) /\ Kept(A, B)
        BY <1>1, <1>3, <3>1, <3>2, <4>1, EchoControlSnapshotSound
      <4>3. B.cand = 0
        <5>1. B.cand # 0 => B.sep # None
          BY <4>2 DEF Sound, Responds, Ready
        <5>2. B.sep # None => B.mode # "echo-control"
          BY <4>2 DEF Sound, Silent, Separated
        <5> QED BY <3>2, <4>2, <5>1, <5>2 DEF Kept
      <4> QED BY <4>2, <4>3
    <3>3. CASE A.mode # "echo-control"
      <4>1. B = Separating(A) /\ A.sep = None
        BY <2>2, <3>1, <3>3
      <4> HIDE DEF B
      <4>2. Sound(B, H, w) /\ Kept(A, B)
        BY <1>1, <1>3, <3>1, <3>3, <4>1, SeparatingSound
      <4>3. B.cand = A.cand
        BY <1>1, <4>1 DEF Separating, Sound, Recorded, Fields
      <4>4. A.cand = 0
        BY <1>1, <4>1 DEF Sound, Responds, Ready
      <4> QED BY <4>2, <4>3, <4>4
    <3> QED BY <3>2, <3>3
  <2> QED BY <2>1, <2>2
<1> HIDE DEF B
<1>6. Kept(S, B)
  BY <1>3, <1>5, KeptChains
<1>7. CASE B.outcome = "none" /\ B.cand # 0
  <2>1. B = A /\ T = EchoSnapshot(A)
    BY <1>2, <1>5, <1>7
  <2>2. Sound(T, H, w) /\ Kept(A, T)
    BY <1>1, <1>3, <1>4, <1>7, <2>1, EchoSnapshotSound
  <2> QED BY <1>3, <2>2, KeptChains DEF T
<1>8. CASE ~(B.outcome = "none" /\ B.cand # 0)
  BY <1>2, <1>5, <1>6, <1>8 DEF T
<1> QED BY <1>7, <1>8

\* The deadlines fail the session or leave it.
LEMMA DeadlinesSound ==
  ASSUME NEW S, NEW H, NEW w, Sound(S, H, w), NEW t
  PROVE  Sound(Deadlines(S, t), H, w) /\ Kept(S, Deadlines(S, t))
<1> DEFINE T == Deadlines(S, t)
<1>1. CASE T = S
  BY <1>1, SoundKept
<1>2. ASSUME NEW category, T = Fail(S, category), Fails(category)
      PROVE  Sound(T, H, w) /\ Kept(S, T)
  BY <1>2, FailSound
<1>3. CASE S.outcome = "none" /\ S.mode = "no-stimulus" /\ S.stop # None /\ T = NoStimulusSnapshot(S)
  BY <1>3, NoStimulusSnapshotSound
<1>4. \/ T = S
      \/ \E category : T = Fail(S, category) /\ Fails(category)
      \/ S.outcome = "none" /\ S.mode = "no-stimulus" /\ S.stop # None /\ T = NoStimulusSnapshot(S)
  <2>1. Fails(CapCategory(S))
    BY DEF CapCategory, Fails
  <2>2. /\ Fails("stimulus_send_failed") /\ Fails("answer_timeout") /\ Fails("stream_start_failed")
        /\ Fails("natural_stop_not_observed") /\ Fails("agent_audio_not_observed")
        /\ Fails("stimulus_boundary_ambiguous")
    BY DEF Fails
  <2>3. \/ T = S
        \/ T = Fail(S, CapCategory(S)) \/ T = Fail(S, "stimulus_send_failed")
        \/ T = Fail(S, "answer_timeout") \/ T = Fail(S, "stream_start_failed")
        \/ T = Fail(S, "natural_stop_not_observed") \/ T = Fail(S, "agent_audio_not_observed")
        \/ T = Fail(S, "stimulus_boundary_ambiguous")
        \/ S.outcome = "none" /\ S.mode = "no-stimulus" /\ S.stop # None /\ T = NoStimulusSnapshot(S)
    BY DEF Deadlines
  <2> HIDE DEF T
  <2> QED BY <2>1, <2>2, <2>3
<1> QED BY <1>1, <1>2, <1>3, <1>4

\* One tick: the stall check, the analysis and the deadlines.
LEMMA TickSound ==
  ASSUME NEW S, NEW H, NEW w, Sound(S, H, w), Timed(H), NEW t,
         S.outcome = "none" => Trusted(S, H) /\ ~Snapped(S) /\ (S.rx # <<>> => Fresh(S))
  PROVE  Sound(Tick(S, t), H, w) /\ Kept(S, Tick(S, t))
<1> DEFINE D == IF S.answered # None /\ S.rx # <<>> THEN Analyze(S) ELSE S
           T == Tick(S, t)
<1>1. \/ T = S \/ T = Fail(S, "rx_timeline_discontinuity")
      \/ S.outcome = "none" /\ T = Deadlines(D, t)
  BY DEF Tick
<1> HIDE DEF T
<1>2. CASE T = S
  BY <1>2, SoundKept DEF T
<1>3. CASE T = Fail(S, "rx_timeline_discontinuity")
  <2>1. Fails("rx_timeline_discontinuity")
    BY DEF Fails
  <2> QED BY <1>3, <2>1, FailSound DEF T
<1>4. CASE S.outcome = "none" /\ T = Deadlines(D, t)
  <2>1. Sound(D, H, w) /\ Kept(S, D)
    BY <1>4, AnalyzeSound, SoundKept
  <2> HIDE DEF D
  <2>2. Sound(T, H, w) /\ Kept(D, T)
    BY <1>4, <2>1, DeadlinesSound
  <2> QED BY <2>1, <2>2, KeptChains DEF T
<1> QED BY <1>1, <1>2, <1>3, <1>4

-----------------------------------------------------------------------------
(* The verdict and the polls *)

\* What a verdict or a poll changes, it changes soundly.
LEMMA ResultSound ==
  ASSUME NEW S, NEW H, NEW w, Sound(S, H, w),
         NEW T, Changes(S, T, {"outcome", "snapshot", "pending", "confirmed", "counters", "mark", "voids"}),
         Flagged(T), T.counters \in Int, T.mark \in Int,
         S.voids \subseteq T.voids, S.outcome = "none" \/ T.outcome = S.outcome,
         Snapped(T) \/ T.pending # "none" => Snapped(S) \/ S.pending # "none",
         Judged(T, H, w), Delivered(T, w)
  PROVE  Sound(T, H, w)
<1>re. Recorded(S)
  BY DEF Sound
<1>1. /\ T.mode = S.mode /\ T.answered = S.answered /\ T.rx = S.rx
      /\ T.anchor = S.anchor /\ T.stop = S.stop /\ T.scan = S.scan
      /\ T.runStart = S.runStart /\ T.run = S.run /\ T.holdStart = S.holdStart
      /\ T.dStart = S.dStart /\ T.dRun = S.dRun /\ T.cand = S.cand /\ T.sched = S.sched
      /\ T.next = S.next /\ T.boundary = S.boundary /\ T.fixEnd = S.fixEnd /\ T.sep = S.sep
      /\ T.base = S.base /\ DOMAIN T = Fields
  BY DEF Changes, Fields
<1>2. T.armed = S.armed
  BY DEF Changes, Fields
<1>3. Armed(T) <=> Armed(S)
  BY <1>2 DEF Armed
<1>4. Numeric(T)
  BY <1>1 DEF Sound, Numeric
<1>5. Recorded(T)
  BY <1>re, <1>1 DEF Recorded
<1>6. Anchored(T)
  BY <1>1, <1>3 DEF Sound, Anchored
<1>7. Silent(T, H)
  BY <1>1 DEF Sound, Silent, Held, Stopped, Separated
<1>8. Stimulated(T)
  BY <1>1, <1>3 DEF Sound, Stimulated
<1>9. Responds(T)
  <2>1. Ready(T) <=> Ready(S)
    BY <1>1 DEF Ready
  <2> QED BY <1>1, <2>1 DEF Sound, Responds
<1>10. Undisturbed(T)
  <2> SUFFICES ASSUME T.mode = "measurement", T.boundary # None,
                      T.outcome # "stimulus_overlap", NEW i \in 1..T.scan, Over(T, i)
               PROVE  Heeded(T, i)
    BY DEF Undisturbed
  <2>1. Heeded(S, i)
    BY <1>1 DEF Sound, Undisturbed, Over
  <2> QED BY <1>1, <2>1 DEF Heeded, InVoid
<1> QED BY <1>4, <1>5, <1>6, <1>7, <1>8, <1>9, <1>10 DEF Sound

\* What is judged of the same frames.
LEMMA RealFrame ==
  ASSUME NEW S, NEW H, NEW T, T.rx = S.rx, T.answered = S.answered, NEW from
  PROVE  Real(T, H, from) <=> Real(S, H, from)
BY DEF Real

\* A verdict of the correlation.
Spoken(verdict) == verdict # "none"

\* How a run that is completed may end.
Ends(D, T) ==
  \/ T.outcome = "control no-stimulus"
  \/ D.mode = "echo-control" /\ T.outcome = "control echo"
  \/ T.outcome = "post_stimulus_echo_detected"
  \/ ~Controls(D.mode) /\ Captured(T)

\* A verdict that completes a session changes its outcome only.
LEMMA CompleteIs ==
  ASSUME NEW D, DOMAIN D = Fields, D.outcome = "none", NEW verdict
  PROVE  /\ Changes(D, Complete(D, verdict), {"outcome"}) /\ Ends(D, Complete(D, verdict))
         /\ Complete(D, verdict).outcome # "none"
<1> DEFINE T == Complete(D, verdict)
<1>1. CASE D.mode = "no-stimulus"
  <2>1. T = [D EXCEPT !.outcome = "control no-stimulus"]
    BY <1>1 DEF Complete
  <2>2. T.outcome = "control no-stimulus" /\ Changes(D, T, {"outcome"})
    BY <2>1 DEF Changes, Fields
  <2> HIDE DEF T
  <2> QED BY <2>2 DEF Ends, T
<1>2. CASE D.mode = "echo-control"
  <2>1. T = [D EXCEPT !.outcome = "control echo"]
    BY <1>2 DEF Complete
  <2>2. T.outcome = "control echo" /\ Changes(D, T, {"outcome"})
    BY <2>1 DEF Changes, Fields
  <2> HIDE DEF T
  <2> QED BY <1>2, <2>2 DEF Ends, T
<1>3. CASE D.mode # "no-stimulus" /\ D.mode # "echo-control"
  <2>0. ~Controls(D.mode)
    BY <1>3 DEF Controls
  <2>1. T = IF verdict = "echo" THEN Fail(D, "post_stimulus_echo_detected")
            ELSE [D EXCEPT !.outcome = IF D.mode = "phase3" THEN "phase3 captured"
                                       ELSE "captured"]
    BY <1>3 DEF Complete
  <2>2. Changes(D, T, {"outcome"})
    BY <2>1 DEF Fail, Changes, Fields
  <2>3. T.outcome = "post_stimulus_echo_detected" \/ T.outcome = "phase3 captured"
        \/ T.outcome = "captured"
    BY <2>1 DEF Fail, Fields
  <2> HIDE DEF T
  <2>4. T.outcome = "post_stimulus_echo_detected" \/ Captured(T)
    BY <2>3 DEF Captured
  <2>5. T.outcome # "none"
    BY <2>3
  <2> QED BY <2>0, <2>2, <2>4, <2>5 DEF Ends, T
<1> QED BY <1>1, <1>2, <1>3

\* A verdict completes a snapshot whose stimulus was confirmed, or waits for it.
LEMMA ApplyVerdictSound ==
  ASSUME NEW S, NEW H, NEW w, Sound(S, H, w), NEW verdict, Spoken(verdict)
  PROVE  LET T == ApplyVerdict(S, verdict) IN
         /\ Sound(T, H, w) /\ Changes(S, T, {"outcome", "snapshot", "pending"})
         /\ T.outcome = "none" => ~Snapped(T) /\ S.outcome = "none"
                                  /\ (Snapped(S) => T.pending # "none")
                                  /\ (~Snapped(S) => T.pending = S.pending)
<1> DEFINE D == [S EXCEPT !.snapshot = FALSE]
           T == ApplyVerdict(S, verdict)
<1>re. Recorded(S)
  BY DEF Sound
<1>fl. Flagged(S)
  BY DEF Sound
<1>ju. Judged(S, H, w)
  BY DEF Sound
<1>de. Delivered(S, w)
  BY DEF Sound
<1>1. CASE S.outcome # "none" \/ ~Snapped(S)
  <2>1. T = S
    BY <1>1 DEF ApplyVerdict, Snapped
  <2>2. Changes(S, S, {"outcome", "snapshot", "pending"})
    BY <1>re DEF Recorded, Changes
  <2> QED BY <1>1, <2>1, <2>2
<1>2. CASE S.outcome = "none" /\ Snapped(S)
  <2>1. T = IF S.mode # "no-stimulus" /\ ~Confirmed(S) THEN [D EXCEPT !.pending = verdict]
            ELSE Complete(D, verdict)
    BY <1>2, <1>re DEF ApplyVerdict, Snapped, Confirmed, Recorded, Fields
  <2>a. Changes(S, D, {"snapshot"}) /\ D.snapshot = FALSE /\ D.outcome = "none" /\ D.mode = S.mode
    BY <1>2, <1>re DEF Recorded, Changes, Fields
  <2>2. /\ Changes(S, T, {"outcome", "snapshot", "pending"}) /\ T.snapshot = FALSE
        /\ \/ /\ S.mode # "no-stimulus" /\ ~Confirmed(S)
              /\ T.outcome = "none" /\ T.pending = verdict
           \/ /\ S.mode = "no-stimulus" \/ Confirmed(S)
              /\ T.outcome # "none" /\ T.pending = S.pending /\ Ends(S, T)
    <3>1. CASE S.mode # "no-stimulus" /\ ~Confirmed(S)
      <4>1. T = [D EXCEPT !.pending = verdict]
        BY <2>1, <3>1
      <4>2. T.snapshot = FALSE /\ T.outcome = "none" /\ T.pending = verdict
        BY <2>a, <4>1 DEF Changes, Fields
      <4>3. Changes(S, T, {"outcome", "snapshot", "pending"})
        BY <2>a, <4>1 DEF Changes, Fields
      <4> QED BY <3>1, <4>2, <4>3
    <3>2. CASE ~(S.mode # "no-stimulus" /\ ~Confirmed(S))
      <4>1. T = Complete(D, verdict)
        BY <2>1, <3>2
      <4> HIDE DEF D, T
      <4>2. Changes(D, T, {"outcome"}) /\ Ends(D, T) /\ T.outcome # "none"
        BY <2>a, <4>1, CompleteIs DEF Changes
      <4>3. T.snapshot = FALSE /\ T.pending = S.pending
        BY <2>a, <4>2 DEF Changes, Fields
      <4>4. Changes(S, T, {"outcome", "snapshot", "pending"})
        BY <2>a, <4>2 DEF Changes, Fields
      <4>5. Ends(S, T)
        BY <2>a, <4>2 DEF Ends
      <4> QED BY <3>2, <4>2, <4>3, <4>4, <4>5
    <3> QED BY <3>1, <3>2
  <2> HIDE DEF T, D
  <2>3. ~Snapped(T)
    BY <2>2 DEF Snapped
  <2>4. /\ T.mode = S.mode /\ T.rx = S.rx /\ T.answered = S.answered /\ T.stop = S.stop
        /\ T.sep = S.sep /\ T.cand = S.cand /\ T.boundary = S.boundary /\ T.fixEnd = S.fixEnd
        /\ T.counters = S.counters /\ T.mark = S.mark /\ T.voids = S.voids
    BY <2>2 DEF Changes, Fields
  <2>5. T.confirmed = S.confirmed /\ T.armed = S.armed
    BY <2>2 DEF Changes, Fields
  <2>6. (Confirmed(T) <=> Confirmed(S)) /\ (Armed(T) <=> Armed(S))
    BY <2>5 DEF Confirmed, Armed
  <2>7. S.stop # None /\ Judges(S.mode) /\ (~Controls(S.mode) => S.sep # None)
    BY <1>2 DEF Sound, Responds
  <2>8. Flagged(T)
    BY <1>fl, <2>2, <2>4, <2>5 DEF Flagged
  <2>9. \A from : Real(T, H, from) <=> Real(S, H, from)
    BY <2>4, RealFrame
  <2>10. Judged(T, H, w)
    <3>1. ASSUME Captured(T) PROVE Ready(T) /\ T.cand # 0 /\ Real(T, H, T.cand) /\ Confirmed(T)
      <4>1. ~Controls(S.mode) /\ Confirmed(S)
        <5>1. Ends(S, T) /\ (S.mode = "no-stimulus" \/ Confirmed(S))
          BY <2>2, <3>1 DEF Captured
        <5>2. ~Controls(S.mode)
          BY <3>1, <5>1 DEF Ends, Captured
        <5> QED BY <5>1, <5>2 DEF Controls
      <4>2. Measures(S.mode)
        BY <2>7, <4>1 DEF Judges, Controls, Stimulates, Measures
      <4>3. w
        BY <4>1, <1>de DEF Delivered
      <4>4. S.cand # 0 /\ Real(S, H, S.cand)
        BY <1>2, <1>ju, <4>2, <4>3 DEF Judged
      <4>5. Ready(T)
        BY <2>4, <2>7, <4>1 DEF Ready
      <4> QED BY <2>4, <2>6, <2>9, <4>1, <4>4, <4>5
    <3>2. T.outcome = "control echo" => T.mode = "echo-control"
      BY <2>2, <2>4 DEF Ends, Captured
    <3>3. ASSUME w, Measures(T.mode) PROVE T.pending = "none"
      <4>1. Confirmed(S) /\ S.pending = "none"
        BY <1>2, <1>ju, <2>4, <3>3 DEF Judged
      <4> QED BY <2>2, <4>1
    <3>4. ASSUME T.mode = "echo-control"
          PROVE  T.boundary # None /\ Real(T, H, T.boundary - T.answered)
      <4>1. Controlled(S)
        BY <1>2 DEF Controlled
      <4> QED BY <1>ju, <2>4, <2>9, <3>4, <4>1 DEF Judged
    <3> QED BY <2>3, <3>1, <3>2, <3>3, <3>4 DEF Judged
  <2>11. Delivered(T, w)
    BY <1>2, <1>de, <2>2, <2>4, <2>6 DEF Delivered
  <2>12. Sound(T, H, w)
    <3>1. Changes(S, T, {"outcome", "snapshot", "pending", "confirmed", "counters", "mark", "voids"})
      BY <2>2 DEF Changes
    <3>2. T.counters \in Int /\ T.mark \in Int
      BY <2>4 DEF Sound, Numeric
    <3> QED BY <1>2, <2>4, <2>8, <2>10, <2>11, <3>1, <3>2, ResultSound
  <2>13. T.outcome = "none" => T.pending # "none"
    BY <2>2 DEF Spoken
  <2> QED BY <1>2, <2>2, <2>3, <2>12, <2>13 DEF T
<1> QED BY <1>1, <1>2

\* The packets show that the stimulus was transmitted, and it is not confirmed yet.
Due(M, packets, t) ==
  /\ M.fixEnd # None /\ ~(t < M.fixEnd) /\ ~Confirmed(M)
  /\ M.base # None /\ ~(packets - M.base < Fixture)

\* What a poll of the packets comes to.
Refused(M, T) == /\ Changes(M, T, {"outcome"}) /\ T.outcome = "stimulus_send_failed"
                 /\ M.counters # None
Counting(M, T, packets) == Changes(M, T, {"counters"}) /\ T.counters = packets
Confirming(M, T, packets) ==
  /\ Changes(M, T, {"counters", "confirmed", "pending", "outcome"})
  /\ T.counters = packets /\ T.confirmed = TRUE /\ T.pending = "none"
  /\ IF M.pending = "none" THEN T.outcome = "none" ELSE T.outcome # "none" /\ Ends(M, T)

\* What observing the counters does: refuse, count, or confirm and complete.
LEMMA ObserveCountersIs ==
  ASSUME NEW M, DOMAIN M = Fields, M.outcome = "none", NEW packets, NEW t
  PROVE  LET T == ObserveCounters(M, packets, t) IN
         \/ Refused(M, T)
         \/ ~Due(M, packets, t) /\ Counting(M, T, packets)
         \/ Due(M, packets, t) /\ Confirming(M, T, packets)
<1> DEFINE C == [M EXCEPT !.counters = packets]
           D == [C EXCEPT !.confirmed = TRUE, !.pending = "none"]
           T == ObserveCounters(M, packets, t)
<1>1. CASE M.counters # None /\ packets < M.counters
  <2>1. T = Fail(M, "stimulus_send_failed")
    BY <1>1 DEF ObserveCounters
  <2>2. Refused(M, T)
    BY <1>1, <2>1 DEF Refused, Fail, Changes, Fields
  <2> QED BY <2>2
<1>2. CASE ~(M.counters # None /\ packets < M.counters)
  <2>1. T = IF ~Due(M, packets, t) THEN C ELSE IF M.pending = "none" THEN D ELSE Complete(D, M.pending)
    BY <1>2 DEF ObserveCounters, Due, Confirmed
  <2>2. CASE ~Due(M, packets, t)
    <3>1. T = C
      BY <2>1, <2>2
    <3>2. Counting(M, T, packets)
      BY <3>1 DEF Counting, Changes, Fields
    <3> QED BY <2>2, <3>2
  <2>3. CASE Due(M, packets, t)
    <3>1. /\ Changes(M, D, {"counters", "confirmed", "pending"}) /\ D.outcome = "none"
          /\ D.counters = packets /\ D.confirmed = TRUE /\ D.pending = "none" /\ D.mode = M.mode
      BY DEF Changes, Fields
    <3>2. T = IF M.pending = "none" THEN D ELSE Complete(D, M.pending)
      BY <2>1, <2>3
    <3> HIDE DEF D, T
    <3>3. CASE M.pending = "none"
      <4>1. Confirming(M, T, packets)
        BY <3>1, <3>2, <3>3 DEF Confirming, Changes
      <4> QED BY <2>3, <4>1 DEF T
    <3>4. CASE M.pending # "none"
      <4>1. Changes(D, T, {"outcome"}) /\ Ends(D, T) /\ T.outcome # "none"
        BY <3>1, <3>2, <3>4, CompleteIs DEF Changes
      <4>2. T.counters = packets /\ T.confirmed = TRUE /\ T.pending = "none"
        BY <3>1, <4>1 DEF Changes, Fields
      <4>3. Changes(M, T, {"counters", "confirmed", "pending", "outcome"})
        BY <3>1, <4>1 DEF Changes
      <4>4. Ends(M, T)
        BY <3>1, <4>1 DEF Ends
      <4>5. Confirming(M, T, packets)
        BY <3>4, <4>1, <4>2, <4>3, <4>4 DEF Confirming
      <4> QED BY <2>3, <4>5 DEF T
    <3> QED BY <3>3, <3>4
  <2> QED BY <2>2, <2>3
<1> QED BY <1>1, <1>2

\* The session once a loss is reported and the watermark has moved.
Marked(S, lost, from, to, m) ==
  [(IF lost THEN ReportLoss(S, from, to) ELSE S) EXCEPT !.mark = m]

\* What a poll does before it observes the counters.
LEMMA MarkedIs ==
  ASSUME NEW S, DOMAIN S = Fields, NEW lost, NEW from, NEW to, NEW m
  PROVE  LET M == Marked(S, lost, from, to, m) IN
         /\ Changes(S, M, {"outcome", "voids", "mark"}) /\ M.mark = m
         /\ M.voids = S.voids \/ M.voids = S.voids \cup {<<from, to>>}
         /\ lost /\ M.outcome = "none" => M.voids = S.voids \cup {<<from, to>>}
         /\ \/ M.outcome = S.outcome
            \/ S.outcome = "none" /\ M.outcome = "rx_timeline_discontinuity"
<1> DEFINE L == IF lost THEN ReportLoss(S, from, to) ELSE S
           N == [S EXCEPT !.voids = @ \cup {<<from, to>>}]
           M == Marked(S, lost, from, to, m)
<1>1. CASE ~lost \/ S.outcome # "none"
  <2>1. L = S
    BY <1>1 DEF ReportLoss
  <2>2. Changes(S, M, {"outcome", "voids", "mark"}) /\ M.mark = m
        /\ M.voids = S.voids /\ M.outcome = S.outcome
    BY <2>1 DEF Marked, Changes, Fields
  <2> QED BY <1>1, <2>2
<1>2. CASE lost /\ S.outcome = "none"
  <2>1. L = N \/ L = Fail(N, "rx_timeline_discontinuity")
    BY <1>2 DEF ReportLoss
  <2>2. Changes(S, N, {"voids"}) /\ N.voids = S.voids \cup {<<from, to>>} /\ N.outcome = "none"
    BY <1>2 DEF Changes, Fields
  <2> HIDE DEF N
  <2>3. /\ Changes(S, L, {"outcome", "voids"}) /\ L.voids = S.voids \cup {<<from, to>>}
        /\ L.outcome = "none" \/ L.outcome = "rx_timeline_discontinuity"
    <3>1. CASE L = N
      BY <2>2, <3>1 DEF Changes
    <3>2. CASE L = Fail(N, "rx_timeline_discontinuity")
      BY <2>2, <3>2 DEF Fail, Changes, Fields
    <3> QED BY <2>1, <3>1, <3>2
  <2>4. M = [L EXCEPT !.mark = m]
    BY DEF Marked
  <2> HIDE DEF L, M
  <2>5. M.mark = m /\ M.voids = L.voids /\ M.outcome = L.outcome
    BY <2>3, <2>4 DEF Changes, Fields
  <2>6. Changes(S, M, {"outcome", "voids", "mark"})
    BY <2>3, <2>4 DEF Changes, Fields
  <2> QED BY <1>2, <2>3, <2>5, <2>6 DEF M
<1> QED BY <1>1, <1>2

\* The packets sent, as the session counts them.
Sends(S, w, packets) ==
  /\ ~w => packets = 0 /\ (S.base # None => S.base = 0)
  /\ S.next > 0 => S.base # None /\ (w => S.base + S.next <= packets)

\* What a poll changes.
Polled(S, T, lost, from, to, m, packets) ==
  /\ Changes(S, T, {"outcome", "pending", "confirmed", "counters", "mark", "voids"})
  /\ T.mark = m /\ (T.counters = S.counters \/ T.counters = packets)
  /\ S.voids \subseteq T.voids
  /\ T.outcome = "none" => /\ S.outcome = "none" /\ T.pending = S.pending
                           /\ lost => <<from, to>> \in T.voids

\* A poll: the voids grow, the watermark moves, a waiting verdict may complete.
LEMMA PollSound ==
  ASSUME NEW S, NEW H, NEW w, Sound(S, H, w), S.outcome = "none" => ~Snapped(S),
         NEW lost, NEW from \in Int, NEW to \in Int, NEW m \in Int, NEW t \in Int, m <= t,
         NEW packets \in Nat, Sends(S, w, packets)
  PROVE  LET T == ObserveCounters(Marked(S, lost, from, to, m), packets, t) IN
         Sound(T, H, w) /\ Polled(S, T, lost, from, to, m, packets)
<1> DEFINE M == Marked(S, lost, from, to, m)
           T == ObserveCounters(M, packets, t)
<1>se. /\ ~w => packets = 0 /\ (S.base # None => S.base = 0)
       /\ S.next > 0 => S.base # None /\ (w => S.base + S.next <= packets)
  BY DEF Sends
<1>re. Recorded(S)
  BY DEF Sound
<1>fl. Flagged(S)
  BY DEF Sound
<1>ju. Judged(S, H, w)
  BY DEF Sound
<1>de. Delivered(S, w)
  BY DEF Sound
<1>st. Stimulated(S)
  BY DEF Sound
<1>n. S.fixEnd \in Int /\ S.base \in Int /\ S.next \in Nat /\ S.counters \in Int
  BY DEF Sound, Numeric
<1>k. Fixture \in Nat \ {0}
  BY ConstantsHold DEF Constants
<1>1. /\ Changes(S, M, {"outcome", "voids", "mark"}) /\ M.mark = m
      /\ M.voids = S.voids \/ M.voids = S.voids \cup {<<from, to>>}
      /\ lost /\ M.outcome = "none" => M.voids = S.voids \cup {<<from, to>>}
      /\ \/ M.outcome = S.outcome
         \/ S.outcome = "none" /\ M.outcome = "rx_timeline_discontinuity"
  BY <1>re, MarkedIs DEF Recorded
<1>2. \/ M.outcome # "none" /\ T = M
      \/ M.outcome = "none" /\ Refused(M, T)
      \/ M.outcome = "none" /\ ~Due(M, packets, t) /\ Counting(M, T, packets)
      \/ M.outcome = "none" /\ Due(M, packets, t) /\ Confirming(M, T, packets)
  <2>1. CASE M.outcome # "none"
    BY <2>1 DEF ObserveCounters
  <2>2. CASE M.outcome = "none"
    <3>1. DOMAIN M = Fields
      BY <1>1 DEF Changes
    <3> HIDE DEF M, T
    <3> QED BY <2>2, <3>1, ObserveCountersIs DEF T
  <2> QED BY <2>1, <2>2
<1> DEFINE Quiet == \/ M.outcome # "none" /\ T = M
                    \/ M.outcome = "none" /\ Refused(M, T)
                    \/ M.outcome = "none" /\ ~Due(M, packets, t) /\ Counting(M, T, packets)
<1> HIDE DEF M, T
<1>3. Changes(M, T, {"outcome", "pending", "confirmed", "counters"})
  BY <1>1, <1>2 DEF Refused, Counting, Confirming, Changes
<1>4. Changes(S, T, {"outcome", "pending", "confirmed", "counters", "mark", "voids"})
  BY <1>1, <1>3 DEF Changes
<1>5. T.mark = m /\ T.voids = M.voids
  BY <1>1, <1>3 DEF Changes, Fields
<1>6. /\ T.mode = S.mode /\ T.rx = S.rx /\ T.answered = S.answered /\ T.stop = S.stop
      /\ T.sep = S.sep /\ T.cand = S.cand /\ T.boundary = S.boundary /\ T.fixEnd = S.fixEnd
      /\ T.next = S.next /\ T.base = S.base
  BY <1>4 DEF Changes, Fields
<1>7. T.armed = S.armed /\ T.snapshot = S.snapshot
  BY <1>4 DEF Changes, Fields
<1>8. (Armed(T) <=> Armed(S)) /\ (Snapped(T) <=> Snapped(S))
  BY <1>7 DEF Armed, Snapped
<1>9. /\ M.pending = S.pending /\ M.counters = S.counters /\ M.base = S.base
      /\ M.fixEnd = S.fixEnd /\ M.mode = S.mode
  BY <1>1 DEF Changes, Fields
<1>10. M.confirmed = S.confirmed /\ (Confirmed(M) <=> Confirmed(S))
  <2>1. M.confirmed = S.confirmed
    BY <1>1 DEF Changes, Fields
  <2> QED BY <2>1 DEF Confirmed
<1>11. \A from0 : Real(T, H, from0) <=> Real(S, H, from0)
  BY <1>6, RealFrame
<1>v. T.voids \in SUBSET (Int \X Int)
  <2>1. S.voids \in SUBSET (Int \X Int)
    BY <1>fl DEF Flagged
  <2>2. S.voids \cup {<<from, to>>} \in SUBSET (Int \X Int)
    BY <2>1
  <2> QED BY <1>1, <1>5, <2>1, <2>2
\* The poll confirms nothing: the outcome, if it is one, is a failure.
<1>12. CASE Quiet
  <2>1. T.pending = S.pending
    <3>1. T.pending = M.pending
      BY <1>12 DEF Refused, Counting, Changes, Fields
    <3> QED BY <3>1, <1>9
  <2>2. T.confirmed = S.confirmed
    <3>1. T.confirmed = M.confirmed
      BY <1>12 DEF Refused, Counting, Changes, Fields
    <3> QED BY <3>1, <1>10
  <2>3. Confirmed(T) <=> Confirmed(S)
    BY <2>2 DEF Confirmed
  <2>4. T.outcome = S.outcome \/ (S.outcome = "none" /\ Neutral(T) /\ T.outcome # "none")
    <3>1. T.outcome = M.outcome \/ (M.outcome = "none" /\ T.outcome = "stimulus_send_failed")
      BY <1>12 DEF Refused, Counting, Changes, Fields
    <3>2. \/ T.outcome = S.outcome
          \/ S.outcome = "none" /\ T.outcome = "stimulus_send_failed"
          \/ S.outcome = "none" /\ T.outcome = "rx_timeline_discontinuity"
      BY <1>1, <3>1
    <3> QED BY <3>2 DEF Neutral, Captured
  <2>5. /\ T.counters = packets \/ (T.counters = S.counters /\ T.outcome # "none")
        /\ T.counters \in Int
    <3>1. CASE T.outcome = "none"
      <4>1. Counting(M, T, packets)
        BY <1>12, <3>1 DEF Refused
      <4> QED BY <4>1 DEF Counting
    <3>2. CASE T.outcome # "none"
      <4>1. T.counters = packets \/ T.counters = M.counters
        BY <1>12 DEF Refused, Counting, Changes, Fields
      <4> QED BY <3>2, <4>1, <1>9, <1>n
    <3> QED BY <3>1, <3>2
  <2>6. Judged(T, H, w)
    <3>1. (Captured(T) => Captured(S)) /\ (T.outcome = "control echo" => S.outcome = "control echo")
      BY <2>4 DEF Neutral, Captured
    <3>2. Ready(T) <=> Ready(S)
      BY <1>6 DEF Ready
    <3>3. Controlled(T) => Controlled(S)
      BY <1>8, <2>1, <3>1 DEF Controlled
    <3>4. Captured(T) => Ready(T) /\ T.cand # 0 /\ Real(T, H, T.cand) /\ Confirmed(T)
      BY <1>ju, <1>6, <1>11, <2>3, <3>1, <3>2 DEF Judged
    <3>5. ASSUME w, Measures(T.mode)
          PROVE  /\ T.pending = "none"
                 /\ Snapped(T) => T.cand # 0 /\ Real(T, H, T.cand) /\ Confirmed(T)
      BY <1>ju, <1>6, <1>8, <1>11, <2>1, <2>3, <3>5 DEF Judged
    <3>6. ASSUME T.mode = "echo-control", Controlled(T)
          PROVE  T.boundary # None /\ Real(T, H, T.boundary - T.answered)
      BY <1>ju, <1>6, <1>11, <3>3, <3>6 DEF Judged
    <3>7. T.outcome = "control echo" => T.mode = "echo-control"
      BY <1>ju, <1>6, <3>1 DEF Judged
    <3> QED BY <3>4, <3>5, <3>6, <3>7 DEF Judged
  <2>7. Delivered(T, w)
    <3>1. ~w => ~Confirmed(T)
      BY <1>de, <2>3 DEF Delivered
    <3>2. T.counters = None => ~Armed(T)
      <4>1. packets # None
        BY DEF None
      <4> QED BY <1>de, <1>8, <2>5, <4>1 DEF Delivered
    <3>3. T.outcome = "none" => T.counters # None
      BY <2>5 DEF None
    <3>4. ASSUME T.outcome = "none", w, T.fixEnd # None, T.fixEnd <= T.mark PROVE Confirmed(T)
      <4>1. Counting(M, T, packets) /\ ~Due(M, packets, t)
        BY <1>12, <3>4 DEF Refused
      <4>2. S.next = Fixture /\ S.boundary # None
        BY <1>st, <1>6, <3>4 DEF Stimulated
      <4>3. S.base # None /\ S.base + Fixture <= packets
        BY <1>se, <1>k, <3>4, <4>2
      <4>4. ~(t < S.fixEnd)
        BY <1>n, <1>5, <1>6, <3>4
      <4>5. ~(packets - S.base < Fixture)
        BY <1>n, <1>k, <4>3
      <4>6. Confirmed(S)
        BY <1>6, <1>9, <1>10, <3>4, <4>1, <4>3, <4>4, <4>5 DEF Due
      <4> QED BY <2>3, <4>6
    <3>5. T.outcome = "none" /\ T.pending # "none" => ~Confirmed(T)
      BY <1>de, <2>1, <2>3, <2>4 DEF Delivered
    <3> QED BY <3>1, <3>2, <3>3, <3>4, <3>5 DEF Delivered
  <2>8. Flagged(T)
    BY <1>fl, <1>v, <1>7, <2>2 DEF Flagged
  <2>9. Sound(T, H, w)
    <3>1. Changes(S, T, {"outcome", "snapshot", "pending", "confirmed", "counters", "mark", "voids"})
      BY <1>4 DEF Changes
    <3>2. S.voids \subseteq T.voids
      BY <1>1, <1>5
    <3>3. S.outcome = "none" \/ T.outcome = S.outcome
      BY <2>4
    <3>4. Snapped(T) \/ T.pending # "none" => Snapped(S) \/ S.pending # "none"
      BY <1>8, <2>1
    <3>5. T.counters \in Int /\ T.mark \in Int
      BY <1>5, <2>5
    <3> QED BY <2>6, <2>7, <2>8, <3>1, <3>2, <3>3, <3>4, <3>5, ResultSound
  <2>10. T.outcome = "none" => M.outcome = "none" /\ S.outcome = "none"
    BY <1>1, <1>12 DEF Counting, Changes, Fields
  <2> QED BY <1>1, <1>4, <1>5, <2>1, <2>5, <2>9, <2>10 DEF Polled, T, M
<1>13. CASE M.outcome = "none" /\ Due(M, packets, t) /\ Confirming(M, T, packets)
  <2>1. S.outcome = "none" /\ ~Snapped(S) /\ ~Snapped(T)
    BY <1>1, <1>8, <1>13
  <2>2. T.counters = packets /\ T.confirmed = TRUE /\ T.pending = "none"
    BY <1>13 DEF Confirming
  <2>3. \/ S.pending = "none" /\ T.outcome = "none"
        \/ S.pending # "none" /\ T.outcome # "none" /\ Ends(S, T)
    <3>1. Ends(M, T) => Ends(S, T)
      BY <1>9 DEF Ends
    <3> QED BY <1>9, <1>13, <3>1 DEF Confirming
  <2>4. w
    <3> SUFFICES ASSUME ~w PROVE FALSE
      OBVIOUS
    <3>1. S.base # None /\ ~(packets - S.base < Fixture)
      BY <1>9, <1>13 DEF Due
    <3> QED BY <1>se, <1>k, <3>1
  <2>5. Confirmed(T)
    BY <2>2 DEF Confirmed
  <2>6. Judged(T, H, w)
    <3>1. ~Captured(T)
      <4> SUFFICES ASSUME Captured(T) PROVE FALSE
        OBVIOUS
      <4>1. S.pending # "none" /\ ~Controls(S.mode)
        BY <2>3 DEF Captured, Ends
      <4>2. Measures(S.mode)
        BY <4>1 DEF Sound, Responds, Judges, Controls, Stimulates, Measures
      <4> QED BY <1>ju, <2>4, <4>1, <4>2 DEF Judged
    <3>2. T.outcome = "control echo" => T.mode = "echo-control" /\ Controlled(S)
      BY <1>6, <2>3 DEF Ends, Captured, Controlled
    <3>3. ASSUME Controlled(T), T.mode = "echo-control"
          PROVE  T.boundary # None /\ Real(T, H, T.boundary - T.answered)
      <4>1. Controlled(S)
        BY <2>1, <2>2, <3>2, <3>3 DEF Controlled
      <4> QED BY <1>ju, <1>6, <1>11, <3>3, <4>1 DEF Judged
    <3> QED BY <2>1, <2>2, <3>1, <3>2, <3>3 DEF Judged
  <2>7. Delivered(T, w)
    BY <2>2, <2>4, <2>5 DEF Delivered, None
  <2>8. Flagged(T)
    BY <1>fl, <1>v, <1>7, <2>2 DEF Flagged
  <2>9. Sound(T, H, w)
    <3>1. Changes(S, T, {"outcome", "snapshot", "pending", "confirmed", "counters", "mark", "voids"})
      BY <1>4 DEF Changes
    <3>2. S.voids \subseteq T.voids
      BY <1>1, <1>5
    <3>3. T.counters \in Int /\ T.mark \in Int
      BY <1>5, <2>2
    <3> QED BY <2>1, <2>2, <2>6, <2>7, <2>8, <3>1, <3>2, <3>3, ResultSound
  <2> QED BY <1>1, <1>4, <1>5, <1>13, <2>1, <2>2, <2>3, <2>9 DEF Polled, T, M
<1> QED BY <1>2, <1>12, <1>13

-----------------------------------------------------------------------------
(* The media clock *)

\* What is concealed later than the frames received takes nothing back.
LEMMA GrowthSound ==
  ASSUME NEW S, NEW H, NEW w, Sound(S, H, w), NEW x \in Int, S.answered + Len(S.rx) < x
  PROVE  Sound(S, H \cup {x}, w)
<1> DEFINE G == H \cup {x}
<1>n. S.answered \in Int /\ Len(S.rx) \in Nat /\ S.scan \in Nat /\ S.stop \in Int /\ S.sep \in Int
      /\ S.scan <= Len(S.rx)
  BY DEF Sound, Numeric, Recorded, Anchored
<1>k. Hold \in Nat \ {0} /\ Sep \in Nat \ {0} /\ Fixture \in Nat /\ Search \in Nat
  BY ConstantsHold DEF Constants
<1>1. ASSUME NEW a, NEW b \in Int, b <= S.answered + Len(S.rx), ~Conceals(H, a, b)
      PROVE  ~Conceals(G, a, b)
  <2>1. ~(x <= b)
    BY <1>n, <1>1
  <2> QED BY <1>1, <2>1 DEF Conceals
<1> HIDE DEF G
<1>2. Stopped(S, G)
  <2> SUFFICES ASSUME S.stop # None PROVE Stopped(S, G)
    BY DEF Stopped
  <2>1. /\ S.anchor < S.stop /\ S.stop + Hold - 1 <= S.answered + S.scan
        /\ ~Conceals(H, S.stop, S.stop + Hold - 1)
    BY DEF Sound, Silent, Stopped
  <2>2. S.stop + Hold - 1 \in Int /\ S.stop + Hold - 1 <= S.answered + Len(S.rx)
    <3>1. Hold \in Nat /\ S.stop \in Int /\ S.answered \in Int /\ Len(S.rx) \in Nat
          /\ S.scan \in Nat /\ S.scan <= Len(S.rx)
      BY <1>n, <1>k
    <3> QED BY <2>1, <3>1
  <2>3. ~Conceals(G, S.stop, S.stop + Hold - 1)
    BY <1>1, <2>1, <2>2
  <2> QED BY <2>1, <2>3 DEF Stopped
<1>3. Separated(S, G)
  <2> SUFFICES ASSUME S.sep # None PROVE Separated(S, G)
    BY DEF Separated
  <2>1. Separated(S, H)
    BY DEF Sound, Silent
  <2>2. ~Conceals(G, S.sep - Sep, S.sep)
    BY <1>1, <1>n, <2>1 DEF Separated
  <2> QED BY <2>1, <2>2 DEF Separated
<1>4. ASSUME NEW from \in Int, Real(S, H, from) PROVE Real(S, G, from)
  <2>1. from + Fixture + Search <= Len(S.rx)
        /\ ~Conceals(H, S.answered + from, S.answered + from + Fixture + Search)
    BY <1>4 DEF Real
  <2>2. /\ S.answered + from + Fixture + Search \in Int
        /\ S.answered + from + Fixture + Search <= S.answered + Len(S.rx)
    BY <1>n, <1>k, <2>1
  <2>3. ~Conceals(G, S.answered + from, S.answered + from + Fixture + Search)
    BY <1>1, <2>1, <2>2
  <2> QED BY <2>1, <2>3 DEF Real
<1>5. Judged(S, G, w)
  <2>1. Judged(S, H, w)
    BY DEF Sound
  <2>2. S.cand \in Int /\ S.boundary - S.answered \in Int
    <3>1. S.cand \in Nat /\ S.boundary \in Int /\ S.answered \in Int
      BY DEF Sound, Numeric
    <3> QED BY <3>1
  <2>3. Real(S, H, S.cand) => Real(S, G, S.cand)
    BY <1>4, <2>2
  <2>4. Real(S, H, S.boundary - S.answered) => Real(S, G, S.boundary - S.answered)
    BY <1>4, <2>2
  <2> QED BY <2>1, <2>3, <2>4 DEF Judged
<1>6. Silent(S, G)
  BY <1>2, <1>3 DEF Sound, Silent
<1> QED BY <1>5, <1>6 DEF Sound, G

\* A session that is sound for what is concealed is sound for a part of it.
LEMMA FewerSound ==
  ASSUME NEW S, NEW H, NEW w, Sound(S, H, w), NEW K, K \subseteq H
  PROVE  Sound(S, K, w)
<1>1. \A a, b : ~Conceals(H, a, b) => ~Conceals(K, a, b)
  BY DEF Conceals
<1>2. Stopped(S, K) /\ Separated(S, K)
  BY <1>1 DEF Sound, Silent, Stopped, Separated
<1>3. \A from : Real(S, H, from) => Real(S, K, from)
  BY <1>1 DEF Real
<1>4. Judged(S, K, w)
  <2>1. Judged(S, H, w)
    BY DEF Sound
  <2>2. Real(S, H, S.cand) => Real(S, K, S.cand)
    BY <1>3
  <2>3. Real(S, H, S.boundary - S.answered) => Real(S, K, S.boundary - S.answered)
    BY <1>3
  <2> QED BY <2>1, <2>2, <2>3 DEF Judged
<1> QED BY <1>2, <1>4 DEF Sound, Silent

\* The level of a frame.
Leveled(level) == level \in Levels

\* A frame that is received extends the record by one.
LEMMA ReceiveRxSound ==
  ASSUME NEW S, NEW H, NEW w, Sound(S, H, w), S.outcome = "none", S.answered # None,
         S.answered >= 0,
         NEW level, Leveled(level), NEW t, t = S.answered + Len(S.rx) + 1
  PROVE  LET R == ReceiveRx(S, level, t) IN
         /\ Sound(R, H, w) /\ Changes(S, R, {"rx"}) /\ Len(R.rx) = Len(S.rx) + 1
<1> DEFINE f == [host |-> t, level |-> level]
           rx == Append(S.rx, f)
           R == ReceiveRx(S, level, t)
<1>re. Recorded(S)
  BY DEF Sound
<1>len. S.rx \in Seq(Heard) /\ Len(S.rx) \in Nat
  BY <1>re DEF Recorded
<1>n. S.answered \in Int /\ S.scan \in Nat /\ S.scan <= Len(S.rx) /\ S.sep \in Int
      /\ S.boundary \in Int /\ S.cand \in Nat
  BY DEF Sound, Numeric, Anchored
<1>1. R = [S EXCEPT !.rx = rx]
  BY DEF ReceiveRx
<1>2. f \in Heard /\ f.host = t
  BY <1>n, <1>len DEF Heard, Leveled, Levels
<1> HIDE DEF f
<1>3. rx \in Seq(Heard) /\ Len(rx) = Len(S.rx) + 1 /\ rx[Len(S.rx) + 1] = f
      /\ \A i \in 1..Len(S.rx) : rx[i] = S.rx[i]
  BY <1>len, <1>2
<1> HIDE DEF rx
<1>4. Changes(S, R, {"rx"}) /\ R.rx = rx /\ DOMAIN R = Fields
  BY <1>re, <1>1 DEF Recorded, Changes, Fields
<1> HIDE DEF R
<1>5. /\ R.mode = S.mode /\ R.outcome = S.outcome /\ R.answered = S.answered
      /\ R.anchor = S.anchor /\ R.stop = S.stop /\ R.scan = S.scan
      /\ R.runStart = S.runStart /\ R.run = S.run /\ R.holdStart = S.holdStart
      /\ R.dStart = S.dStart /\ R.dRun = S.dRun /\ R.cand = S.cand /\ R.sched = S.sched
      /\ R.next = S.next /\ R.boundary = S.boundary /\ R.fixEnd = S.fixEnd /\ R.sep = S.sep
      /\ R.voids = S.voids /\ R.mark = S.mark /\ R.counters = S.counters /\ R.base = S.base
      /\ R.pending = S.pending
  BY <1>4 DEF Changes, Fields
<1>6. R.armed = S.armed /\ R.confirmed = S.confirmed /\ R.snapshot = S.snapshot
  BY <1>4 DEF Changes, Fields
<1>7. (Armed(R) <=> Armed(S)) /\ (Confirmed(R) <=> Confirmed(S)) /\ (Snapped(R) <=> Snapped(S))
  BY <1>6 DEF Armed, Confirmed, Snapped
<1>8. Len(R.rx) = Len(S.rx) + 1
  BY <1>3, <1>4
<1>9. Numeric(R)
  BY <1>5 DEF Sound, Numeric
<1>10. Flagged(R)
  BY <1>5, <1>6 DEF Sound, Flagged
<1>11. Recorded(R)
  <2>1. ASSUME NEW i \in 1..Len(R.rx) PROVE R.rx[i].host = R.answered + i
    <3>1. CASE i = Len(S.rx) + 1
      <4>1. t = S.answered + i
        BY <1>n, <1>len, <3>1
      <4> QED BY <1>2, <1>3, <1>4, <1>5, <3>1, <4>1
    <3>2. CASE i # Len(S.rx) + 1
      <4>1. i \in 1..Len(S.rx)
        BY <1>len, <1>8, <3>2
      <4> QED BY <1>3, <1>4, <1>5, <1>re, <4>1 DEF Recorded
    <3> QED BY <3>1, <3>2
  <2> QED BY <1>len, <1>3, <1>4, <1>5, <2>1 DEF Recorded
<1>12. Anchored(R)
  <2>1. R.scan <= Len(R.rx)
    BY <1>n, <1>len, <1>5, <1>8
  <2> QED BY <1>5, <1>7, <2>1 DEF Sound, Anchored
<1>13. Silent(R, H)
  <2>1. Held(R) /\ Stopped(R, H)
    BY <1>5 DEF Sound, Silent, Held, Stopped
  <2>2. S.sep <= S.answered + Len(S.rx) => R.sep <= R.answered + Len(R.rx)
    BY <1>n, <1>len, <1>5, <1>8
  <2>3. Separated(R, H)
    BY <1>5, <2>2 DEF Sound, Silent, Separated
  <2> QED BY <2>1, <2>3 DEF Silent
<1>14. Stimulated(R)
  <2>1. S.boundary <= S.answered + Len(S.rx) => R.boundary <= R.answered + Len(R.rx)
    BY <1>n, <1>len, <1>5, <1>8
  <2> QED BY <1>5, <1>7, <2>1 DEF Sound, Stimulated
<1>15. Responds(R)
  BY <1>5, <1>7 DEF Sound, Responds, Ready
<1>16. Judged(R, H, w)
  <2>1. Judged(S, H, w)
    BY DEF Sound
  <2>2. ASSUME NEW from \in Int, Real(S, H, from) PROVE Real(R, H, from)
    <3>1. Fixture \in Nat /\ Search \in Nat
      BY ConstantsHold DEF Constants
    <3>2. from + Fixture + Search <= Len(R.rx)
      BY <1>len, <1>8, <2>2, <3>1 DEF Real
    <3> QED BY <1>5, <2>2, <3>2 DEF Real
  <2>3. S.boundary - S.answered \in Int /\ S.cand \in Int
    BY <1>n
  <2>4. Ready(R) <=> Ready(S)
    BY <1>5 DEF Ready
  <2>5. (Captured(R) <=> Captured(S)) /\ (Controlled(R) <=> Controlled(S))
    BY <1>5, <1>7 DEF Captured, Controlled
  <2>6. (Real(S, H, S.cand) => Real(R, H, S.cand))
        /\ (Real(S, H, S.boundary - S.answered) => Real(R, H, S.boundary - S.answered))
    BY <2>2, <2>3
  <2> QED BY <1>5, <1>7, <2>1, <2>4, <2>5, <2>6 DEF Judged
<1>17. Undisturbed(R)
  <2> SUFFICES ASSUME R.mode = "measurement", R.boundary # None,
                      R.outcome # "stimulus_overlap", NEW i \in 1..R.scan, Over(R, i)
               PROVE  Heeded(R, i)
    BY DEF Undisturbed
  <2>1. Heeded(S, i)
    BY <1>5 DEF Sound, Undisturbed, Over
  <2>2. R.rx[i] = S.rx[i]
    <3>1. i \in 1..Len(S.rx)
      BY <1>n, <1>len, <1>5
    <3> QED BY <1>3, <1>4, <3>1
  <2> QED BY <1>5, <2>1, <2>2 DEF Heeded, InVoid
<1>18. Delivered(R, w)
  BY <1>5, <1>7 DEF Sound, Delivered
<1> QED BY <1>4, <1>8, <1>9, <1>10, <1>11, <1>12, <1>13, <1>14, <1>15, <1>16, <1>17, <1>18 DEF Sound, R

\* What the analysis does not read.
LEMMA IdleSound ==
  ASSUME NEW S, NEW H, NEW w, Sound(S, H, w), NEW T, Changes(S, T, {"lastPull", "teardown"})
  PROVE  Sound(T, H, w)
<1>re. Recorded(S)
  BY DEF Sound
<1>1. /\ T.mode = S.mode /\ T.outcome = S.outcome /\ T.answered = S.answered /\ T.rx = S.rx
      /\ T.anchor = S.anchor /\ T.stop = S.stop /\ T.scan = S.scan
      /\ T.runStart = S.runStart /\ T.run = S.run /\ T.holdStart = S.holdStart
      /\ T.dStart = S.dStart /\ T.dRun = S.dRun /\ T.cand = S.cand /\ T.sched = S.sched
      /\ T.next = S.next /\ T.boundary = S.boundary /\ T.fixEnd = S.fixEnd /\ T.sep = S.sep
      /\ T.voids = S.voids /\ T.mark = S.mark /\ T.counters = S.counters /\ T.base = S.base
      /\ T.pending = S.pending /\ DOMAIN T = Fields
  BY DEF Changes, Fields
<1>2. T.armed = S.armed /\ T.confirmed = S.confirmed /\ T.snapshot = S.snapshot
  BY DEF Changes, Fields
<1>3. (Armed(T) <=> Armed(S)) /\ (Confirmed(T) <=> Confirmed(S)) /\ (Snapped(T) <=> Snapped(S))
  BY <1>2 DEF Armed, Confirmed, Snapped
<1>4. Numeric(T)
  BY <1>1 DEF Sound, Numeric
<1>5. Flagged(T)
  BY <1>1, <1>2 DEF Sound, Flagged
<1>6. Recorded(T)
  BY <1>re, <1>1 DEF Recorded
<1>7. Anchored(T)
  BY <1>1, <1>3 DEF Sound, Anchored
<1>8. Silent(T, H)
  BY <1>1 DEF Sound, Silent, Held, Stopped, Separated
<1>9. Stimulated(T)
  BY <1>1, <1>3 DEF Sound, Stimulated
<1>10. Responds(T)
  BY <1>1, <1>3 DEF Sound, Responds, Ready
<1>11. Judged(T, H, w)
  <2>1. \A from : Real(T, H, from) <=> Real(S, H, from)
    BY <1>1, RealFrame
  <2>2. Ready(T) <=> Ready(S)
    BY <1>1 DEF Ready
  <2>3. (Captured(T) <=> Captured(S)) /\ (Controlled(T) <=> Controlled(S))
    BY <1>1, <1>3 DEF Captured, Controlled
  <2> QED BY <1>1, <1>3, <2>1, <2>2, <2>3 DEF Sound, Judged
<1>12. Undisturbed(T)
  BY <1>1 DEF Sound, Undisturbed, Over, Heeded, InVoid
<1>13. Delivered(T, w)
  BY <1>1, <1>3 DEF Sound, Delivered
<1> QED BY <1>4, <1>5, <1>6, <1>7, <1>8, <1>9, <1>10, <1>11, <1>12, <1>13 DEF Sound

\* One frame of the stimulus is transmitted.
Transmits(S, T, t) ==
  /\ Changes(S, T, {"next", "boundary", "base", "fixEnd"}) /\ S.next # Fixture
  /\ T.next = S.next + 1
  /\ T.boundary = (IF S.next = 0 THEN t ELSE S.boundary)
  /\ T.base = (IF S.next = 0 THEN S.counters ELSE S.base)
  /\ T.fixEnd = (IF S.next + 1 = Fixture THEN t + 1 ELSE S.fixEnd)

\* The end of the frames is later than what was scanned.
LEMMA LaterTime ==
  ASSUME NEW from \in Int, NEW k \in Nat, NEW scan \in Nat, NEW len \in Nat,
         from >= 0, k <= scan, len > scan
  PROVE  /\ from + len \in Int /\ from + len >= 0
         /\ from + k < from + len /\ from + scan < from + len
OBVIOUS

\* A frame of the stimulus: after the stop, the first one sets the boundary.
LEMMA TransmitsSound ==
  ASSUME NEW S, NEW H, NEW w, Sound(S, H, w), Armed(S), NEW t, t = S.answered + Len(S.rx),
         Len(S.rx) > S.scan, S.mark <= t, NEW T, Transmits(S, T, t)
  PROVE  Sound(T, H, w)
<1>re. Recorded(S)
  BY DEF Sound
<1>st. Stimulated(S)
  BY DEF Sound
<1>de. Delivered(S, w)
  BY DEF Sound
<1>len. Len(S.rx) \in Nat
  BY <1>re DEF Recorded
<1>n. S.answered \in Int /\ S.scan \in Nat /\ S.next \in Nat /\ S.boundary \in Int
      /\ S.fixEnd \in Int /\ S.mark \in Int /\ S.stop \in Int /\ S.base \in Int
      /\ S.counters \in Int
  BY DEF Sound, Numeric
<1>k. Arm \in Nat \ {0} /\ Fixture \in Nat \ {0} /\ Hold \in Nat \ {0}
  BY ConstantsHold DEF Constants
<1>1. /\ T.mode = S.mode /\ T.outcome = S.outcome /\ T.answered = S.answered /\ T.rx = S.rx
      /\ T.anchor = S.anchor /\ T.stop = S.stop /\ T.scan = S.scan
      /\ T.runStart = S.runStart /\ T.run = S.run /\ T.holdStart = S.holdStart
      /\ T.dStart = S.dStart /\ T.dRun = S.dRun /\ T.cand = S.cand /\ T.sched = S.sched
      /\ T.sep = S.sep /\ T.voids = S.voids /\ T.mark = S.mark /\ T.counters = S.counters
      /\ T.pending = S.pending /\ DOMAIN T = Fields
  BY DEF Transmits, Changes, Fields
<1>2. T.armed = S.armed /\ T.confirmed = S.confirmed /\ T.snapshot = S.snapshot
  BY DEF Transmits, Changes, Fields
<1>3. (Armed(T) <=> Armed(S)) /\ (Confirmed(T) <=> Confirmed(S)) /\ (Snapped(T) <=> Snapped(S))
  BY <1>2 DEF Armed, Confirmed, Snapped
<1>t. t \in Int /\ t >= 0 /\ S.answered + Arm < t /\ S.answered + S.scan < t
  <2>1. Arm <= S.scan
    BY DEF Sound, Anchored
  <2>2. S.answered >= 0
    BY <1>n, <1>len, <1>re DEF Recorded
  <2>3. S.scan \in Nat /\ S.answered \in Int /\ Arm \in Nat
    BY <1>n, <1>k
  <2> QED BY <1>len, <2>1, <2>2, <2>3, LaterTime
<1>4. S.fixEnd = None /\ S.sep = None
  <2>1. S.fixEnd = None
    BY <1>st DEF Stimulated, Transmits
  <2> QED BY <2>1 DEF Sound, Silent, Separated
<1>5. T.boundary # None /\ T.boundary \in Int /\ S.answered + Arm < T.boundary /\ T.boundary <= t
  <2>1. CASE S.next = 0
    <3>1. T.boundary = t
      BY <2>1 DEF Transmits
    <3> QED BY <3>1, <1>t DEF None
  <2>2. CASE S.next # 0
    <3>1. T.boundary = S.boundary
      BY <2>2 DEF Transmits
    <3>2. S.boundary # None
      BY <1>st, <2>2 DEF Stimulated
    <3> QED BY <3>1, <3>2, <1>n, <1>st DEF Stimulated
  <2> QED BY <2>1, <2>2
<1>6. \/ S.boundary = None /\ T.boundary = t
      \/ S.boundary # None /\ T.boundary = S.boundary
  BY <1>st DEF Stimulated, Transmits
<1>7. \/ T.fixEnd = None
      \/ T.fixEnd = t + 1 /\ T.next = Fixture
  BY <1>4 DEF Transmits
<1>8. T.next \in Nat /\ T.next # 0
  <2>1. T.next = S.next + 1 /\ S.next \in Nat
    BY <1>n DEF Transmits
  <2> QED BY <2>1
<1>9. T.base \in Int
  BY <1>n DEF Transmits
<1>10. Numeric(T)
  <2>1. T.fixEnd \in Int
    BY <1>7, <1>t DEF None
  <2> QED BY <1>1, <1>5, <1>8, <1>9, <2>1 DEF Sound, Numeric
<1>11. Flagged(T)
  BY <1>1, <1>2 DEF Sound, Flagged
<1>12. Recorded(T)
  BY <1>re, <1>1 DEF Recorded
<1>13. Anchored(T)
  BY <1>1, <1>3 DEF Sound, Anchored
<1>14. Silent(T, H)
  BY <1>1, <1>4 DEF Sound, Silent, Held, Stopped, Separated
<1>15. Stimulated(T)
  <2>1. T.mode # "phase3" => T.stop < T.boundary
    <3> SUFFICES ASSUME S.mode # "phase3" PROVE S.stop < T.boundary
      BY <1>1
    <3>1. CASE S.boundary # None
      BY <1>6, <1>st, <3>1 DEF Stimulated
    <3>2. CASE S.boundary = None
      <4>1. S.stop # None
        BY <1>st DEF Stimulated
      <4>2. S.stop + Hold - 1 <= S.answered + S.scan
        BY <4>1 DEF Sound, Silent, Stopped
      <4>3. T.boundary = t
        BY <1>6, <3>2
      <4>4. Hold \in Nat \ {0} /\ S.stop \in Int /\ S.answered + S.scan \in Int
        BY <1>n, <1>k
      <4>5. S.stop <= S.answered + S.scan
        BY <4>2, <4>4
      <4> QED BY <1>t, <4>3, <4>4, <4>5
    <3> QED BY <3>1, <3>2
  <2>2. T.fixEnd # None => T.boundary < T.fixEnd /\ T.next = Fixture
    BY <1>5, <1>7, <1>t
  <2>3. /\ T.sched # None => T.mode = "phase3"
        /\ Stimulates(T.mode)
        /\ T.mode # "phase3" => T.stop # None
    BY <1>1, <1>st DEF Stimulated
  <2>4. T.boundary <= T.answered + Len(T.rx)
    BY <1>1, <1>5
  <2>5. T.answered + Arm < T.boundary
    BY <1>1, <1>5
  <2> QED BY <1>3, <1>5, <1>8, <2>1, <2>2, <2>3, <2>4, <2>5 DEF Stimulated
<1>16. Responds(T)
  BY <1>1, <1>3 DEF Sound, Responds, Ready
<1>17. Judged(T, H, w)
  <2>1. \A from : Real(T, H, from) <=> Real(S, H, from)
    BY <1>1, RealFrame
  <2>2. Ready(T) <=> Ready(S)
    BY <1>1 DEF Ready
  <2>3. (Captured(T) <=> Captured(S)) /\ (Controlled(T) <=> Controlled(S))
    BY <1>1, <1>3 DEF Captured, Controlled
  <2>j. Judged(S, H, w)
    BY DEF Sound
  <2>4. ASSUME T.mode = "echo-control", Controlled(T)
        PROVE  T.boundary # None /\ Real(T, H, T.boundary - T.answered)
    <3>1. S.boundary # None /\ Real(S, H, S.boundary - S.answered)
      BY <1>1, <2>3, <2>4, <2>j DEF Judged
    <3> QED BY <1>1, <1>6, <2>1, <3>1
  <2> QED BY <1>1, <1>3, <2>1, <2>2, <2>3, <2>4, <2>j DEF Judged
<1>18. Undisturbed(T)
  <2> SUFFICES ASSUME T.mode = "measurement",
                      T.outcome # "stimulus_overlap", NEW i \in 1..T.scan, Over(T, i)
               PROVE  Heeded(T, i)
    BY DEF Undisturbed
  <2>1. i \in Nat /\ i <= S.scan
    BY <1>n, <1>1
  <2>2. T.boundary <= S.answered + i
    BY <1>1 DEF Over
  <2>3. T.boundary # t
    BY <1>n, <1>t, <2>1, <2>2
  <2>4. S.boundary # None /\ T.boundary = S.boundary
    BY <1>6, <2>3
  <2>5. Over(S, i)
    BY <1>4, <2>2, <2>4 DEF Over
  <2>6. Heeded(S, i)
    BY <1>1, <2>4, <2>5 DEF Sound, Undisturbed
  <2> QED BY <1>1, <2>6 DEF Heeded, InVoid
<1>19. Delivered(T, w)
  <2>1. T.fixEnd # None => ~(T.fixEnd <= T.mark)
    BY <1>1, <1>7, <1>n, <1>t
  <2> QED BY <1>1, <1>3, <1>de, <2>1 DEF Delivered
<1> QED BY <1>10, <1>11, <1>12, <1>13, <1>14, <1>15, <1>16, <1>17, <1>18, <1>19 DEF Sound

\* A pull takes a frame of the stimulus, or none, and a burst may end the call.
Pulled(S, T, t) ==
  /\ Changes(S, T, {"outcome", "lastPull", "next", "boundary", "base", "fixEnd"})
  /\ T.lastPull = t
  /\ \/ T.next = S.next /\ T.base = S.base
     \/ /\ T.next = S.next + 1 /\ Armed(S)
        /\ T.base = IF S.next = 0 THEN S.counters ELSE S.base
  /\ T.outcome = S.outcome \/ T.outcome # "none"

\* A frame that is asked for.
LEMMA PullTxSound ==
  ASSUME NEW S, NEW H, NEW w, Sound(S, H, w), NEW t, t = S.answered + Len(S.rx),
         Armed(S) => Len(S.rx) > S.scan /\ S.mark <= t
  PROVE  Sound(PullTx(S, t), H, w) /\ Pulled(S, PullTx(S, t), t)
<1> DEFINE burst == S.lastPull = t /\ S.gate
           F == IF burst THEN Fail(S, "media_ordering_anomaly") ELSE S
           P == [F EXCEPT !.lastPull = t]
           T == PullTx(S, t)
<1>re. DOMAIN S = Fields
  BY DEF Sound, Recorded
<1>1. /\ Sound(F, H, w) /\ Changes(S, F, {"outcome"})
      /\ F.outcome = S.outcome \/ F.outcome # "none"
  <2>1. CASE burst
    <3>1. F = Fail(S, "media_ordering_anomaly")
      BY <2>1
    <3> HIDE DEF F
    <3>2. Fails("media_ordering_anomaly")
      BY DEF Fails
    <3> QED BY <3>1, <3>2, FailSound
  <2>2. CASE ~burst
    <3>1. F = S
      BY <2>2
    <3> QED BY <3>1, <1>re DEF Changes
  <2> QED BY <2>1, <2>2
<1> HIDE DEF F
<1>2. Changes(F, P, {"lastPull"}) /\ P.lastPull = t
  BY <1>1 DEF Changes, Fields
<1>3. Sound(P, H, w)
  <2>1. Changes(F, P, {"lastPull", "teardown"})
    BY <1>2 DEF Changes
  <2> HIDE DEF P
  <2> QED BY <1>1, <2>1, IdleSound
<1>4. /\ P.rx = S.rx /\ P.scan = S.scan /\ P.answered = S.answered /\ P.mark = S.mark
      /\ P.next = S.next /\ P.base = S.base /\ P.counters = S.counters /\ P.outcome = F.outcome
      /\ P.boundary = S.boundary /\ P.fixEnd = S.fixEnd
  <2> HIDE DEF P
  <2> QED BY <1>1, <1>2 DEF Changes, Fields
<1>5. P.armed = S.armed /\ (Armed(P) <=> Armed(S))
  <2> HIDE DEF P
  <2>1. P.armed = S.armed
    BY <1>1, <1>2 DEF Changes, Fields
  <2> QED BY <2>1 DEF Armed
<1>6. Changes(S, P, {"outcome", "lastPull"})
  <2> HIDE DEF P
  <2> QED BY <1>1, <1>2 DEF Changes
<1>7. T = IF ~Armed(P) \/ P.next = Fixture THEN P
          ELSE [P EXCEPT !.next = @ + 1,
                         !.boundary = IF P.next = 0 THEN t ELSE @,
                         !.base = IF P.next = 0 THEN P.counters ELSE @,
                         !.fixEnd = IF P.next + 1 = Fixture THEN t + 1 ELSE @]
  BY DEF PullTx, Armed, F
<1> HIDE DEF P, T
<1>8. CASE ~Armed(P) \/ P.next = Fixture
  <2>1. T = P
    BY <1>7, <1>8
  <2>2. Pulled(S, P, t)
    <3>1. Changes(S, P, {"outcome", "lastPull", "next", "boundary", "base", "fixEnd"})
      BY <1>6 DEF Changes
    <3> QED BY <1>1, <1>2, <1>4, <3>1 DEF Pulled
  <2> QED BY <1>3, <2>1, <2>2 DEF T
<1>9. CASE Armed(P) /\ P.next # Fixture
  <2>1. Transmits(P, T, t)
    BY <1>6, <1>7, <1>9 DEF Transmits, Changes, Fields
  <2>2. Sound(T, H, w)
    BY <1>3, <1>4, <1>5, <1>9, <2>1, TransmitsSound
  <2>3. Pulled(S, T, t)
    <3>1. Changes(S, T, {"outcome", "lastPull", "next", "boundary", "base", "fixEnd"})
      BY <1>6, <2>1 DEF Transmits, Changes
    <3>2. T.lastPull = t /\ T.outcome = P.outcome
      BY <1>2, <2>1 DEF Transmits, Changes, Fields
    <3>3. T.next = S.next + 1 /\ T.base = IF S.next = 0 THEN S.counters ELSE S.base
      BY <1>4, <2>1 DEF Transmits
    <3> QED BY <1>1, <1>4, <1>5, <1>9, <3>1, <3>2, <3>3 DEF Pulled
  <2> QED BY <2>2, <2>3 DEF T
<1> QED BY <1>8, <1>9

\* Before the answer nothing has been heard.
LEMMA NothingHeard ==
  ASSUME NEW S, NEW H, NEW w, Sound(S, H, w), S.rx = <<>>
  PROVE  /\ S.scan = 0 /\ S.anchor = None /\ S.stop = None /\ ~Armed(S)
         /\ S.boundary = None /\ S.fixEnd = None /\ S.sep = None /\ S.holdStart = 0
         /\ ~Ready(S)
<1>1. Len(S.rx) = 0
  OBVIOUS
<1>2. S.scan \in Nat /\ S.scan <= Len(S.rx)
  BY DEF Sound, Numeric, Anchored
<1>3. S.scan = 0
  BY <1>1, <1>2
<1>4. S.anchor = None
  <2>1. Arm \in Nat \ {0}
    BY ConstantsHold DEF Constants
  <2>2. S.anchor # None => Arm <= S.scan
    BY DEF Sound, Anchored
  <2> QED BY <1>3, <2>1, <2>2
<1>5. S.holdStart = 0 /\ S.stop = None /\ ~Armed(S)
  BY <1>4 DEF Sound, Anchored
<1>6. S.boundary = None
  BY <1>5 DEF Sound, Stimulated
<1>7. S.fixEnd = None
  BY <1>6 DEF Sound, Stimulated
<1>8. S.sep = None
  BY <1>7 DEF Sound, Silent, Separated
<1> QED BY <1>3, <1>4, <1>5, <1>6, <1>7, <1>8 DEF Ready

\* The answer starts the record.
LEMMA AnsweredSound ==
  ASSUME NEW S, NEW H, NEW w, Sound(S, H, w), S.rx = <<>>, S.answered = None,
         S.outcome = "none",
         NEW t \in Nat
  PROVE  Sound([S EXCEPT !.answered = t], H, w)
<1> DEFINE T == [S EXCEPT !.answered = t]
<1>re. Recorded(S)
  BY DEF Sound
<1>0. Changes(S, T, {"answered"}) /\ T.answered = t
  BY <1>re DEF Recorded, Changes, Fields
<1> HIDE DEF T
<1>1. /\ T.mode = S.mode /\ T.outcome = S.outcome /\ T.rx = S.rx
      /\ T.anchor = S.anchor /\ T.stop = S.stop /\ T.scan = S.scan
      /\ T.runStart = S.runStart /\ T.run = S.run /\ T.holdStart = S.holdStart
      /\ T.dStart = S.dStart /\ T.dRun = S.dRun /\ T.cand = S.cand /\ T.sched = S.sched
      /\ T.next = S.next /\ T.boundary = S.boundary /\ T.fixEnd = S.fixEnd /\ T.sep = S.sep
      /\ T.voids = S.voids /\ T.mark = S.mark /\ T.counters = S.counters /\ T.base = S.base
      /\ T.pending = S.pending /\ DOMAIN T = Fields
  BY <1>0 DEF Changes, Fields
<1>2. T.armed = S.armed /\ T.confirmed = S.confirmed /\ T.snapshot = S.snapshot
  BY <1>0 DEF Changes, Fields
<1>3. (Armed(T) <=> Armed(S)) /\ (Confirmed(T) <=> Confirmed(S)) /\ (Snapped(T) <=> Snapped(S))
  BY <1>2 DEF Armed, Confirmed, Snapped
<1>4. /\ S.scan = 0 /\ S.anchor = None /\ S.stop = None /\ ~Armed(S)
      /\ S.boundary = None /\ S.fixEnd = None /\ S.sep = None /\ S.holdStart = 0
      /\ ~Ready(S)
  BY NothingHeard
<1>len. Len(S.rx) = 0
  OBVIOUS
<1>5. Numeric(T)
  BY <1>0, <1>1 DEF Sound, Numeric
<1>6. Flagged(T)
  BY <1>1, <1>2 DEF Sound, Flagged
<1>7. Recorded(T)
  BY <1>re, <1>len, <1>1 DEF Recorded
<1>8. Anchored(T)
  BY <1>1, <1>3, <1>4 DEF Sound, Anchored
<1>9. Silent(T, H)
  BY <1>1, <1>4 DEF Silent, Held, Stopped, Separated
<1>10. Stimulated(T)
  BY <1>1, <1>3, <1>4 DEF Sound, Stimulated
<1>11. Responds(T)
  <2>1. Responds(S)
    BY DEF Sound
  <2>2. S.dStart = 0 /\ S.cand = 0 /\ ~Snapped(S) /\ S.pending = "none"
    BY <1>4, <2>1 DEF Responds
  <2> QED BY <1>1, <1>3, <1>4, <2>2 DEF Responds
<1>12. Judged(T, H, w)
  <2>1. Neutral(T) /\ T.pending = "none" /\ ~Snapped(T)
    BY <1>1, <1>3, <1>4 DEF Sound, Responds, Neutral, Captured
  <2> QED BY <2>1 DEF Judged, Neutral, Controlled
<1>13. Undisturbed(T)
  BY <1>1, <1>4 DEF Undisturbed
<1>14. Delivered(T, w)
  <2>1. S.mark \in Int /\ Arm \in Nat
    BY ConstantsHold DEF Constants, Sound, Numeric
  <2>2. S.mark <= None + Arm => T.mark <= T.answered + Arm
    BY <1>0, <1>1, <2>1 DEF None
  <2> QED BY <1>1, <1>3, <1>4, <2>2 DEF Sound, Delivered
<1> QED BY <1>5, <1>6, <1>7, <1>8, <1>9, <1>10, <1>11, <1>12, <1>13, <1>14 DEF Sound, T

\* A new session.
LEMMA SessionSound ==
  ASSUME NEW mode, NEW H, NEW w \in BOOLEAN
  PROVE  Sound(Session(mode), H, w)
<1> DEFINE S == Session(mode)
<1>k. Arm \in Nat \ {0}
  BY ConstantsHold DEF Constants
<1>1. /\ S.mode = mode /\ S.outcome = "none" /\ S.answered = None /\ S.rx = <<>>
      /\ S.anchor = None /\ S.stop = None /\ S.scan = 0
      /\ S.runStart = 0 /\ S.run = 0 /\ S.holdStart = 0
      /\ S.dStart = 0 /\ S.dRun = 0 /\ S.cand = 0 /\ S.sched = None
      /\ S.next = 0 /\ S.boundary = None /\ S.fixEnd = None /\ S.sep = None
      /\ S.voids = {} /\ S.mark = 0 /\ S.counters = None /\ S.base = None
      /\ S.pending = "none" /\ DOMAIN S = Fields
  BY DEF Session, Fields
<1>2. S.armed = FALSE /\ S.confirmed = FALSE /\ S.snapshot = FALSE
  BY DEF Session
<1> HIDE DEF S
<1>3. ~Armed(S) /\ ~Confirmed(S) /\ ~Snapped(S)
  BY <1>2 DEF Armed, Confirmed, Snapped
<1>len. Len(S.rx) = 0 /\ S.rx \in Seq(Heard)
  BY <1>1
<1>5. Numeric(S)
  BY <1>1 DEF Numeric, None
<1>6. Flagged(S)
  BY <1>1, <1>2 DEF Flagged
<1>7. Recorded(S)
  BY <1>len, <1>1 DEF Recorded
<1>8. Anchored(S)
  BY <1>1, <1>3, <1>len DEF Anchored
<1>9. Silent(S, H)
  BY <1>1 DEF Silent, Held, Stopped, Separated
<1>10. Stimulated(S)
  BY <1>1, <1>3 DEF Stimulated
<1>11. Responds(S)
  BY <1>1, <1>3 DEF Responds
<1>12. Judged(S, H, w)
  <2>1. Neutral(S)
    BY <1>1 DEF Neutral, Captured
  <2> QED BY <1>1, <1>3, <2>1 DEF Judged, Neutral, Controlled
<1>13. Undisturbed(S)
  BY <1>1 DEF Undisturbed
<1>14. Delivered(S, w)
  BY <1>1, <1>3, <1>k DEF Delivered, None
<1> QED BY <1>5, <1>6, <1>7, <1>8, <1>9, <1>10, <1>11, <1>12, <1>13, <1>14 DEF Sound, S

-----------------------------------------------------------------------------
(* The session among the clock, the wire and the loop *)

\* The packets sent, those the session has counted and those of the stimulus.
Transmitted ==
  /\ sent \in Nat /\ None <= s.counters /\ s.counters <= sent
  /\ ~wire => sent = 0 /\ s.counters <= 0 /\ (s.base # None => s.base = 0)
  /\ s.next > 0 => s.base # None /\ (wire => s.base + s.next <= sent)

\* Frames are received as the clock ticks, and only once the call is answered.
Ticking ==
  /\ now \in Nat /\ s.mark <= now
  /\ s.answered # None => 0 <= s.answered
  /\ ~media \/ s.answered = None => concealed = {} /\ s.rx = <<>> /\ s.lastPull = None
  /\ media /\ s.answered # None /\ s.outcome = "none" => now = s.answered + Len(s.rx)
  /\ s.scan > 0 => s.scan < Len(s.rx)

\* The loop has seen the answer, and is on time but for a judgment.
Turning ==
  /\ at \in Int /\ at <= now
  /\ ~seen => s.scan = 0 /\ s.mark = 0 /\ (s.answered # None => at <= s.answered)
  /\ s.outcome = "none" => (Snapped(s) <=> pc = "judge")
  /\ s.outcome = "none" /\ s.pending = "none" /\ pc # "judge" => now <= at + Lag + 1

\* A lost packet is counted when the next one arrives; the count falls behind
\* what the loop knows only when it was revised downward.
Losing ==
  /\ lossCount \in Nat /\ known \in Nat /\ missing \in Nat /\ revised \in Nat
  /\ revised > 0 \/ known <= lossCount
  /\ Timed(concealed)
  /\ \A t \in concealed : t - Depth <= now /\ t - Depth # now - missing

\* Concealed audio is in a void, or in the first frames, or yet to be reported; what
\* a lower count hides is overlooked by the next poll.
Covered ==
  /\ lastStats \in Nat /\ lastStats <= now
  /\ seen /\ s.outcome = "none" /\ s.pending = "none" =>
       /\ s.mark <= lastStats
       /\ \A t \in Tellable :
            \/ InVoid(s, t) \/ t < s.answered + Arm
            \/ lastStats <= t /\ (Counted(t) => known < lossCount \/ revised > 0)

\* The inductive invariant.
IInv ==
  /\ Sound(s, Tellable, wire)
  /\ Transmitted /\ Ticking /\ Turning /\ Losing /\ Covered

\* What is tellable was concealed.
LEMMA TellableConcealed == Tellable \subseteq concealed /\ (Timed(concealed) => Timed(Tellable))
BY DEF Tellable, Timed

\* The initial states.
LEMMA Initially == Init => IInv
<1> SUFFICES ASSUME Init PROVE IInv
  OBVIOUS
<1>1. PICK mode \in Modes : s = Session(mode)
  BY DEF Init
<1>2. /\ now = 0 /\ concealed = {} /\ missing = 0 /\ lossCount = 0 /\ sent = 0
      /\ at = None /\ lastStats = 0 /\ known = 0 /\ ~seen /\ pc = "top" /\ revised = 0
  BY DEF Init
<1>3. wire \in BOOLEAN
  BY DEF Init
<1>4. /\ s.outcome = "none" /\ s.answered = None /\ s.rx = <<>> /\ s.scan = 0 /\ s.mark = 0
      /\ s.counters = None /\ s.base = None /\ s.next = 0 /\ s.lastPull = None
  BY <1>1 DEF Session
<1>5. ~Snapped(s)
  BY <1>1 DEF Session, Snapped
<1>6. Sound(s, Tellable, wire)
  BY <1>1, <1>3, SessionSound
<1>7. Transmitted
  BY <1>2, <1>4 DEF Transmitted, None
<1>8. Ticking
  BY <1>2, <1>4 DEF Ticking, None
<1>9. Turning
  <2>1. Lag \in Nat
    BY ConstantsHold DEF Constants
  <2> QED BY <1>2, <1>4, <1>5, <2>1 DEF Turning, None
<1>10. Losing
  BY <1>2 DEF Losing, Timed
<1>11. Covered
  BY <1>2 DEF Covered
<1> QED BY <1>6, <1>7, <1>8, <1>9, <1>10, <1>11 DEF IInv

\* What a step that only ends the call leaves as it was.
Unmoved ==
  /\ now' = now /\ pc' = pc /\ at' = at /\ lastStats' = lastStats /\ known' = known
  /\ seen' = seen /\ concealed' = concealed /\ missing' = missing /\ lossCount' = lossCount
  /\ media' = media /\ wire' = wire /\ sent' = sent
  /\ revised' = revised /\ overlooked' = overlooked

\* Ending the session, or nothing at all.
LEMMA EndedStep ==
  ASSUME IInv, Sound(s', Tellable, wire), Changes(s, s', {"outcome", "teardown"}),
         s'.outcome = s.outcome \/ s'.outcome # "none", Unmoved
  PROVE  IInv'
<1>1. /\ s'.answered = s.answered /\ s'.rx = s.rx /\ s'.scan = s.scan /\ s'.mark = s.mark
      /\ s'.counters = s.counters /\ s'.base = s.base /\ s'.next = s.next
      /\ s'.lastPull = s.lastPull /\ s'.pending = s.pending /\ s'.voids = s.voids
  BY DEF Changes, Fields
<1>2. s'.snapshot = s.snapshot
  BY DEF Changes, Fields
<1>3. Snapped(s)' <=> Snapped(s)
  BY <1>2 DEF Snapped
<1>4. s'.outcome = "none" => s.outcome = "none"
  OBVIOUS
<1>5. \A t : InVoid(s', t) <=> InVoid(s, t)
  BY <1>1 DEF InVoid
<1>t. Tellable' = Tellable
  BY DEF Unmoved, Tellable
<1>6. Sound(s, Tellable, wire)'
  BY <1>t DEF Unmoved
<1>7. Transmitted'
  BY <1>1 DEF IInv, Transmitted, Unmoved
<1>8. Ticking'
  BY <1>1, <1>4 DEF IInv, Ticking, Unmoved
<1>9. Turning'
  BY <1>1, <1>3, <1>4 DEF IInv, Turning, Unmoved
<1>10. Losing'
  BY DEF IInv, Losing, Unmoved, Timed
<1>11. Covered'
  BY <1>1, <1>4, <1>5, <1>t DEF IInv, Covered, Counted, Unmoved
<1> QED BY <1>6, <1>7, <1>8, <1>9, <1>10, <1>11 DEF IInv

\* The media format is not the negotiated one.
LEMMA MismatchStep ==
  ASSUME IInv, s' = Fail(s, "media_format_mismatch"), Unmoved
  PROVE  IInv'
<1>1. Fails("media_format_mismatch")
  BY DEF Fails
<1>2. /\ Sound(s', Tellable, wire) /\ Changes(s, s', {"outcome"}) /\ s'.outcome # "none"
  BY <1>1, FailSound DEF IInv
<1>3. Changes(s, s', {"outcome", "teardown"})
  BY <1>2 DEF Changes
<1> QED BY <1>2, <1>3, EndedStep

\* Renegotiated keeps the invariant.
LEMMA RenegotiatedStep == IInv /\ Renegotiated => IInv'
<1> SUFFICES ASSUME IInv, Renegotiated PROVE IInv'
  OBVIOUS
<1>1. s' = Fail(s, "media_format_mismatch") /\ Unmoved
  BY DEF Renegotiated, Unmoved, loopVars
<1> QED BY <1>1, MismatchStep

\* OnDisconnected keeps the invariant.
LEMMA OnDisconnectedStep == IInv /\ OnDisconnected => IInv'
<1> SUFFICES ASSUME IInv, OnDisconnected PROVE IInv'
  OBVIOUS
<1> DEFINE F == Fail(s, "call_hangup")
<1>1. s' = [F EXCEPT !.teardown = IF @ = "none" THEN "remote_bye" ELSE @] /\ s.outcome = "none"
  BY DEF OnDisconnected
<1>2. Unmoved
  BY DEF OnDisconnected, Unmoved, loopVars
<1>3. DOMAIN s = Fields
  BY DEF IInv, Sound, Recorded
<1>4. Changes(s, F, {"outcome"}) /\ F.outcome = "call_hangup"
  BY <1>1, <1>3 DEF Fail, Changes, Fields
<1> HIDE DEF F
<1>5. s'.outcome = "call_hangup" /\ Changes(s, s', {"outcome", "teardown"})
  BY <1>1, <1>4 DEF Changes, Fields
<1>6. Neutral(s')
  BY <1>5 DEF Neutral, Captured
<1>7. Sound(s', Tellable, wire)
  BY <1>1, <1>5, <1>6, OutcomeSound DEF IInv
<1> QED BY <1>2, <1>5, <1>7, EndedStep

\* OnAnswered keeps the invariant.
LEMMA OnAnsweredStep == IInv /\ OnAnswered => IInv'
<1> SUFFICES ASSUME IInv, OnAnswered PROVE IInv'
  OBVIOUS
<1>1. Unmoved
  BY DEF OnAnswered, Unmoved, loopVars, envVars
<1>2. CASE s' = Fail(s, "media_format_mismatch")
  BY <1>1, <1>2, MismatchStep
<1>3. CASE s.outcome = "none" /\ s' = [s EXCEPT !.answered = now]
  <2>1. s.answered = None /\ now \in Nat /\ concealed = {} /\ s.rx = <<>> /\ s.lastPull = None
    BY DEF OnAnswered, IInv, Ticking
  <2>2. DOMAIN s = Fields
    BY DEF IInv, Sound, Recorded
  <2>3. Changes(s, s', {"answered"}) /\ s'.answered = now
    BY <1>3, <2>2 DEF Changes, Fields
  <2>4. Sound(s', Tellable, wire)
    BY <1>3, <2>1, AnsweredSound DEF IInv
  <2>5. /\ s'.outcome = s.outcome /\ s'.rx = s.rx /\ s'.scan = s.scan /\ s'.mark = s.mark
        /\ s'.counters = s.counters /\ s'.base = s.base /\ s'.next = s.next
        /\ s'.lastPull = s.lastPull /\ s'.pending = s.pending /\ s'.voids = s.voids
    BY <2>3 DEF Changes, Fields
  <2>6. s'.snapshot = s.snapshot
    BY <2>3 DEF Changes, Fields
  <2>7. Snapped(s)' <=> Snapped(s)
    BY <2>6 DEF Snapped
  <2>t. Tellable' = Tellable /\ Tellable = {}
    BY <1>1, <2>1 DEF Unmoved, Tellable
  <2>8. Sound(s, Tellable, wire)'
    BY <1>1, <2>4, <2>t DEF Unmoved
  <2>9. Transmitted'
    BY <1>1, <2>5 DEF IInv, Transmitted, Unmoved
  <2>10. Ticking'
    <3>1. now = now + Len(s.rx)
      BY <2>1
    <3> QED BY <1>1, <2>1, <2>3, <2>5, <3>1 DEF IInv, Ticking, Unmoved
  <2>11. Turning'
    BY <1>1, <2>3, <2>5, <2>7 DEF IInv, Turning, Unmoved
  <2>12. Losing'
    BY <1>1 DEF IInv, Losing, Unmoved, Timed
  <2>13. Covered'
    BY <1>1, <2>5, <2>t DEF IInv, Covered, Unmoved
  <2> QED BY <2>8, <2>9, <2>10, <2>11, <2>12, <2>13 DEF IInv
<1> QED BY <1>2, <1>3 DEF OnAnswered

\* NoMedia keeps the invariant: the clock moves, the record is empty.
LEMMA NoMediaStep == IInv /\ NoMedia => IInv'
<1> SUFFICES ASSUME IInv, NoMedia PROVE IInv'
  OBVIOUS
<1>1. /\ now' = now + 1 /\ now <= at /\ s' = s /\ pc' = pc /\ at' = at /\ lastStats' = lastStats
      /\ known' = known /\ seen' = seen /\ concealed' = concealed /\ missing' = missing
      /\ lossCount' = lossCount /\ media' = media /\ wire' = wire /\ sent' = sent
      /\ revised' = revised /\ overlooked' = overlooked
  BY DEF NoMedia, loopVars, envVars
<1>2. ~media \/ s.answered = None
  BY DEF NoMedia
<1>3. concealed = {} /\ now \in Nat /\ s.mark <= now
  BY <1>2 DEF IInv, Ticking
<1>t. Tellable' = Tellable /\ Tellable = {}
  BY <1>1, <1>3 DEF Tellable
<1>4. Sound(s, Tellable, wire)'
  BY <1>1, <1>t DEF IInv
<1>5. Transmitted'
  BY <1>1 DEF IInv, Transmitted
<1>6. Ticking'
  <2>1. s.mark \in Int
    BY DEF IInv, Sound, Numeric
  <2>2. now + 1 \in Nat /\ s.mark <= now + 1
    BY <1>3, <2>1
  <2> QED BY <1>1, <1>2, <2>2 DEF IInv, Ticking
<1>7. Turning'
  <2>1. at \in Int /\ at <= now /\ Lag \in Nat
    BY ConstantsHold DEF IInv, Turning, Constants
  <2>2. at <= now + 1 /\ now + 1 <= at + Lag + 1
    BY <1>1, <1>3, <2>1
  <2> QED BY <1>1, <2>2 DEF IInv, Turning
<1>8. Losing'
  BY <1>1, <1>3 DEF IInv, Losing, Timed
<1>9. Covered'
  <2>1. lastStats \in Nat /\ lastStats <= now
    BY DEF IInv, Covered
  <2>2. lastStats <= now + 1
    BY <1>3, <2>1
  <2> QED BY <1>1, <1>t, <2>2 DEF IInv, Covered
<1> QED BY <1>4, <1>5, <1>6, <1>7, <1>8, <1>9 DEF IInv

\* What a pull does to the counters of packets.
LEMMA PulledTransmitted ==
  ASSUME Transmitted, NEW R, R.next = s.next, R.base = s.base, R.counters = s.counters,
         Armed(R) => s.counters # None,
         NEW t, Pulled(R, s', t), s'.counters = s.counters, s.next \in Nat, s.counters \in Int,
         s.base \in Int,
         sent' = sent + (IF wire THEN 1 ELSE 0), wire' = wire
  PROVE  Transmitted'
<1>1. sent \in Nat /\ None <= s.counters /\ s.counters <= sent
  BY DEF Transmitted
<1>2. sent' \in Nat /\ (wire => sent' = sent + 1) /\ (~wire => sent' = sent)
  BY <1>1
<1>3. s'.counters <= sent'
  BY <1>1, <1>2
<1>4. CASE s'.next = s.next /\ s'.base = s.base
  <2>1. s.base + s.next <= sent => s.base + s.next <= sent'
    BY <1>1, <1>2
  <2> QED BY <1>1, <1>2, <1>3, <1>4, <2>1 DEF Transmitted
<1>5. CASE s'.next = s.next + 1 /\ s.next = 0 /\ s'.base = s.counters
  <2>1. s.counters # None
    BY <1>5 DEF Pulled
  <2>2. ~wire => sent' = 0 /\ s'.counters <= 0 /\ s'.base = 0
    BY <1>1, <1>2, <1>5, <2>1 DEF Transmitted, None
  <2>3. wire => s'.base + s'.next <= sent'
    BY <1>1, <1>2, <1>5
  <2> QED BY <1>1, <1>2, <1>3, <1>5, <2>1, <2>2, <2>3 DEF Transmitted
<1>6. CASE s'.next = s.next + 1 /\ s.next # 0 /\ s'.base = s.base
  <2>1. s.next > 0
    BY <1>6
  <2>2. wire => s'.base + s'.next <= sent'
    BY <1>1, <1>2, <1>6, <2>1 DEF Transmitted
  <2> QED BY <1>1, <1>2, <1>3, <1>6, <2>1, <2>2 DEF Transmitted
<1>7. \/ s'.next = s.next /\ s'.base = s.base
      \/ s'.next = s.next + 1 /\ s.next = 0 /\ s'.base = s.counters /\ Armed(R)
      \/ s'.next = s.next + 1 /\ s.next # 0 /\ s'.base = s.base
  BY DEF Pulled
<1> QED BY <1>4, <1>5, <1>6, <1>7

\* Burst keeps the invariant: the stimulus moves by a frame the clock did not count.
LEMMA BurstStep == IInv /\ Burst => IInv'
<1> SUFFICES ASSUME IInv, Burst PROVE IInv'
  OBVIOUS
<1>1. /\ now' = now /\ s' = PullTx(s, now) /\ pc' = pc /\ at' = at /\ lastStats' = lastStats
      /\ known' = known /\ seen' = seen /\ concealed' = concealed /\ missing' = missing
      /\ lossCount' = lossCount /\ media' = media /\ wire' = wire
      /\ sent' = sent + (IF wire THEN 1 ELSE 0) /\ s.outcome = "none" /\ s.lastPull = now
      /\ revised' = revised /\ overlooked' = overlooked
  BY DEF Burst, loopVars
<1>2. now \in Nat /\ now # None
  BY DEF IInv, Ticking, None
<1>3. media /\ s.answered # None
  BY <1>1, <1>2 DEF IInv, Ticking
<1>4. now = s.answered + Len(s.rx)
  BY <1>1, <1>3 DEF IInv, Ticking
<1>5. Armed(s) => Len(s.rx) > s.scan /\ s.mark <= now
  <2> SUFFICES ASSUME Armed(s) PROVE Len(s.rx) > s.scan /\ s.mark <= now
    OBVIOUS
  <2>1. Arm <= s.scan
    BY DEF IInv, Sound, Anchored
  <2>2. Arm \in Nat \ {0} /\ s.scan \in Nat /\ Len(s.rx) \in Nat
    BY ConstantsHold DEF Constants, IInv, Sound, Numeric, Recorded
  <2>3. s.scan > 0
    BY <2>1, <2>2
  <2>4. s.scan < Len(s.rx)
    BY <2>3 DEF IInv, Ticking
  <2>5. s.mark <= now
    BY DEF IInv, Ticking
  <2> QED BY <2>2, <2>4, <2>5
<1>6. Sound(s', Tellable, wire) /\ Pulled(s, s', now)
  BY <1>1, <1>4, <1>5, PullTxSound DEF IInv
<1>7. /\ s'.answered = s.answered /\ s'.rx = s.rx /\ s'.scan = s.scan /\ s'.mark = s.mark
      /\ s'.counters = s.counters /\ s'.pending = s.pending /\ s'.voids = s.voids
  BY <1>6 DEF Pulled, Changes, Fields
<1>8. s'.snapshot = s.snapshot
  BY <1>6 DEF Pulled, Changes, Fields
<1>9. Snapped(s)' <=> Snapped(s)
  BY <1>8 DEF Snapped
<1>10. \A t : InVoid(s', t) <=> InVoid(s, t)
  BY <1>7 DEF InVoid
<1>t. Tellable' = Tellable
  BY <1>1 DEF Tellable
<1>11. Sound(s, Tellable, wire)'
  BY <1>1, <1>6, <1>t
<1>12. Transmitted'
  <2>1. s.next \in Nat /\ s.counters \in Int /\ s.base \in Int
    BY DEF IInv, Sound, Numeric
  <2>2. Armed(s) => s.counters # None
    BY DEF IInv, Sound, Delivered
  <2>3. Transmitted
    BY DEF IInv
  <2> QED BY <1>1, <1>6, <1>7, <2>1, <2>2, <2>3, PulledTransmitted
<1>13. Ticking'
  BY <1>1, <1>3, <1>7 DEF IInv, Ticking
<1>14. Turning'
  BY <1>1, <1>7, <1>9 DEF IInv, Turning
<1>15. Losing'
  BY <1>1 DEF IInv, Losing, Timed
<1>16. Covered'
  BY <1>1, <1>7, <1>10, <1>t DEF IInv, Covered, Counted
<1> QED BY <1>11, <1>12, <1>13, <1>14, <1>15, <1>16 DEF IInv

\* A frame comes in, and a packet may be lost.
Lossless == concealed' = concealed /\ lossCount' = lossCount + missing /\ missing' = 0
Lossy == /\ missing' = missing + 1 /\ lossCount' = lossCount
         /\ concealed' = concealed \cup {now' + Depth}

\* A packet lost or not, the loss is counted when the next one arrives.
LEMMA FrameLosing ==
  ASSUME Losing, now \in Nat, now' = now + 1, known' = known, revised' = revised,
         Lossless \/ Lossy
  PROVE  Losing'
<1>1. /\ lossCount \in Nat /\ known \in Nat /\ missing \in Nat /\ Depth \in Nat
      /\ revised \in Nat /\ (revised > 0 \/ known <= lossCount)
  BY ConstantsHold DEF Losing, Constants
<1>2. CASE Lossless
  <2>1. lossCount' \in Nat /\ (revised > 0 \/ known <= lossCount') /\ missing' \in Nat
    BY <1>1, <1>2 DEF Lossless
  <2>2. ASSUME NEW t \in concealed PROVE t - Depth <= now' /\ t - Depth # now' - missing'
    <3>1. t \in Int /\ t - Depth <= now
      BY DEF Losing, Timed
    <3>2. missing' = 0
      BY <1>2 DEF Lossless
    <3> QED BY <1>1, <3>1, <3>2
  <2>3. Timed(concealed')
    BY <1>2 DEF Losing, Lossless
  <2>4. concealed' = concealed
    BY <1>2 DEF Lossless
  <2> QED BY <2>1, <2>2, <2>3, <2>4 DEF Losing
<1>3. CASE Lossy
  <2>1. lossCount' \in Nat /\ (revised > 0 \/ known <= lossCount') /\ missing' \in Nat
    BY <1>1, <1>3 DEF Lossy
  <2>2. ASSUME NEW t \in concealed PROVE t - Depth <= now' /\ t - Depth # now' - missing'
    <3>1. t \in Int /\ t - Depth <= now /\ t - Depth # now - missing
      BY DEF Losing, Timed
    <3>2. missing' = missing + 1
      BY <1>3 DEF Lossy
    <3> QED BY <1>1, <3>1, <3>2
  <2>3. LET t == now' + Depth IN t \in Int /\ t - Depth <= now' /\ t - Depth # now' - missing'
    <3>1. missing' = missing + 1
      BY <1>3 DEF Lossy
    <3> QED BY <1>1, <3>1
  <2>4. concealed' = concealed \cup {now' + Depth}
    BY <1>3 DEF Lossy
  <2>5. Timed(concealed')
    BY <2>3, <2>4 DEF Losing, Timed
  <2>6. \A t \in concealed' : t - Depth <= now' /\ t - Depth # now' - missing'
    BY <2>2, <2>3, <2>4
  <2> QED BY <1>1, <2>1, <2>5, <2>6 DEF Losing
<1> QED BY <1>2, <1>3

\* A loss is counted as soon as another packet arrives.
LEMMA FrameCounts ==
  ASSUME Losing, now \in Nat, now' = now + 1, known' = known, revised' = revised,
         Lossless \/ Lossy,
         NEW t \in concealed, Counted(t) => known < lossCount \/ revised > 0, Counted(t)'
  PROVE  known' < lossCount' \/ revised' > 0
<1>1. /\ lossCount \in Nat /\ known \in Nat /\ missing \in Nat /\ Depth \in Nat
      /\ revised \in Nat /\ (revised > 0 \/ known <= lossCount)
  BY ConstantsHold DEF Losing, Constants
<1>2. t \in Int /\ t - Depth <= now /\ t - Depth # now - missing
  BY DEF Losing, Timed
<1>3. CASE Lossless
  <2>1. lossCount' = lossCount + missing
    BY <1>3 DEF Lossless
  <2>2. CASE Counted(t)
    BY <1>1, <2>1, <2>2
  <2>3. CASE ~Counted(t)
    <3>1. missing > 0
      BY <1>1, <1>2, <2>3 DEF Counted
    <3> QED BY <1>1, <2>1, <3>1
  <2> QED BY <2>2, <2>3
<1>4. CASE Lossy
  <2>1. t - Depth < now' - missing'
    BY DEF Counted
  <2>2. missing' = missing + 1 /\ lossCount' = lossCount
    BY <1>4 DEF Lossy
  <2>3. Counted(t)
    BY <1>1, <1>2, <2>1, <2>2 DEF Counted
  <2> QED BY <2>2, <2>3
<1> QED BY <1>3, <1>4

\* Frame keeps the invariant.
LEMMA FrameStep == IInv /\ Frame => IInv'
<1> SUFFICES ASSUME IInv, Frame PROVE IInv'
  OBVIOUS
<1>1. PICK level \in Levels : s' = PullTx(ReceiveRx(s, level, now'), now')
  BY DEF Frame
<1>2. /\ now' = now + 1 /\ pc' = pc /\ at' = at /\ lastStats' = lastStats
      /\ known' = known /\ seen' = seen /\ media' = media /\ wire' = wire
      /\ sent' = sent + (IF wire THEN 1 ELSE 0) /\ s.outcome = "none"
      /\ media /\ s.answered # None /\ revised' = revised /\ overlooked' = overlooked
  BY DEF Frame, loopVars
<1>3. now > at => pc = "judge" \/ now <= at + Lag
  BY DEF Frame
<1>4. Lossless \/ Lossy
  BY DEF Frame, Lossless, Lossy
<1>5. now \in Nat /\ now = s.answered + Len(s.rx) /\ 0 <= s.answered
  BY <1>2 DEF IInv, Ticking
<1>6. s.answered \in Int /\ s.mark \in Int /\ s.scan \in Nat /\ Len(s.rx) \in Nat
      /\ s.scan <= Len(s.rx) /\ s.mark <= now
  BY DEF IInv, Sound, Numeric, Recorded, Anchored, Ticking
<1>t. /\ Lossless => Tellable' = Tellable
      /\ Lossy => Tellable' \subseteq Tellable \cup {now' + Depth}
  BY <1>2 DEF Tellable, Lossless, Lossy
<1>7. Sound(s, Tellable', wire)
  <2>1. CASE Lossless
    BY <1>t, <2>1 DEF IInv
  <2>2. CASE Lossy
    <3>1. Depth \in Nat
      BY ConstantsHold DEF Constants
    <3>2. now' + Depth \in Int /\ s.answered + Len(s.rx) < now' + Depth
      BY <1>2, <1>5, <3>1
    <3>3. Sound(s, Tellable, wire)
      BY DEF IInv
    <3>4. Sound(s, Tellable \cup {now' + Depth}, wire)
      BY <3>2, <3>3, GrowthSound
    <3> QED BY <1>t, <2>2, <3>4, FewerSound
  <2> QED BY <1>4, <2>1, <2>2
<1> DEFINE R == ReceiveRx(s, level, now')
<1>8. Sound(R, Tellable', wire) /\ Changes(s, R, {"rx"}) /\ Len(R.rx) = Len(s.rx) + 1
  <2>1. now' = s.answered + Len(s.rx) + 1 /\ s.answered >= 0
    BY <1>2, <1>5, <1>6
  <2>2. Leveled(level)
    BY DEF Leveled
  <2> QED BY <1>2, <1>7, <2>1, <2>2, ReceiveRxSound
<1> HIDE DEF R
<1>9. /\ R.answered = s.answered /\ R.scan = s.scan /\ R.mark = s.mark
      /\ R.counters = s.counters /\ R.base = s.base /\ R.next = s.next
      /\ R.pending = s.pending /\ R.voids = s.voids /\ R.outcome = "none"
  BY <1>2, <1>8 DEF Changes, Fields
<1>10. R.snapshot = s.snapshot /\ R.armed = s.armed
  BY <1>8 DEF Changes, Fields
<1>11. now' = R.answered + Len(R.rx) /\ Len(R.rx) > R.scan /\ R.mark <= now'
  BY <1>2, <1>5, <1>6, <1>8, <1>9
<1>12. Sound(s', Tellable', wire) /\ Pulled(R, s', now')
  <2>1. s' = PullTx(R, now')
    BY <1>1 DEF R
  <2> QED BY <1>8, <1>11, <2>1, PullTxSound
<1>13. /\ s'.answered = s.answered /\ s'.rx = R.rx /\ s'.scan = s.scan /\ s'.mark = s.mark
       /\ s'.counters = s.counters /\ s'.pending = s.pending /\ s'.voids = s.voids
  BY <1>9, <1>12 DEF Pulled, Changes, Fields
<1>14. s'.snapshot = s.snapshot
  BY <1>10, <1>12 DEF Pulled, Changes, Fields
<1>15. Snapped(s)' <=> Snapped(s)
  BY <1>14 DEF Snapped
<1>16. \A t : InVoid(s', t) <=> InVoid(s, t)
  BY <1>13 DEF InVoid
<1>17. Sound(s, Tellable, wire)'
  BY <1>2, <1>12
<1>18. Transmitted'
  <2>1. s.next \in Nat /\ s.counters \in Int /\ s.base \in Int
    BY DEF IInv, Sound, Numeric
  <2>2. Armed(R) => s.counters # None
    <3>1. Armed(R) => R.counters # None
      BY <1>8 DEF Sound, Delivered
    <3> QED BY <1>9, <3>1
  <2>3. Transmitted
    BY DEF IInv
  <2> QED BY <1>2, <1>9, <1>12, <1>13, <2>1, <2>2, <2>3, PulledTransmitted
<1>19. Ticking'
  <2>1. now' \in Nat /\ s'.mark <= now' /\ 0 <= s'.answered
    BY <1>2, <1>5, <1>6, <1>13
  <2>2. now' = s'.answered + Len(s'.rx) /\ s'.scan < Len(s'.rx)
    <3>1. Len(R.rx) > s.scan => s.scan < Len(R.rx)
      BY <1>6, <1>8
    <3> QED BY <1>9, <1>11, <1>13, <3>1
  <2> QED BY <1>2, <1>13, <2>1, <2>2 DEF Ticking
<1>20. Turning'
  <2>1. at \in Int /\ at <= now /\ Lag \in Nat
    BY ConstantsHold DEF IInv, Turning, Constants
  <2>2. at <= now' /\ (pc # "judge" => now' <= at + Lag + 1)
    BY <1>2, <1>3, <1>5, <2>1
  <2> QED BY <1>2, <1>13, <1>15, <2>1, <2>2 DEF IInv, Turning
<1>21. Losing'
  BY <1>2, <1>4, <1>5, FrameLosing DEF IInv
<1>22. Covered'
  <2>1. lastStats \in Nat /\ lastStats <= now /\ lastStats <= now'
    BY <1>2, <1>5 DEF IInv, Covered
  <2> SUFFICES ASSUME seen, s.pending = "none"
               PROVE  /\ s.mark <= lastStats
                      /\ \A t \in Tellable' :
                           \/ InVoid(s, t) \/ t < s.answered + Arm
                           \/ lastStats <= t /\ (Counted(t)' => known' < lossCount' \/ revised' > 0)
    BY <1>2, <1>13, <1>16, <2>1 DEF Covered
  <2>2. s.mark <= lastStats
    BY <1>2 DEF IInv, Covered
  <2>3. ASSUME NEW t \in Tellable
        PROVE  \/ InVoid(s, t) \/ t < s.answered + Arm
               \/ lastStats <= t /\ (Counted(t)' => known' < lossCount' \/ revised' > 0)
    <3>1. CASE InVoid(s, t) \/ t < s.answered + Arm
      BY <3>1
    <3>2. CASE ~(InVoid(s, t) \/ t < s.answered + Arm)
      <4>1. lastStats <= t /\ (Counted(t) => known < lossCount \/ revised > 0)
        BY <1>2, <3>2 DEF IInv, Covered
      <4>2. Losing
        BY DEF IInv
      <4>3. Counted(t)' => known' < lossCount' \/ revised' > 0
        BY <1>2, <1>4, <1>5, <4>1, <4>2, FrameCounts, TellableConcealed
      <4> QED BY <4>1, <4>3
    <3> QED BY <3>1, <3>2
  <2>4. ASSUME Lossy, NEW t, t = now' + Depth
        PROVE  lastStats <= t /\ ~Counted(t)'
    <3>1. Depth \in Nat /\ missing \in Nat
      BY ConstantsHold DEF Constants, IInv, Losing
    <3>2. missing' = missing + 1
      BY <2>4 DEF Lossy
    <3>3. lastStats <= t /\ ~(t - Depth < now' - missing')
      BY <1>2, <1>5, <2>1, <2>4, <3>1, <3>2
    <3> QED BY <3>3 DEF Counted
  <2>5. CASE Lossless
    BY <1>t, <2>2, <2>3, <2>5
  <2>6. CASE Lossy
    <3>1. Tellable' \subseteq Tellable \cup {now' + Depth}
      BY <1>t, <2>6
    <3> QED BY <2>2, <2>3, <2>4, <2>6, <3>1
  <2> QED BY <1>4, <2>5, <2>6
<1> QED BY <1>17, <1>18, <1>19, <1>20, <1>21, <1>22 DEF IInv

\* LateArrival keeps the invariant: the revision is remembered.
LEMMA LateArrivalStep == IInv /\ LateArrival => IInv'
<1> SUFFICES ASSUME IInv, LateArrival PROVE IInv'
  OBVIOUS
<1>1. /\ s' = s /\ now' = now /\ pc' = pc /\ at' = at /\ lastStats' = lastStats
      /\ known' = known /\ seen' = seen /\ missing' = missing /\ media' = media /\ wire' = wire
      /\ sent' = sent /\ overlooked' = overlooked /\ revised' = revised + 1
      /\ lossCount' = lossCount - 1 /\ lossCount > 0
  BY DEF LateArrival, loopVars
<1>2. concealed' \subseteq concealed /\ concealed # {}
  BY DEF LateArrival
<1>3. Tellable' \subseteq Tellable
  BY <1>1, <1>2 DEF Tellable
<1>4. revised \in Nat /\ revised' > 0 /\ lossCount' \in Nat /\ revised' \in Nat
  BY <1>1 DEF IInv, Losing
<1>5. Sound(s, Tellable, wire)'
  BY <1>1, <1>3, FewerSound DEF IInv
<1>6. Transmitted'
  BY <1>1 DEF IInv, Transmitted
<1>7. Ticking'
  BY <1>1, <1>2 DEF IInv, Ticking
<1>8. Turning'
  BY <1>1 DEF IInv, Turning
<1>9. Losing'
  BY <1>1, <1>2, <1>4 DEF IInv, Losing, Timed
<1>10. Covered'
  BY <1>1, <1>3, <1>4 DEF IInv, Covered
<1> QED BY <1>5, <1>6, <1>7, <1>8, <1>9, <1>10 DEF IInv

\* Judge keeps the invariant.
LEMMA JudgeStep == IInv /\ Judge => IInv'
<1> SUFFICES ASSUME IInv, Judge PROVE IInv'
  OBVIOUS
<1>1. PICK verdict \in {"echo", "no echo"} : s' = ApplyVerdict(s, verdict)
  BY DEF Judge
<1>2. /\ pc = "judge" /\ pc' = "poll" /\ now' = now /\ at' = at /\ lastStats' = lastStats
      /\ known' = known /\ seen' = seen /\ concealed' = concealed /\ missing' = missing
      /\ lossCount' = lossCount /\ media' = media /\ wire' = wire /\ sent' = sent
      /\ revised' = revised /\ Tellable' = Tellable
  BY DEF Judge, loopVars, envVars, Tellable
<1>3. Spoken(verdict)
  BY DEF Spoken
<1>4. /\ Sound(s', Tellable, wire) /\ Changes(s, s', {"outcome", "snapshot", "pending"})
      /\ s'.outcome = "none" => /\ ~Snapped(s') /\ s.outcome = "none"
                                /\ Snapped(s) => s'.pending # "none"
  BY <1>1, <1>3, ApplyVerdictSound DEF IInv
<1>5. /\ s'.answered = s.answered /\ s'.rx = s.rx /\ s'.scan = s.scan /\ s'.mark = s.mark
      /\ s'.counters = s.counters /\ s'.base = s.base /\ s'.next = s.next
      /\ s'.lastPull = s.lastPull /\ s'.voids = s.voids
  BY <1>4 DEF Changes, Fields
<1>6. s'.outcome = "none" => s'.pending # "none"
  BY <1>2, <1>4 DEF IInv, Turning
<1>7. Sound(s, Tellable, wire)'
  BY <1>2, <1>4
<1>8. Transmitted'
  BY <1>2, <1>5 DEF IInv, Transmitted
<1>9. Ticking'
  BY <1>2, <1>4, <1>5 DEF IInv, Ticking
<1>10. Turning'
  <2>1. s'.outcome = "none" => ~Snapped(s')
    BY <1>4
  <2> QED BY <1>2, <1>5, <1>6, <2>1 DEF IInv, Turning
<1>11. Losing'
  BY <1>2 DEF IInv, Losing, Timed
<1>12. Covered'
  BY <1>2, <1>6 DEF IInv, Covered
<1> QED BY <1>7, <1>8, <1>9, <1>10, <1>11, <1>12 DEF IInv

\* NoPoll keeps the invariant.
LEMMA NoPollStep == IInv /\ NoPoll => IInv'
<1> SUFFICES ASSUME IInv, NoPoll PROVE IInv'
  OBVIOUS
<1>1. /\ s' = s /\ now' = now /\ at' = at /\ lastStats' = lastStats
      /\ known' = known /\ seen' = seen /\ concealed' = concealed /\ missing' = missing
      /\ lossCount' = lossCount /\ media' = media /\ wire' = wire /\ sent' = sent
      /\ revised' = revised /\ Tellable' = Tellable
  BY DEF NoPoll, loopVars, Tellable
<1>2. pc # "judge" /\ pc' # "judge"
  BY DEF NoPoll, NextTurn
<1>3. Sound(s, Tellable, wire)'
  BY <1>1 DEF IInv
<1>4. Transmitted'
  BY <1>1 DEF IInv, Transmitted
<1>5. Ticking'
  BY <1>1 DEF IInv, Ticking
<1>6. Turning'
  BY <1>1, <1>2 DEF IInv, Turning
<1>7. Losing'
  BY <1>1 DEF IInv, Losing, Timed
<1>8. Covered'
  BY <1>1 DEF IInv, Covered, Counted
<1> QED BY <1>3, <1>4, <1>5, <1>6, <1>7, <1>8 DEF IInv

\* Polls keeps the invariant: a counted loss becomes a void before the watermark passes it.
LEMMA PollsStep == IInv /\ Polls => IInv'
<1> SUFFICES ASSUME IInv, Polls PROVE IInv'
  OBVIOUS
<1> DEFINE lost == lossCount > known
<1>1. s' = ObserveCounters(Marked(s, lost, lastStats, at + Pad, at - Pad), sent, at)
  BY DEF Polls, Marked
<1>2. /\ now' = now /\ at' = at /\ lastStats' = at /\ seen' = seen
      /\ known' = (IF lossCount > known THEN lossCount ELSE known)
      /\ concealed' = concealed /\ missing' = missing /\ lossCount' = lossCount
      /\ media' = media /\ wire' = wire /\ sent' = sent
      /\ revised' = (IF lossCount < known THEN revised ELSE 0)
  BY DEF Polls
<1>o. /\ Tellable' \subseteq Tellable
      /\ \A t \in Tellable' : Overlooks(t) => InVoid(s', t)
  <2>1. /\ overlooked' = overlooked \cup {t \in concealed : Overlooks(t) /\ ~InVoid(s', t)}
        /\ concealed' = concealed
    BY DEF Polls
  <2> QED BY <2>1 DEF Tellable
<1>3. pc # "judge" /\ pc' # "judge" /\ seen
  BY DEF Polls, NextTurn, PollDue
<1>4. at \in Int /\ at <= now /\ now \in Nat /\ lastStats \in Nat /\ sent \in Nat
  BY DEF IInv, Turning, Ticking, Covered, Transmitted
<1>5. Pad \in Nat /\ Depth \in Nat /\ Lag \in Nat /\ Depth + Lag <= Pad
  BY ConstantsHold DEF Constants
<1>6. at \in Nat
  <2>1. at - lastStats >= Poll /\ Poll \in Nat
    BY SipConstants DEF Polls, PollDue
  <2> QED BY <1>4, <2>1
<1> HIDE DEF lost
<1>s. Sound(s', Tellable, wire) /\ Polled(s, s', lost, lastStats, at + Pad, at - Pad, sent)
  <2>1. Sound(s, Tellable, wire) /\ (s.outcome = "none" => ~Snapped(s))
    BY <1>3 DEF IInv, Turning
  <2>2. Sends(s, wire, sent)
    BY DEF IInv, Transmitted, Sends
  <2>3. at + Pad \in Int /\ at - Pad \in Int /\ at - Pad <= at
    BY <1>4, <1>5
  <2> QED BY <1>1, <1>4, <2>1, <2>2, <2>3, PollSound
<1>7. /\ Sound(s', Tellable, wire)
      /\ Changes(s, s', {"outcome", "pending", "confirmed", "counters", "mark", "voids"})
      /\ s'.mark = at - Pad /\ (s'.counters = s.counters \/ s'.counters = sent)
      /\ s.voids \subseteq s'.voids
      /\ s'.outcome = "none" => /\ s.outcome = "none" /\ s'.pending = s.pending
                                /\ lost => <<lastStats, at + Pad>> \in s'.voids
  BY <1>s DEF Polled
<1>8. /\ s'.answered = s.answered /\ s'.rx = s.rx /\ s'.scan = s.scan
      /\ s'.base = s.base /\ s'.next = s.next /\ s'.lastPull = s.lastPull
  BY <1>7 DEF Changes, Fields
<1>9. s'.snapshot = s.snapshot
  BY <1>7 DEF Changes, Fields
<1>10. Snapped(s)' <=> Snapped(s)
  BY <1>9 DEF Snapped
<1>11. Sound(s, Tellable, wire)'
  BY <1>2, <1>7, <1>o, FewerSound
<1>12. Transmitted'
  <2>1. None <= sent /\ sent <= sent
    BY <1>4 DEF None
  <2>2. ~wire => sent <= 0
    BY <1>4 DEF IInv, Transmitted
  <2> QED BY <1>2, <1>7, <1>8, <2>1, <2>2 DEF IInv, Transmitted
<1>13. Ticking'
  <2>1. at - Pad <= now
    BY <1>4, <1>5
  <2> QED BY <1>2, <1>7, <1>8, <2>1 DEF IInv, Ticking
<1>14. Turning'
  BY <1>2, <1>3, <1>7, <1>8, <1>10 DEF IInv, Turning
<1>15. Losing'
  <2>1. /\ known \in Nat /\ lossCount \in Nat /\ revised \in Nat
        /\ revised > 0 \/ known <= lossCount
    BY DEF IInv, Losing
  <2>2. known' \in Nat /\ revised' \in Nat /\ (revised' > 0 \/ known' <= lossCount)
    BY <1>2, <2>1
  <2> QED BY <1>2, <2>2 DEF IInv, Losing, Timed
<1>16. Covered'
  <2> SUFFICES ASSUME s'.outcome = "none", s'.pending = "none"
               PROVE  /\ s'.mark <= at
                      /\ \A t \in Tellable' :
                           \/ InVoid(s', t) \/ t < s.answered + Arm
                           \/ at <= t /\ ~Counted(t)'
    BY <1>2, <1>4, <1>6, <1>8 DEF Covered
  <2>1. s'.mark <= at
    BY <1>4, <1>5, <1>7
  <2>2. s.outcome = "none" /\ s.pending = "none"
    BY <1>7
  <2>3. now <= at + Lag + 1
    BY <1>3, <2>2 DEF IInv, Turning
  <2>4. ASSUME NEW t \in Tellable'
        PROVE  \/ InVoid(s', t) \/ t < s.answered + Arm
               \/ at <= t /\ ~Counted(t)'
    <3>t. t \in Int /\ t - Depth <= now /\ t - Depth # now - missing /\ missing \in Nat
      BY <1>o, TellableConcealed DEF IInv, Losing, Timed
    <3>c. Counted(t)' <=> Counted(t)
      BY <1>2 DEF Counted
    <3>1. CASE InVoid(s, t)
      BY <1>7, <3>1 DEF InVoid
    <3>2. CASE t < s.answered + Arm
      BY <3>2
    <3>3. CASE lastStats <= t /\ Counted(t) /\ known < lossCount
      <4>1. <<lastStats, at + Pad>> \in s'.voids
        <5>1. lost
          <6>1. known \in Nat /\ lossCount \in Nat
            BY DEF IInv, Losing
          <6> QED BY <3>3, <6>1 DEF lost
        <5> QED BY <1>7, <5>1
      <4>2. t <= at + Pad
        BY <1>4, <1>5, <2>3, <3>t, <3>3 DEF Counted
      <4> QED BY <3>3, <4>1, <4>2 DEF InVoid
    <3>4. CASE lastStats <= t /\ Counted(t) /\ revised > 0 /\ ~(known < lossCount)
      <4>1. known \in Nat /\ lossCount \in Nat
        BY DEF IInv, Losing
      <4>2. lossCount <= known
        BY <3>4, <4>1
      <4>3. Overlooks(t)
        BY <3>4, <4>2 DEF Overlooks
      <4> QED BY <1>o, <4>3
    <3>5. CASE lastStats <= t /\ ~Counted(t)
      <4>1. CASE at <= t
        BY <3>c, <3>5, <4>1
      <4>2. CASE ~(at <= t)
        <5>1. t < at
          BY <1>4, <3>t, <4>2
        <5>2. Overlooks(t)
          BY <3>5, <5>1 DEF Overlooks
        <5> QED BY <1>o, <5>2
      <4> QED BY <4>1, <4>2
    <3>6. t \in Tellable
      BY <1>o
    <3> QED BY <1>3, <2>2, <3>1, <3>2, <3>3, <3>4, <3>5, <3>6 DEF IInv, Covered
  <2> QED BY <2>1, <2>4
<1> QED BY <1>11, <1>12, <1>13, <1>14, <1>15, <1>16 DEF IInv

\* The loop's first turn after the answer: the watermark moves up to the present.
First == s.answered # None /\ ~seen
Watched == IF First THEN [s EXCEPT !.mark = now] ELSE s

\* The answer is recent when the loop first sees it.
LEMMA FirstIsEarly ==
  ASSUME IInv, First, s.outcome = "none", pc # "judge"
  PROVE  /\ s.pending = "none" /\ now <= at + Lag + 1 /\ at <= s.answered
         /\ s.boundary = None /\ s.fixEnd = None
<1>1. s.scan = 0 /\ at <= s.answered
  BY DEF IInv, Turning, First
<1>2. s.anchor = None
  <2>1. Arm \in Nat \ {0}
    BY ConstantsHold DEF Constants
  <2>2. s.anchor # None => Arm <= s.scan
    BY DEF IInv, Sound, Anchored
  <2> QED BY <1>1, <2>1, <2>2
<1>3. s.stop = None /\ ~Armed(s)
  BY <1>2 DEF IInv, Sound, Anchored
<1>4. s.boundary = None
  BY <1>3 DEF IInv, Sound, Stimulated
<1>5. s.fixEnd = None
  BY <1>4 DEF IInv, Sound, Stimulated
<1>6. s.pending = "none"
  BY <1>3 DEF IInv, Sound, Responds
<1>7. now <= at + Lag + 1
  BY <1>6 DEF IInv, Turning
<1> QED BY <1>1, <1>4, <1>5, <1>6, <1>7

\* The session as a turn of the loop finds it, its voids to be trusted up to the watermark.
LEMMA WatchedSound ==
  ASSUME IInv, pc # "judge"
  PROVE  /\ Sound(Watched, Tellable, wire) /\ Changes(s, Watched, {"mark"})
         /\ Watched.mark = (IF First THEN now ELSE s.mark)
         /\ s.outcome = "none" => Trusted(Watched, Tellable)
<1>re. Recorded(s)
  BY DEF IInv, Sound
<1>n. s.answered \in Int /\ now \in Nat /\ at \in Int /\ s.mark \in Int
  BY DEF IInv, Ticking, Turning, Sound, Numeric
<1>k. Arm \in Nat /\ Lag \in Nat /\ Depth \in Nat /\ Depth + Lag < Arm
  BY ConstantsHold DEF Constants
<1>1. CASE First
  <2> DEFINE T == [s EXCEPT !.mark = now]
  <2>1. Watched = T
    BY <1>1 DEF Watched
  <2>2. Changes(s, T, {"mark"}) /\ T.mark = now
    BY <1>re DEF Recorded, Changes, Fields
  <2> HIDE DEF T
  <2>3. /\ T.mode = s.mode /\ T.outcome = s.outcome /\ T.answered = s.answered /\ T.rx = s.rx
        /\ T.stop = s.stop /\ T.sep = s.sep /\ T.cand = s.cand /\ T.voids = s.voids
        /\ T.boundary = s.boundary /\ T.fixEnd = s.fixEnd /\ T.counters = s.counters
        /\ T.pending = s.pending
    BY <2>2 DEF Changes, Fields
  <2>4. T.armed = s.armed /\ T.confirmed = s.confirmed /\ T.snapshot = s.snapshot
    BY <2>2 DEF Changes, Fields
  <2>5. (Armed(T) <=> Armed(s)) /\ (Confirmed(T) <=> Confirmed(s)) /\ (Snapped(T) <=> Snapped(s))
    BY <2>4 DEF Armed, Confirmed, Snapped
  <2>6. s.outcome = "none" => /\ now <= s.answered + Arm /\ s.fixEnd = None
    <3> SUFFICES ASSUME s.outcome = "none" PROVE now <= s.answered + Arm /\ s.fixEnd = None
      OBVIOUS
    <3>1. now <= at + Lag + 1 /\ at <= s.answered /\ s.fixEnd = None
      BY <1>1, FirstIsEarly
    <3> QED BY <1>n, <1>k, <3>1
  <2>7. Flagged(T)
    BY <2>3, <2>4 DEF IInv, Sound, Flagged
  <2>8. Judged(T, Tellable, wire)
    <3>1. \A from : Real(T, Tellable, from) <=> Real(s, Tellable, from)
      BY <2>3, RealFrame
    <3>2. Ready(T) <=> Ready(s)
      BY <2>3 DEF Ready
    <3>3. (Captured(T) <=> Captured(s)) /\ (Controlled(T) <=> Controlled(s))
      BY <2>3, <2>5 DEF Captured, Controlled
    <3>j. Judged(s, Tellable, wire)
      BY DEF IInv, Sound
    <3> QED BY <2>3, <2>5, <3>1, <3>2, <3>3, <3>j DEF Judged
  <2>9. Delivered(T, wire)
    <3>d. Delivered(s, wire)
      BY DEF IInv, Sound
    <3>1. T.outcome = "none" => T.mark <= T.answered + Arm /\ T.fixEnd = None
      BY <2>2, <2>3, <2>6
    <3> QED BY <2>3, <2>5, <3>d, <3>1 DEF Delivered
  <2>10. Sound(T, Tellable, wire)
    <3>1. Changes(s, T, {"outcome", "snapshot", "pending", "confirmed", "counters", "mark", "voids"})
      BY <2>2 DEF Changes
    <3>2. T.counters \in Int /\ T.mark \in Int
      BY <1>n, <2>2, <2>3 DEF IInv, Sound, Numeric
    <3>3. Sound(s, Tellable, wire)
      BY DEF IInv
    <3> QED BY <2>3, <2>5, <2>7, <2>8, <2>9, <3>1, <3>2, <3>3, ResultSound
  <2>11. s.outcome = "none" => Trusted(T, Tellable)
    <3> SUFFICES ASSUME s.outcome = "none", NEW t \in Tellable, t < T.mark
                 PROVE  t < T.answered + Arm
      BY DEF Trusted
    <3>1. t \in Int
      BY TellableConcealed DEF IInv, Losing, Timed
    <3> QED BY <1>n, <1>k, <2>2, <2>3, <2>6, <3>1
  <2> QED BY <1>1, <2>1, <2>2, <2>10, <2>11
<1>2. CASE ~First
  <2>1. Watched = s
    BY <1>2 DEF Watched
  <2>2. Changes(s, s, {"mark"})
    BY <1>re DEF Recorded, Changes
  <2>3. s.outcome = "none" => Trusted(s, Tellable)
    <3> SUFFICES ASSUME s.outcome = "none", s.pending = "none", NEW t \in Tellable, t < s.mark
                 PROVE  InVoid(s, t) \/ t < s.answered + Arm
      BY DEF Trusted
    <3>1. s.answered # None
      BY TellableConcealed DEF IInv, Ticking
    <3>2. seen
      BY <1>2, <3>1 DEF First
    <3>3. s.mark <= lastStats /\ lastStats \in Nat
      BY <3>2 DEF IInv, Covered
    <3>4. t \in Int
      BY TellableConcealed DEF IInv, Losing, Timed
    <3>5. ~(lastStats <= t)
      BY <1>n, <3>3, <3>4
    <3> QED BY <3>2, <3>5 DEF IInv, Covered
  <2>4. Sound(s, Tellable, wire)
    BY DEF IInv
  <2> QED BY <1>2, <2>1, <2>2, <2>3, <2>4
<1> QED BY <1>1, <1>2

\* Turn keeps the invariant.
LEMMA TurnStep == IInv /\ Turn => IInv'
<1> SUFFICES ASSUME IInv, Turn PROVE IInv'
  OBVIOUS
<1>1. /\ pc = "top" /\ s' = Tick(Watched, now)
      /\ seen' = (seen \/ First)
      /\ lastStats' = (IF First THEN now ELSE lastStats)
      /\ known' = (IF First THEN lossCount ELSE known)
      /\ pc' = IF s'.snapshot /\ s'.outcome = "none" THEN "judge" ELSE "poll"
  BY DEF Turn, Watched, First
<1>2. /\ at' = now /\ now' = now /\ concealed' = concealed /\ missing' = missing
      /\ lossCount' = lossCount /\ media' = media /\ wire' = wire /\ sent' = sent
      /\ revised' = revised /\ Tellable' = Tellable
  BY DEF Turn, envVars, Tellable
<1>3. pc # "judge"
  BY <1>1
<1>4. /\ Sound(Watched, Tellable, wire) /\ Changes(s, Watched, {"mark"})
      /\ Watched.mark = (IF First THEN now ELSE s.mark)
      /\ s.outcome = "none" => Trusted(Watched, Tellable)
  BY <1>3, WatchedSound
<1>5. /\ Watched.outcome = s.outcome /\ Watched.answered = s.answered /\ Watched.rx = s.rx
      /\ Watched.scan = s.scan /\ Watched.counters = s.counters /\ Watched.base = s.base
      /\ Watched.next = s.next /\ Watched.lastPull = s.lastPull /\ Watched.pending = s.pending
      /\ Watched.voids = s.voids
  BY <1>4 DEF Changes, Fields
<1>6. Watched.snapshot = s.snapshot /\ (Snapped(Watched) <=> Snapped(s))
  <2>1. Watched.snapshot = s.snapshot
    BY <1>4 DEF Changes, Fields
  <2> QED BY <2>1 DEF Snapped
<1>n. /\ now \in Nat /\ s.mark \in Int /\ s.mark <= now /\ s.answered \in Int
      /\ Len(s.rx) \in Nat /\ s.scan \in Nat
  BY DEF IInv, Ticking, Sound, Numeric, Recorded
<1>7. Watched.mark \in Int /\ Watched.mark <= now
  BY <1>4, <1>n
<1>8. s.outcome = "none" /\ s.rx # <<>> => Fresh(Watched)
  <2> SUFFICES ASSUME s.outcome = "none", s.rx # <<>> PROVE Fresh(Watched)
    OBVIOUS
  <2>1. media /\ s.answered # None
    BY DEF IInv, Ticking
  <2>2. now = s.answered + Len(s.rx)
    BY <2>1 DEF IInv, Ticking
  <2> QED BY <1>5, <1>7, <2>2 DEF Fresh
<1>9. Sound(s', Tellable, wire) /\ Kept(Watched, s')
  <2>1. Timed(Tellable)
    BY TellableConcealed DEF IInv, Losing
  <2>2. s.outcome = "none" => ~Snapped(s)
    BY <1>3 DEF IInv, Turning
  <2> QED BY <1>1, <1>4, <1>5, <1>6, <1>8, <2>1, <2>2, TickSound
<1>10. s'.outcome = "none" => s.outcome = "none"
  <2>1. Watched.outcome # "none" => s' = Watched
    BY <1>1 DEF Tick
  <2> QED BY <1>5, <2>1
<1>11. /\ s'.answered = s.answered /\ s'.mark = Watched.mark /\ s'.counters = s.counters
       /\ s'.base = s.base /\ s'.next = s.next /\ s'.lastPull = s.lastPull
       /\ s'.pending = s.pending /\ s'.voids = s.voids /\ Len(s'.rx) = Len(s.rx)
       /\ Advances(Watched, s') /\ s'.rx \in Seq(Heard)
  BY <1>5, <1>9 DEF Kept
<1>12. s.rx = <<>> => s'.rx = <<>>
  <2> SUFFICES ASSUME s.rx = <<>> PROVE s'.rx = <<>>
    OBVIOUS
  <2>1. Len(s'.rx) = 0
    BY <1>11
  <2> QED BY <1>11, <2>1
<1>13. \A t : InVoid(s', t) <=> InVoid(s, t)
  BY <1>11 DEF InVoid
<1>14. Sound(s, Tellable, wire)'
  BY <1>2, <1>9
<1>15. Transmitted'
  BY <1>2, <1>11 DEF IInv, Transmitted
<1>16. Ticking'
  <2>1. s'.scan > 0 => s'.scan < Len(s'.rx)
    <3>1. CASE s'.scan = s.scan
      BY <1>11, <3>1 DEF IInv, Ticking
    <3>2. CASE s'.scan # s.scan /\ s.outcome = "none" /\ s.rx # <<>>
      <4>1. Verdicted(Watched, s'.scan)
        BY <1>5, <1>11, <3>2 DEF Advances
      <4>2. s.answered + s'.scan < Watched.mark /\ Watched.mark <= s.answered + Len(s.rx)
        BY <1>5, <1>8, <3>2, <4>1 DEF Verdicted, Fresh
      <4>3. s'.scan \in Nat
        BY <1>9 DEF Sound, Numeric
      <4> QED BY <1>7, <1>11, <1>n, <4>2, <4>3
    <3>3. CASE s.outcome # "none"
      <4>1. s' = Watched
        BY <1>1, <1>5, <3>3 DEF Tick
      <4> QED BY <1>5, <3>1, <4>1
    <3>4. CASE s.rx = <<>>
      <4>1. s'.scan = 0
        BY <1>9, <1>12, <3>4, NothingHeard
      <4> QED BY <4>1
    <3> QED BY <3>1, <3>2, <3>3, <3>4
  <2> QED BY <1>2, <1>7, <1>10, <1>11, <1>12, <2>1 DEF IInv, Ticking
<1>17. Turning'
  <2>1. now <= now + Lag + 1
    <3>1. Lag \in Nat
      BY ConstantsHold DEF Constants
    <3> QED BY <1>n, <3>1
  <2>2. ASSUME ~seen' PROVE s'.scan = 0 /\ s'.mark = 0 /\ s'.answered = None
    <3>1. ~seen /\ s.answered = None /\ ~First
      BY <1>1, <2>2 DEF First
    <3>2. s.rx = <<>> /\ s.mark = 0
      BY <3>1 DEF IInv, Ticking, Turning
    <3>3. s'.scan = 0
      BY <1>9, <1>12, <3>2, NothingHeard
    <3> QED BY <1>4, <1>11, <3>1, <3>2, <3>3
  <2>3. s'.outcome = "none" => (Snapped(s') <=> pc' = "judge")
    BY <1>1 DEF Snapped
  <2> QED BY <1>2, <1>n, <2>1, <2>2, <2>3 DEF Turning
<1>18. Losing'
  <2>1. known \in Nat /\ lossCount \in Nat /\ lossCount <= lossCount
    BY DEF IInv, Losing
  <2> QED BY <1>1, <1>2, <2>1 DEF IInv, Losing, Timed
<1>19. Covered'
  <2>c. \A t : Counted(t)' <=> Counted(t)
    BY <1>2 DEF Counted
  <2>1. CASE First
    <3>1. lastStats' = now /\ known' = lossCount /\ s'.mark = now
      BY <1>1, <1>4, <1>11, <2>1
    <3> SUFFICES ASSUME s'.outcome = "none", NEW t \in Tellable
                 PROVE  t < s.answered + Arm \/ (now <= t /\ ~Counted(t))
      BY <1>2, <1>n, <1>11, <2>c, <3>1 DEF Covered
    <3>2. now <= at + Lag + 1 /\ at <= s.answered
      BY <1>3, <1>10, <2>1, FirstIsEarly
    <3>3. t \in Int /\ missing \in Nat
      BY TellableConcealed DEF IInv, Losing, Timed
    <3>4. Arm \in Nat /\ Lag \in Nat /\ Depth \in Nat /\ Depth + Lag < Arm /\ at \in Int
      BY ConstantsHold DEF Constants, IInv, Turning
    <3>5. CASE Counted(t)
      BY <1>n, <3>2, <3>3, <3>4, <3>5 DEF Counted
    <3>6. CASE t < now
      BY <1>n, <3>2, <3>3, <3>4, <3>6
    <3>7. CASE ~Counted(t) /\ ~(t < now)
      BY <1>n, <3>3, <3>7
    <3> QED BY <3>5, <3>6, <3>7
  <2>2. CASE ~First
    <3>1. lastStats' = lastStats /\ known' = known /\ (seen' => seen) /\ s'.mark = s.mark
      BY <1>1, <1>4, <1>11, <2>2
    <3> QED BY <1>2, <1>10, <1>11, <1>13, <2>c, <3>1 DEF IInv, Covered
  <2> QED BY <2>1, <2>2
<1> QED BY <1>14, <1>15, <1>16, <1>17, <1>18, <1>19 DEF IInv

\* So does every step.
LEMMA Step == IInv /\ [Next]_vars => IInv'
<1> SUFFICES ASSUME IInv, [Next]_vars PROVE IInv'
  OBVIOUS
<1>1. CASE UNCHANGED vars
  <2>1. /\ s' = s /\ now' = now /\ pc' = pc /\ at' = at /\ lastStats' = lastStats
        /\ known' = known /\ seen' = seen /\ concealed' = concealed /\ missing' = missing
        /\ lossCount' = lossCount /\ media' = media /\ wire' = wire /\ sent' = sent
        /\ revised' = revised /\ overlooked' = overlooked /\ Tellable' = Tellable
    BY <1>1 DEF vars, loopVars, envVars, Tellable
  <2>2. Changes(s, s', {"outcome", "teardown"}) /\ Unmoved
    BY <2>1 DEF IInv, Sound, Recorded, Changes, Unmoved
  <2> QED BY <2>1, <2>2, EndedStep DEF IInv
<1>2. CASE Next
  <2>1. CASE Ended
    BY <1>1, <2>1 DEF Ended
  <2> QED BY <1>2, <2>1, FrameStep, LateArrivalStep, BurstStep, NoMediaStep, OnAnsweredStep,
             RenegotiatedStep, OnDisconnectedStep, TurnStep, JudgeStep, PollsStep, NoPollStep DEF Next
<1> QED BY <1>1, <1>2

\* The inductive invariant holds in every reachable state, for every value of the
\* constants: however long the jitter buffer, the pad, the polls and the windows are,
\* and however many packets are lost in a row.
THEOREM Invariance == Spec => []IInv
<1>1. Init => IInv
  BY Initially
<1>2. IInv /\ [Next]_vars => IInv'
  BY Step
<1> QED BY <1>1, <1>2, PTL DEF Spec

-----------------------------------------------------------------------------
(* The theorems *)

\* What is recorded at a time is known by its number.
LEMMA FramesHeard ==
  ASSUME IInv
  PROVE  /\ s.rx \in Seq(Heard) /\ Len(s.rx) \in Nat /\ DOMAIN s.rx = 1..Len(s.rx)
         /\ s.answered \in Int
         /\ \A i \in 1..Len(s.rx) : s.rx[i].host = s.answered + i
  BY DEF IInv, Sound, Recorded, Numeric

\* A candidate that is real is not concealed between its first frame and its last.
LEMMA RealIsHeard ==
  ASSUME IInv, NEW first \in Int, first > 0, Real(s, Tellable, first)
  PROVE  ~Spans(s.rx[first].host, s.rx[Until(s, first)].host)
<1>1. first + Fixture + Search <= Len(s.rx) /\ Fixture \in Nat /\ Search \in Nat
  BY ConstantsHold DEF Constants, Real
<1>2. Until(s, first) = first + Fixture + Search
  BY <1>1 DEF Until
<1>3. first \in 1..Len(s.rx) /\ first + Fixture + Search \in 1..Len(s.rx)
  BY <1>1, FramesHeard
<1>4. /\ s.rx[first].host = s.answered + first
      /\ s.rx[Until(s, first)].host = s.answered + (first + Fixture + Search)
  BY <1>2, <1>3, FramesHeard
<1>5. s.answered + (first + Fixture + Search) = s.answered + first + Fixture + Search
  BY <1>1, FramesHeard
<1> QED BY <1>4, <1>5 DEF Real, Conceals, Spans

\* In the echo control the audio judged begins with the stimulus.
LEMMA ControlBegins ==
  ASSUME IInv, s.boundary # None,
         s.boundary - s.answered <= Len(s.rx)
  PROVE  /\ s.boundary - s.answered > 0 /\ s.boundary - s.answered \in Int
         /\ Min({i \in DOMAIN s.rx : s.rx[i].host >= s.boundary}) = s.boundary - s.answered
<1> DEFINE first == s.boundary - s.answered
           after == {i \in DOMAIN s.rx : s.rx[i].host >= s.boundary}
<1>1. s.boundary \in Int /\ s.answered \in Int /\ Arm \in Nat /\ s.answered + Arm < s.boundary
  BY ConstantsHold DEF Constants, IInv, Sound, Numeric, Stimulated
<1>2. first \in Int /\ first > 0 /\ first \in 1..Len(s.rx)
  BY <1>1, FramesHeard
<1>3. \A i \in 1..Len(s.rx) : s.rx[i].host >= s.boundary <=> i >= first
  BY <1>1, FramesHeard
<1>4. after = first..Len(s.rx)
  BY <1>2, <1>3, FramesHeard
<1>5. Min(after) = first
  <2>1. first \in after /\ \A j \in after : first <= j
    BY <1>2, <1>4, FramesHeard
  <2>2. \A x \in after : (\A j \in after : x <= j) => x = first
    BY <1>2, <1>4, <2>1, FramesHeard
  <2> QED BY <2>1, <2>2 DEF Min
<1> QED BY <1>2, <1>5

\* The silence certified is heard.
LEMMA SilenceHolds == IInv => SilenceIsReal
<1> SUFFICES ASSUME IInv PROVE SilenceIsReal
  OBVIOUS
<1>1. ASSUME s.stop # None, NEW i \in DOMAIN s.rx, s.rx[i].host = s.stop
      PROVE  ~Spans(s.stop, s.rx[i + Hold - 1].host)
  <2>1. /\ s.stop + Hold - 1 <= s.answered + s.scan /\ s.scan <= Len(s.rx)
        /\ ~Conceals(Tellable, s.stop, s.stop + Hold - 1)
    BY <1>1 DEF IInv, Sound, Silent, Stopped, Anchored
  <2>2. i \in 1..Len(s.rx) /\ s.stop = s.answered + i /\ s.scan \in Nat
        /\ Hold \in Nat \ {0}
    BY <1>1, FramesHeard, ConstantsHold DEF Constants, IInv, Sound, Numeric
  <2>3. i + Hold - 1 \in 1..Len(s.rx)
    <3>1. s.stop + Hold - 1 <= s.answered + Len(s.rx) /\ Len(s.rx) \in Nat /\ s.answered \in Int
      BY <2>1, <2>2, FramesHeard
    <3>2. i + Hold - 1 <= Len(s.rx) /\ i \in Nat /\ i >= 1
      BY <2>2, <3>1
    <3> QED BY <2>2, <3>1, <3>2
  <2>4. s.rx[i + Hold - 1].host = s.stop + Hold - 1
    <3>1. s.rx[i + Hold - 1].host = s.answered + (i + Hold - 1)
      BY <2>3, FramesHeard
    <3>2. i \in Nat /\ s.answered \in Int
      BY <2>2, FramesHeard
    <3> QED BY <2>2, <3>1, <3>2
  <2> QED BY <2>1, <2>4 DEF Spans, Conceals
<1>2. s.sep # None => ~Spans(s.sep - Sep, s.sep)
  BY DEF IInv, Sound, Silent, Separated, Spans, Conceals
<1> QED BY <1>1, <1>2 DEF SilenceIsReal

\* So is what is judged.
LEMMA JudgedHolds == IInv => JudgedIsReal
<1> SUFFICES ASSUME IInv PROVE JudgedIsReal
  OBVIOUS
<1>1. ASSUME Captured(s) PROVE ~Spans(s.rx[s.cand].host, s.rx[Until(s, s.cand)].host)
  <2>1. s.cand # 0 /\ Real(s, Tellable, s.cand) /\ s.cand \in Nat
    BY <1>1 DEF IInv, Sound, Judged, Numeric
  <2> QED BY <2>1, RealIsHeard
<1>2. ASSUME s.outcome = "control echo"
      PROVE  LET first == Min({i \in DOMAIN s.rx : s.rx[i].host >= s.boundary})
             IN ~Spans(s.rx[first].host, s.rx[Until(s, first)].host)
  <2>1. s.boundary # None /\ Real(s, Tellable, s.boundary - s.answered)
    BY <1>2 DEF IInv, Sound, Judged, Controlled
  <2>2. s.boundary - s.answered <= Len(s.rx)
    <3>1. /\ s.boundary - s.answered + Fixture + Search <= Len(s.rx)
          /\ Fixture \in Nat /\ Search \in Nat
      BY <2>1, ConstantsHold DEF Constants, Real
    <3>2. s.boundary \in Int /\ s.answered \in Int /\ Len(s.rx) \in Nat
      BY DEF IInv, Sound, Numeric, Recorded
    <3> QED BY <3>1, <3>2
  <2> QED BY <2>1, <2>2, ControlBegins, RealIsHeard
<1> QED BY <1>1, <1>2 DEF JudgedIsReal, Captured

\* A complete measurement is in order, transmitted and undisturbed.
LEMMA CompleteHolds == IInv => CompleteIsSound
<1> SUFFICES ASSUME IInv, Captured(s)
             PROVE  /\ s.anchor < s.stop /\ s.fixEnd <= s.sep - Sep /\ s.rx[s.cand].host >= s.sep
                    /\ wire
                    /\ s.mode = "measurement" =>
                         /\ s.stop < s.boundary
                         /\ \A i \in DOMAIN s.rx :
                              s.boundary <= s.rx[i].host /\ s.rx[i].host < s.fixEnd =>
                                s.rx[i].level # "active" \/ InVoid(s, s.rx[i].host)
  BY DEF CompleteIsSound, Captured
<1>1. Ready(s) /\ s.cand # 0 /\ Confirmed(s)
  BY DEF IInv, Sound, Judged
<1>2. s.stop # None /\ s.sep # None
  BY <1>1 DEF Ready
<1>3. s.anchor < s.stop /\ s.fixEnd # None /\ s.fixEnd <= s.sep - Sep
  BY <1>2 DEF IInv, Sound, Silent, Stopped, Separated
<1>4. wire
  BY <1>1 DEF IInv, Sound, Delivered
<1>5. /\ s.cand \in 1..Len(s.rx) /\ s.cand <= s.scan /\ s.scan <= Len(s.rx)
      /\ s.scan \in Nat /\ s.sep <= s.answered + s.cand
  <2>1. s.cand \in Nat /\ s.scan \in Nat /\ Len(s.rx) \in Nat
    BY FramesHeard DEF IInv, Sound, Numeric
  <2>2. s.cand <= s.scan /\ s.sep <= s.answered + s.cand
    BY <1>1 DEF IInv, Sound, Responds
  <2>3. s.scan <= Len(s.rx)
    BY DEF IInv, Sound, Anchored
  <2> QED BY <1>1, <2>1, <2>2, <2>3
<1>6. s.rx[s.cand].host >= s.sep
  BY <1>5, FramesHeard DEF IInv, Sound, Numeric
<1>7. ASSUME s.mode = "measurement" PROVE s.boundary # None /\ s.stop < s.boundary
  BY <1>3, <1>7 DEF IInv, Sound, Stimulated
<1>8. ASSUME s.mode = "measurement", NEW i \in DOMAIN s.rx,
             s.boundary <= s.rx[i].host, s.rx[i].host < s.fixEnd
      PROVE  s.rx[i].level # "active" \/ InVoid(s, s.rx[i].host)
  <2>1. i \in 1..Len(s.rx) /\ s.rx[i].host = s.answered + i
    BY <1>8, FramesHeard
  <2>2. Over(s, i)
    BY <1>8, <2>1 DEF Over
  <2>3. i \in 1..s.scan
    <3>1. s.fixEnd \in Int /\ s.sep \in Int /\ s.answered \in Int /\ Sep \in Nat
      BY ConstantsHold DEF Constants, IInv, Sound, Numeric
    <3> QED BY <1>3, <1>5, <1>8, <2>1, <3>1
  <2>4. s.outcome # "stimulus_overlap"
    BY DEF Captured
  <2>5. Heeded(s, i)
    BY <1>7, <1>8, <2>2, <2>3, <2>4 DEF IInv, Sound, Undisturbed
  <2> QED BY <2>1, <2>5 DEF Heeded
<1> QED BY <1>3, <1>4, <1>6, <1>7, <1>8

\* The silence that is certified as the agent's, the hold of the natural stop and
\* the separating silence, has no concealed audio in it but what no poll could tell of.
THEOREM SilenceIsHeard == Spec => []SilenceIsReal
  BY Invariance, SilenceHolds, PTL

\* Nor has the audio that the verdict is about.
THEOREM JudgedIsHeard == Spec => []JudgedIsReal
  BY Invariance, JudgedHolds, PTL

\* A complete measurement has its windows in order, its stimulus transmitted and
\* no speech of the agent heard over it.
THEOREM CompleteMeasurementIsSound == Spec => []CompleteIsSound
  BY Invariance, CompleteHolds, PTL

\* What the polls overlook is bounded: only a run of lost packets longer than the
\* jitter buffer and one frame, which no count has shown yet, or a count that was
\* revised downward lets a poll pass concealed audio by.
THEOREM OverlooksOnlyLongRuns ==
  Spec => [][overlooked' # overlooked => missing > Depth + 1 \/ revised > 0]_vars
<1>1. ASSUME IInv, [Next]_vars, overlooked' # overlooked
      PROVE  missing > Depth + 1 \/ revised > 0
  <2>1. CASE Polls
    <3>1. PICK t \in concealed : Overlooks(t)
      BY <1>1, <2>1 DEF Polls
    <3>2. CASE Counted(t)
      BY <3>1, <3>2 DEF Overlooks
    <3>3. CASE ~Counted(t)
      <4>1. t < at
        BY <3>1, <3>3 DEF Overlooks
      <4>2. /\ t \in Int /\ t - Depth # now - missing /\ missing \in Nat
            /\ at \in Int /\ at <= now /\ now \in Nat
        BY <1>1 DEF IInv, Losing, Timed, Turning, Ticking
      <4>3. Depth \in Nat
        BY ConstantsHold DEF Constants
      <4> QED BY <3>3, <4>1, <4>2, <4>3 DEF Counted
    <3> QED BY <3>2, <3>3
  <2>2. CASE ~Polls
    BY <1>1, <2>2 DEF Next, Frame, LateArrival, Burst, NoMedia, OnAnswered, Renegotiated,
                      OnDisconnected, Turn, Judge, NoPoll, Ended, vars, envVars
  <2> QED BY <2>1, <2>2
<1>2. Spec => []IInv
  BY Invariance
<1> QED BY <1>1, <1>2, PTL DEF Spec
=============================================================================
