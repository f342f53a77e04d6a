------------------------- MODULE MediaStreamProofs -------------------------
(***************************************************************************)
(* Proofs about MediaStream, for every lead and every bound.               *)
(***************************************************************************)
EXTENDS MediaStream, TLAPS

\* A queue item can go out on the socket.
LEMMA ItemIsMessage == Item \subseteq Message
  BY DEF Item, Message, Kinds

\* What a put leaves behind, whether it completes or blocks, is well typed.
LEMMA PutTypes ==
  ASSUME TypeOK, NEW item \in Item, Put(item)
  PROVE  /\ out' \in Seq(Item) /\ Len(out') \in 0..LeadFrames
         /\ prod' \in {"idle", "speak", "put"}
         /\ sent' \in Nat /\ pend' \in Item
<1> USE LeadFramesAssumption DEF LeadFramesAssumption, TypeOK, Put
<1>1. CASE Len(out) < LeadFrames
  <2>1. out' = Append(out, item)
    BY <1>1
  <2>2. out' \in Seq(Item) /\ Len(out') = Len(out) + 1
    BY <2>1
  <2>3. item.n \in Nat
    BY DEF Item
  <2> QED
    BY <1>1, <2>1, <2>2, <2>3
<1>2. CASE ~(Len(out) < LeadFrames)
  BY <1>2
<1> QED
  BY <1>1, <1>2

\* Taking the head of the queue leaves a well-typed queue.
LEMMA TakeTypes ==
  ASSUME TypeOK, out # <<>>
  PROVE  /\ Head(out) \in Item
         /\ Tail(out) \in Seq(Item) /\ Len(Tail(out)) \in 0..LeadFrames
BY LeadFramesAssumption DEF LeadFramesAssumption, TypeOK

\* The counters stay well typed when an item goes out.
LEMMA StarveTypes ==
  ASSUME TypeOK, PacerSends
  PROVE  starve' \in Counters
<1> DEFINE s == StarveAt(Head(out))
<1>1. Head(out) \in Item
  BY TakeTypes DEF PacerSends
<1>2. s \in Counters
  BY <1>1 DEF TypeOK, StarveAt, Item, NoStarve, Counters
<1>3. s.starved \in Nat /\ s.awaiting \in BOOLEAN
  BY <1>2 DEF Counters
<1>4. CASE Head(out).kind = "audio"
  <2>1. starve' = [s EXCEPT !.awaiting = FALSE,
                            !.starved = IF s.awaiting THEN @ + 1 ELSE @]
    BY <1>4 DEF PacerSends
  <2>2. (IF s.awaiting THEN s.starved + 1 ELSE s.starved) \in Nat
    BY <1>3
  <2> QED
    BY <1>2, <2>1, <2>2 DEF Counters
<1>5. CASE Head(out).kind # "audio"
  <2>1. starve' = [s EXCEPT !.prevAudio = FALSE, !.awaiting = FALSE, !.starved = 0]
    BY <1>5 DEF PacerSends
  <2> QED
    BY <1>2, <2>1 DEF Counters
<1> QED
  BY <1>4, <1>5

LEMMA InitTypes == Init => TypeOK
<1> SUFFICES ASSUME Init PROVE TypeOK
  OBVIOUS
<1>1. closed \in BOOLEAN
  BY Zenon DEF Init
<1>2. /\ out \in Seq(Item) /\ Len(out) \in 0..LeadFrames
      /\ wire \in Seq(Message)
      /\ starve \in Counters
      /\ pend \in Item
  BY LeadFramesAssumption
     DEF LeadFramesAssumption, Init, Item, Message, Kinds, Counters, NoStarve, NoItem
<1>3. result \in [old : Nat, new : Nat, outcome : {"none", "completed", "failed"}]
  BY DEF Init
<1>4. /\ epoch \in Nat /\ utt \in Nat /\ uttEpoch \in Nat /\ sent \in Nat
      /\ flushing \subseteq Nat /\ flushes \in Nat /\ errors \in Nat
      /\ pacer \in {"sleep", "get", "audio", "mark", "stopped"}
      /\ prod \in {"idle", "speak", "put"}
  BY DEF Init
<1> QED
  BY <1>1, <1>2, <1>3, <1>4 DEF TypeOK

LEMMA StepTypes == TypeOK /\ [Next]_vars => TypeOK'
<1> SUFFICES ASSUME TypeOK, [Next]_vars PROVE TypeOK'
  OBVIOUS
<1> USE DEF pacerVars, producerVars, flushVars
<1>1. CASE BeginUtterance
  BY <1>1 DEF BeginUtterance, TypeOK
<1>2. CASE SendAudioFrame
  <2> DEFINE item == [kind |-> "audio", epoch |-> uttEpoch, utt |-> utt, n |-> sent + 1]
  <2>1. item \in Item
    BY DEF TypeOK, Item, Kinds
  <2>2. CASE Refused
    BY <1>2, <2>2 DEF SendAudioFrame, TypeOK
  <2>3. CASE ~Refused
    <3>1. Put(item)
      BY <1>2, <2>3 DEF SendAudioFrame
    <3> QED
      BY <1>2, <2>1, <3>1, PutTypes DEF SendAudioFrame, TypeOK
  <2> QED
    BY <2>2, <2>3
<1>3. CASE SendMark
  <2> DEFINE item == [kind |-> "mark", epoch |-> uttEpoch, utt |-> utt, n |-> sent]
  <2>1. item \in Item
    BY DEF TypeOK, Item, Kinds
  <2>2. CASE Refused
    BY <1>3, <2>2 DEF SendMark, TypeOK
  <2>3. CASE ~Refused
    <3>1. Put(item)
      BY <1>3, <2>3 DEF SendMark
    <3> QED
      BY <1>3, <2>1, <3>1, PutTypes DEF SendMark, TypeOK
  <2> QED
    BY <2>2, <2>3
<1>4. CASE PutWakes
  <2>1. pend \in Item
    BY DEF TypeOK
  <2> QED
    BY <1>4, <2>1, PutTypes DEF PutWakes, TypeOK
<1>5. CASE Abandon
  BY <1>5 DEF Abandon, TypeOK
<1>6. CASE PacerBlocks
  BY <1>6 DEF PacerBlocks, TypeOK, Counters
<1>7. CASE PacerDiscards
  <2>1. starve' \in Counters
    BY <1>7 DEF PacerDiscards, TypeOK, Counters
  <2> QED
    BY <1>7, <2>1, TakeTypes DEF PacerDiscards, TypeOK
<1>8. CASE PacerSends
  <2>1. Head(out) \in Item /\ Tail(out) \in Seq(Item) /\ Len(Tail(out)) \in 0..LeadFrames
    BY <1>8, TakeTypes DEF PacerSends
  <2>2. wire' \in Seq(Message)
    BY <1>8, <2>1, ItemIsMessage DEF PacerSends, TypeOK
  <2>3. pacer' \in {"audio", "mark"}
    BY <1>8, <2>1 DEF PacerSends, Item, Kinds
  <2> QED
    BY <1>8, <2>1, <2>2, <2>3, StarveTypes DEF PacerSends, TypeOK
<1>9. CASE PacerSent
  BY <1>9 DEF PacerSent, TypeOK, Counters
<1>10. CASE PacerFails
  BY <1>10, LeadFramesAssumption DEF LeadFramesAssumption, PacerFails, TypeOK
<1>11. CASE FlushStarts
  <2>1. Clear(epoch + 1) \in Message
    BY DEF Clear, Message, TypeOK
  <2>2. wire' \in Seq(Message)
    BY <1>11, <2>1 DEF FlushStarts, TypeOK
  <2> QED
    BY <1>11, <2>2, LeadFramesAssumption DEF LeadFramesAssumption, FlushStarts, TypeOK
<1>12. CASE FlushReturns
  BY <1>12 DEF FlushReturns, TypeOK
<1>13. CASE FlushCancelled
  BY <1>13 DEF FlushCancelled, TypeOK
<1>14. CASE Aclose
  BY <1>14, LeadFramesAssumption DEF LeadFramesAssumption, Aclose, TypeOK
<1>15. CASE UNCHANGED vars
  BY <1>15 DEF vars, TypeOK
<1> QED
  BY <1>1, <1>2, <1>3, <1>4, <1>5, <1>6, <1>7, <1>8, <1>9, <1>10, <1>11, <1>12,
     <1>13, <1>14, <1>15 DEF Next

\* The type invariant holds of the outbound stream.
THEOREM TypeCorrect == Spec => []TypeOK
  BY InitTypes, StepTypes, PTL DEF Spec

----------------------------------------------------------------------------
(* Silence after a clear                                                   *)

\* Inductive: nothing on the wire is newer than the current epoch, and the
\* epochs on the wire never go back.
SilenceInv ==
  /\ TypeOK
  /\ \A i \in DOMAIN wire : wire[i].epoch <= epoch
  /\ SilentAfterClear

LEMMA SilenceStep == SilenceInv /\ [Next]_vars => SilenceInv'
<1> SUFFICES ASSUME SilenceInv, [Next]_vars PROVE SilenceInv'
  OBVIOUS
<1>0. TypeOK /\ TypeOK'
  BY StepTypes DEF SilenceInv
<1>a. wire \in Seq(Message) /\ epoch \in Nat /\ epoch' \in Nat
  BY <1>0 DEF TypeOK
<1>b. \A m \in Message : m.epoch \in Nat
  BY DEF Message
<1>c. \A i \in DOMAIN wire : wire[i].epoch \in Nat /\ wire[i].epoch <= epoch
  <2> SUFFICES ASSUME NEW i \in DOMAIN wire PROVE wire[i].epoch \in Nat
    BY DEF SilenceInv
  <2>1. wire[i] \in Message
    BY <1>a
  <2> QED
    BY <1>b, <2>1
\* A step that leaves the wire alone does not lower the epoch.
<1>1. ASSUME wire' = wire, epoch' \in {epoch, epoch + 1} PROVE SilenceInv'
  <2>1. SilentAfterClear'
    BY <1>1 DEF SilenceInv, SilentAfterClear
  <2>3. \A i \in DOMAIN wire' : wire'[i].epoch <= epoch'
    BY <1>a, <1>c, <1>1
  <2> QED
    BY <1>0, <2>1, <2>3 DEF SilenceInv
\* A step that writes a message of the epoch it ends in.
<1>2. ASSUME NEW m \in Message, wire' = Append(wire, m), m.epoch = epoch',
             epoch <= epoch'
      PROVE  SilenceInv'
  <2>1. \A i \in DOMAIN wire : wire[i].epoch \in Nat /\ wire[i].epoch <= epoch'
    BY <1>a, <1>c, <1>2
  <2>2. /\ DOMAIN wire' = 1..(Len(wire) + 1)
        /\ DOMAIN wire = 1..Len(wire)
        /\ \A i \in DOMAIN wire : wire'[i] = wire[i]
        /\ wire'[Len(wire) + 1] = m
    BY <1>a, <1>2
  <2>3. \A i \in DOMAIN wire' : wire'[i].epoch <= epoch'
    BY <1>a, <1>2, <2>1, <2>2
  <2>4. ASSUME NEW i \in DOMAIN wire', NEW j \in DOMAIN wire', i < j
        PROVE  wire'[i].epoch <= wire'[j].epoch
    <3>0. Len(wire) \in Nat /\ i \in 1..(Len(wire) + 1) /\ j \in 1..(Len(wire) + 1)
      BY <1>a, <2>2
    <3>1. i \in DOMAIN wire
      BY <2>2, <2>4, <3>0
    <3>2. CASE j \in DOMAIN wire
      BY <2>2, <2>4, <3>1, <3>2 DEF SilenceInv, SilentAfterClear
    <3>3. CASE j = Len(wire) + 1
      BY <1>2, <2>1, <2>2, <3>1, <3>3
    <3> QED
      BY <2>2, <3>0, <3>2, <3>3
  <2> QED
    BY <1>0, <2>3, <2>4 DEF SilenceInv, SilentAfterClear
<1>3. CASE PacerSends
  <2>1. Head(out) \in Message /\ Head(out).epoch = epoch
    BY <1>0, <1>3, TakeTypes, ItemIsMessage DEF PacerSends, Stale
  <2>2. wire' = Append(wire, Head(out)) /\ epoch' = epoch /\ epoch <= epoch'
    BY <1>a, <1>3 DEF PacerSends
  <2> QED
    BY <1>2, <2>1, <2>2
<1>4. CASE FlushStarts
  <2>1. Clear(epoch + 1) \in Message /\ Clear(epoch + 1).epoch = epoch + 1
    BY <1>0 DEF Clear, Message, TypeOK
  <2>2. wire' = Append(wire, Clear(epoch + 1)) /\ epoch' = epoch + 1 /\ epoch <= epoch'
    BY <1>a, <1>4 DEF FlushStarts
  <2> QED
    BY <1>2, <2>1, <2>2
<1>5. CASE PacerFails \/ Aclose
  BY <1>1, <1>5 DEF PacerFails, Aclose
<1>6. CASE \/ BeginUtterance \/ SendAudioFrame \/ SendMark \/ PutWakes \/ Abandon
           \/ PacerBlocks \/ PacerDiscards \/ PacerSent \/ FlushReturns
           \/ FlushCancelled \/ UNCHANGED vars
  <2>1. wire' = wire /\ epoch' = epoch
    BY <1>6 DEF BeginUtterance, SendAudioFrame, SendMark, PutWakes, Abandon,
         PacerBlocks, PacerDiscards, PacerSent, FlushReturns, FlushCancelled, vars
  <2> QED
    BY <1>1, <2>1
<1> QED
  BY <1>3, <1>4, <1>5, <1>6 DEF Next

\* After the clear of a barge-in no frame or mark of an older epoch reaches the
\* socket, for any lead, any number of utterances, frames and flushes.
THEOREM Silence == Spec => []SilentAfterClear
<1>1. Init => SilenceInv
  BY InitTypes DEF Init, SilenceInv, SilentAfterClear
<1>2. SilenceInv => SilentAfterClear
  BY DEF SilenceInv
<1> QED
  BY <1>1, <1>2, SilenceStep, PTL DEF Spec

----------------------------------------------------------------------------
(* Closing is final                                                        *)

\* Inductive: a closed stream has no pacer.
ClosedInv == TypeOK /\ (closed => pacer = "stopped")

LEMMA ClosedStep == ClosedInv /\ [Next]_vars => ClosedInv'
<1> SUFFICES ASSUME ClosedInv, [Next]_vars PROVE (closed => pacer = "stopped")'
  BY StepTypes DEF ClosedInv
<1> USE DEF ClosedInv, pacerVars
<1>1. CASE PacerBlocks \/ PacerDiscards \/ PacerSends \/ PacerSent
  BY <1>1 DEF PacerBlocks, PacerDiscards, PacerSends, PacerSent
<1>2. CASE PacerFails \/ Aclose
  BY <1>2 DEF PacerFails, Aclose
<1>3. CASE \/ BeginUtterance \/ SendAudioFrame \/ SendMark \/ PutWakes \/ Abandon
           \/ FlushStarts \/ FlushReturns \/ FlushCancelled \/ UNCHANGED vars
  BY <1>3 DEF BeginUtterance, SendAudioFrame, SendMark, PutWakes, Abandon,
       FlushStarts, FlushReturns, FlushCancelled, vars
<1> QED
  BY <1>1, <1>2, <1>3 DEF Next

\* A closed stream never reopens, and only a clear can still reach its socket.
THEOREM ClosedForGood == Spec => ClosedIsFinal
<1>1. Init => ClosedInv
  BY InitTypes DEF Init, ClosedInv
<1>2. ClosedInv /\ [Next]_vars
        => [closed => closed' /\ (wire' = wire \/ Last(wire').kind = "clear")]_vars
  <2> SUFFICES ASSUME ClosedInv, [Next]_vars, closed
               PROVE  closed' /\ (wire' = wire \/ Last(wire').kind = "clear")
    BY DEF ClosedInv
  <2>1. pacer = "stopped"
    BY DEF ClosedInv
  <2>2. CASE FlushStarts
    <3>1. wire' = Append(wire, Clear(epoch + 1)) /\ closed'
      BY <2>2 DEF FlushStarts
    <3>2. Last(wire') = Clear(epoch + 1)
      BY <3>1 DEF Last, ClosedInv, TypeOK
    <3> QED
      BY <3>1, <3>2 DEF Clear
  <2>3. CASE PacerBlocks \/ PacerDiscards \/ PacerSends \/ PacerSent \/ PacerFails \/ Aclose
    BY <2>1, <2>3 DEF PacerBlocks, PacerDiscards, PacerSends, PacerSent, PacerFails,
         Aclose
  <2>4. CASE \/ BeginUtterance \/ SendAudioFrame \/ SendMark \/ PutWakes \/ Abandon
             \/ FlushReturns \/ FlushCancelled \/ UNCHANGED vars
    BY <2>4 DEF BeginUtterance, SendAudioFrame, SendMark, PutWakes, Abandon,
         FlushReturns, FlushCancelled, vars
  <2> QED
    BY <2>2, <2>3, <2>4 DEF Next
<1> QED
  BY <1>1, <1>2, ClosedStep, PTL DEF Spec, ClosedIsFinal

----------------------------------------------------------------------------
(* At most one stale item                                                  *)

\* Inductive: a blocked producer is the only source of a stale item, so while
\* one is queued nothing stale is being put.
StaleInv ==
  /\ TypeOK
  /\ prod = "put" => pend.epoch = uttEpoch
  /\ prod = "put" /\ (\E i \in DOMAIN out : out[i].epoch # epoch) => pend.epoch = epoch
  /\ AtMostOneStale

\* A queue that is unchanged, or lost its head, has no stale item it had not.
LEMMA StaleKept ==
  ASSUME StaleInv, TypeOK', epoch' = epoch, uttEpoch' = uttEpoch,
         out' = out \/ (out # <<>> /\ out' = Tail(out)),
         prod' = "put" => prod = "put" /\ pend' = pend
  PROVE  StaleInv'
<1>1. \E d \in {0, 1} : \A i \in DOMAIN out' : i + d \in DOMAIN out /\ out'[i] = out[i + d]
  <2>0. out \in Seq(Item)
    BY DEF StaleInv, TypeOK
  <2>1. CASE out' = out
    BY <2>0, <2>1
  <2>2. CASE out # <<>> /\ out' = Tail(out)
    BY <2>0, <2>2
  <2> QED
    BY <2>1, <2>2
<1>2. PICK d \in {0, 1} : \A i \in DOMAIN out' : i + d \in DOMAIN out /\ out'[i] = out[i + d]
  BY <1>1
<1>3. AtMostOneStale'
  <2> SUFFICES ASSUME NEW i \in DOMAIN out', NEW j \in DOMAIN out',
                      out'[i].epoch # epoch, out'[j].epoch # epoch
               PROVE  i = j
    BY DEF AtMostOneStale
  <2>1. i + d = j + d
    BY <1>2 DEF StaleInv, AtMostOneStale
  <2>2. i \in Int /\ j \in Int
    <3>1. out' \in Seq(Item)
      BY DEF TypeOK
    <3> QED
      BY <3>1
  <2> QED
    BY <2>1, <2>2
<1>4. (\E i \in DOMAIN out' : out'[i].epoch # epoch) => \E i \in DOMAIN out : out[i].epoch # epoch
  BY <1>2
<1> QED
  BY <1>3, <1>4 DEF StaleInv

\* Nothing is stale in an empty queue.
LEMMA StaleDrained == ASSUME TypeOK', out' = <<>>, prod' = prod, pend' = pend,
                             uttEpoch' = uttEpoch, StaleInv
                      PROVE  StaleInv'
  BY DEF StaleInv, AtMostOneStale

\* A put of an item that is live, or that is put into a queue without a stale
\* item, keeps the invariant.
LEMMA StalePut ==
  ASSUME StaleInv, TypeOK', NEW item \in Item, Put(item), item.epoch = uttEpoch,
         epoch' = epoch, uttEpoch' = uttEpoch,
         \/ item.epoch = epoch
         \/ Len(out) < LeadFrames /\ \A i \in DOMAIN out : out[i].epoch = epoch
  PROVE  StaleInv'
<1>0. out \in Seq(Item)
  BY DEF StaleInv, TypeOK
<1>1. CASE Len(out) < LeadFrames
  <2>1. out' = Append(out, item) /\ prod' # "put"
    BY <1>1 DEF Put
  <2>2. /\ DOMAIN out' = 1..(Len(out) + 1) /\ DOMAIN out = 1..Len(out) /\ Len(out) \in Nat
        /\ \A i \in DOMAIN out : out'[i] = out[i]
        /\ out'[Len(out) + 1] = item
    BY <1>0, <2>1
  <2>3. AtMostOneStale'
    <3> SUFFICES ASSUME NEW i \in DOMAIN out', NEW j \in DOMAIN out',
                        out'[i].epoch # epoch, out'[j].epoch # epoch
                 PROVE  i = j
      BY DEF AtMostOneStale
    <3>1. CASE item.epoch = epoch
      <4>1. i \in DOMAIN out /\ j \in DOMAIN out
        BY <2>2, <3>1
      <4> QED
        BY <2>2, <4>1 DEF StaleInv, AtMostOneStale
    <3>2. CASE \A k \in DOMAIN out : out[k].epoch = epoch
      <4>1. i = Len(out) + 1 /\ j = Len(out) + 1
        BY <2>2, <3>2
      <4> QED
        BY <4>1
    <3> QED
      BY <3>1, <3>2
  <2> QED
    BY <2>1, <2>3 DEF StaleInv
<1>2. CASE ~(Len(out) < LeadFrames)
  <2>1. out' = out /\ pend' = item /\ item.epoch = epoch
    BY <1>2 DEF Put
  <2> QED
    BY <2>1 DEF StaleInv, AtMostOneStale
<1> QED
  BY <1>1, <1>2

LEMMA StaleStep == StaleInv /\ [Next]_vars => StaleInv'
<1> SUFFICES ASSUME StaleInv, [Next]_vars PROVE StaleInv'
  OBVIOUS
<1>0. TypeOK /\ TypeOK'
  BY StepTypes DEF StaleInv
<1> USE DEF pacerVars, producerVars, flushVars
<1>1. CASE BeginUtterance
  BY <1>0, <1>1 DEF BeginUtterance, StaleInv, AtMostOneStale
<1>2. CASE SendAudioFrame
  <2> DEFINE item == [kind |-> "audio", epoch |-> uttEpoch, utt |-> utt, n |-> sent + 1]
  <2>1. item \in Item /\ item.epoch = uttEpoch
    BY <1>0 DEF TypeOK, Item, Kinds
  <2>2. CASE Refused
    BY <1>0, <1>2, <2>2, StaleKept DEF SendAudioFrame
  <2>3. CASE ~Refused
    <3>1. Put(item) /\ uttEpoch = epoch
      BY <1>2, <2>3 DEF SendAudioFrame, Refused
    <3> QED
      BY <1>0, <1>2, <2>1, <3>1, StalePut DEF SendAudioFrame
  <2> QED
    BY <2>2, <2>3
<1>3. CASE SendMark
  <2> DEFINE item == [kind |-> "mark", epoch |-> uttEpoch, utt |-> utt, n |-> sent]
  <2>1. item \in Item /\ item.epoch = uttEpoch
    BY <1>0 DEF TypeOK, Item, Kinds
  <2>2. CASE Refused
    BY <1>0, <1>3, <2>2, StaleKept DEF SendMark
  <2>3. CASE ~Refused
    <3>1. Put(item) /\ uttEpoch = epoch
      BY <1>3, <2>3 DEF SendMark, Refused
    <3> QED
      BY <1>0, <1>3, <2>1, <3>1, StalePut DEF SendMark
  <2> QED
    BY <2>2, <2>3
<1>4. CASE PutWakes
  <2>1. pend \in Item /\ Put(pend) /\ pend.epoch = uttEpoch
    BY <1>0, <1>4 DEF PutWakes, TypeOK, StaleInv
  <2>2. \/ pend.epoch = epoch
        \/ Len(out) < LeadFrames /\ \A i \in DOMAIN out : out[i].epoch = epoch
    BY <1>4 DEF PutWakes, StaleInv
  <2> QED
    BY <1>0, <1>4, <2>1, <2>2, StalePut DEF PutWakes
<1>5. CASE Abandon
  BY <1>0, <1>5, StaleKept DEF Abandon
<1>6. CASE PacerDiscards \/ PacerSends
  BY <1>0, <1>6, StaleKept DEF PacerDiscards, PacerSends
<1>7. CASE PacerFails \/ FlushStarts \/ Aclose
  BY <1>0, <1>7, StaleDrained DEF PacerFails, FlushStarts, Aclose
<1>8. CASE PacerBlocks \/ PacerSent \/ FlushReturns \/ FlushCancelled \/ UNCHANGED vars
  BY <1>0, <1>8, StaleKept
     DEF PacerBlocks, PacerSent, FlushReturns, FlushCancelled, vars
<1> QED
  BY <1>1, <1>2, <1>3, <1>4, <1>5, <1>6, <1>7, <1>8 DEF Next

\* However often and whenever a reply is flushed, at most one queued item is
\* left over from before.
THEOREM OneStaleItem == Spec => []AtMostOneStale
<1>1. Init => StaleInv
  BY InitTypes DEF Init, StaleInv, AtMostOneStale
<1>2. StaleInv => AtMostOneStale
  BY DEF StaleInv
<1> QED
  BY <1>1, <1>2, StaleStep, PTL DEF Spec

----------------------------------------------------------------------------
(* The stream implements Playback                                          *)

\* The places of the queue that hold something of the current epoch.
Queued == {i \in DOMAIN out : out[i].epoch = epoch}

\* Frame n of utterance u went out, or is queued before place lim.
Have(u, n, lim) ==
  \/ \E k \in DOMAIN wire : wire[k].kind = "audio" /\ wire[k].utt = u /\ wire[k].n = n
  \/ \E j \in Queued : j < lim /\ out[j].kind = "audio" /\ out[j].utt = u /\ out[j].n = n

\* b comes later than a: in a later utterance, a later frame, or the mark.
After(a, b) ==
  /\ a.utt <= b.utt
  /\ a.utt = b.utt => a.kind = "audio" /\ (IF b.kind = "audio" THEN a.n < b.n ELSE a.n <= b.n)

\* Of the utterance in production nothing is further than its producer.
HandedOver(m) ==
  /\ m.utt <= utt
  /\ m.utt = utt /\ prod # "idle" /\ uttEpoch = epoch => m.kind = "audio" /\ m.n <= sent

\* The frame before m, or the last one that a mark fences.
Follows(m, i) ==
  IF m.kind = "audio"
  THEN m.n > 0 /\ m.n <= MaxFrames /\ (m.n > 1 => Have(m.utt, m.n - 1, i))
  ELSE m.n <= MaxFrames /\ (m.n > 0 => Have(m.utt, m.n, i))

ProducerInv ==
  /\ uttEpoch <= epoch
  /\ prod # "idle" => utt > 0 /\ sent <= MaxFrames
  /\ prod = "put" => /\ pend.utt = utt /\ pend.epoch = uttEpoch
                     /\ pend.n = IF pend.kind = "audio" THEN sent + 1 ELSE sent
                     /\ pend.n <= MaxFrames
  /\ prod = "put" /\ uttEpoch = epoch => ~closed
  /\ prod # "idle" /\ uttEpoch = epoch /\ ~closed /\ sent > 0 => Have(utt, sent, Len(out) + 1)

WireInv == \A k \in DOMAIN wire : HandedOver(wire[k])
QueueInv == \A i \in Queued : HandedOver(out[i]) /\ out[i].utt > 0 /\ ~closed
FollowInv == \A i \in Queued : Follows(out[i], i)
OrderInv ==
  /\ \A i \in Queued : \A k \in DOMAIN wire : After(wire[k], out[i])
  /\ \A i, j \in Queued : i < j => After(out[i], out[j])

\* Inductive: wire, queue and producer together hold every utterance of the
\* current epoch frame by frame, in order.
LineInv == ProducerInv /\ WireInv /\ QueueInv /\ FollowInv /\ OrderInv

LEMMA LineTypes ==
  ASSUME TypeOK
  PROVE  /\ Len(out) \in Nat /\ DOMAIN out = 1..Len(out)
         /\ \A i \in DOMAIN out : out[i] \in Item
         /\ DOMAIN wire = 1..Len(wire) /\ Len(wire) \in Nat
         /\ \A k \in DOMAIN wire : wire[k] \in Message
         /\ epoch \in Nat /\ utt \in Nat /\ uttEpoch \in Nat /\ sent \in Nat /\ pend \in Item
<1>1. out \in Seq(Item) /\ wire \in Seq(Message)
  BY DEF TypeOK
<1> QED
  BY <1>1 DEF TypeOK

\* An item joins the end of the queue.
LEMMA Joins ==
  ASSUME TypeOK, NEW item \in Item, out' = Append(out, item)
  PROVE  /\ Len(out') = Len(out) + 1 /\ DOMAIN out' = 1..Len(out) + 1
         /\ \A i \in DOMAIN out : out'[i] = out[i]
         /\ out'[Len(out) + 1] = item
<1>1. out \in Seq(Item)
  BY DEF TypeOK
<1> QED
  BY <1>1

\* The head leaves the queue.
LEMMA Leaves ==
  ASSUME TypeOK, out # <<>>, out' = Tail(out)
  PROVE  /\ Len(out) > 0 /\ Len(out') = Len(out) - 1 /\ DOMAIN out' = 1..Len(out')
         /\ Head(out) = out[1]
         /\ \A i \in DOMAIN out' : i + 1 \in DOMAIN out /\ out'[i] = out[i + 1]
<1>1. out \in Seq(Item)
  BY DEF TypeOK
<1> QED
  BY <1>1

\* A message joins the end of the wire.
LEMMA GoesOut ==
  ASSUME TypeOK, NEW m \in Message, wire' = Append(wire, m)
  PROVE  /\ DOMAIN wire' = 1..Len(wire) + 1
         /\ \A k \in DOMAIN wire : wire'[k] = wire[k]
         /\ wire'[Len(wire) + 1] = m
<1>1. wire \in Seq(Message)
  BY DEF TypeOK
<1> QED
  BY <1>1

\* Steps that touch neither queue nor wire: what counts is the producer.
LEMMA LineStill ==
  ASSUME TypeOK, LineInv, ProducerInv', UNCHANGED <<epoch, closed, out, wire>>,
         \A m \in Message : HandedOver(m) => HandedOver(m)'
  PROVE  LineInv'
<1>1. Queued' = Queued /\ \A u, n, lim : Have(u, n, lim)' <=> Have(u, n, lim)
  BY DEF Queued, Have
<1>2. WireInv' /\ QueueInv'
  BY <1>1, LineTypes, ItemIsMessage DEF LineInv, WireInv, QueueInv, Queued
<1>3. FollowInv'
  BY <1>1 DEF LineInv, FollowInv, Follows
<1>4. OrderInv'
  BY <1>1 DEF LineInv, OrderInv, After
<1> QED
  BY <1>2, <1>3, <1>4 DEF LineInv

\* Steps that put an item: a stale one is nowhere seen, a current one is next.
LEMMA LinePuts ==
  ASSUME TypeOK, TypeOK', LineInv, NEW item \in Item, out' = Append(out, item),
         UNCHANGED <<epoch, closed, wire, utt, uttEpoch>>,
         item.epoch = uttEpoch, prod # "idle",
         item.utt = utt, item.n <= MaxFrames,
         item.n = IF item.kind = "audio" THEN sent + 1 ELSE sent,
         uttEpoch = epoch => ~closed,
         prod' = IF item.kind = "audio" THEN "speak" ELSE "idle",
         sent' = IF item.kind = "audio" THEN item.n ELSE sent
  PROVE  LineInv'
<1>1. /\ Len(out') = Len(out) + 1 /\ DOMAIN out' = 1..Len(out) + 1
      /\ \A i \in DOMAIN out : out'[i] = out[i]
      /\ out'[Len(out) + 1] = item
  BY Joins
<1>2. /\ Len(out) \in Nat /\ DOMAIN out = 1..Len(out) /\ DOMAIN wire = 1..Len(wire)
      /\ \A i \in DOMAIN out : out[i] \in Item
      /\ \A k \in DOMAIN wire : wire[k] \in Message
      /\ epoch \in Nat /\ utt \in Nat /\ uttEpoch \in Nat /\ sent \in Nat
  BY LineTypes
<1>3. Queued \subseteq Queued' /\ Queued' \subseteq Queued \cup {Len(out) + 1}
  BY <1>1, <1>2 DEF Queued
<1>4. Len(out) + 1 \in Queued' => uttEpoch = epoch
  BY <1>1 DEF Queued
<1>5. ASSUME NEW u, NEW n, NEW lim, Have(u, n, lim) PROVE Have(u, n, lim)'
  BY <1>1, <1>3, <1>5 DEF Have, Queued
<1>6. ASSUME NEW m \in Message, HandedOver(m)
      PROVE  HandedOver(m)' /\ (uttEpoch = epoch => After(m, item))
  <2>1. m.n \in Nat
    BY DEF Message
  <2> QED
    BY <1>2, <1>6, <2>1 DEF HandedOver, After
<1>7. WireInv'
  BY <1>2, <1>6 DEF LineInv, WireInv
<1>8. HandedOver(item)' /\ (prod # "idle" => utt > 0)
  BY <1>2 DEF HandedOver, LineInv, ProducerInv, Item
<1>9. QueueInv'
  <2> SUFFICES ASSUME NEW i \in Queued' PROVE HandedOver(out[i])' /\ out'[i].utt > 0 /\ ~closed'
    BY DEF QueueInv
  <2>1. CASE i \in Queued
    <3>1. out'[i] = out[i] /\ out[i] \in Message /\ HandedOver(out[i]) /\ out[i].utt > 0 /\ ~closed
      BY <1>1, <1>2, <2>1, ItemIsMessage DEF Queued, LineInv, QueueInv
    <3>2. HandedOver(out[i])
      BY <3>1
    <3> DEFINE m == out[i]
    <3>3. m \in Message /\ HandedOver(m) /\ out'[i] = m
      BY <3>1
    <3> HIDE DEF m
    <3>4. m.utt <= utt' /\ (m.utt = utt' /\ prod' # "idle" /\ uttEpoch' = epoch'
                              => m.kind = "audio" /\ m.n <= sent')
      <4>1. m.n \in Nat
        BY <3>3 DEF Message
      <4> QED
        BY <1>2, <3>3, <4>1 DEF HandedOver
    <3> QED
      BY <3>1, <3>3, <3>4 DEF HandedOver
  <2>2. CASE i = Len(out) + 1
    BY <1>1, <1>4, <1>8, <2>2 DEF HandedOver
  <2> QED
    BY <1>3, <2>1, <2>2
<1>10. sent > 0 /\ uttEpoch = epoch => Have(utt, sent, Len(out) + 1)
  BY DEF LineInv, ProducerInv
<1>11. FollowInv'
  <2> SUFFICES ASSUME NEW i \in Queued' PROVE Follows(out[i], i)'
    BY DEF FollowInv
  <2>1. CASE i \in Queued
    <3>1. out'[i] = out[i] /\ Follows(out[i], i)
      BY <1>1, <1>2, <2>1 DEF Queued, LineInv, FollowInv
    <3> QED
      BY <1>5, <3>1 DEF Follows
  <2>2. CASE i = Len(out) + 1
    <3>1. ASSUME NEW u, NEW n, u = utt, n = sent, n > 0 PROVE Have(u, n, i)'
      BY <1>4, <1>5, <1>10, <2>2, <3>1
    <3>2. /\ out'[i] = item /\ item.utt = utt /\ item.n <= MaxFrames
          /\ item.kind = "audio" => item.n > 0 /\ item.n - 1 = sent
          /\ item.kind # "audio" => item.n = sent
      BY <1>1, <1>2, <2>2
    <3> QED
      BY <1>2, <3>1, <3>2 DEF Follows
  <2> QED
    BY <1>3, <2>1, <2>2
<1>12. OrderInv'
  <2>1. ASSUME NEW i \in Queued', NEW k \in DOMAIN wire PROVE After(wire[k], out'[i])
    <3>1. CASE i \in Queued
      BY <1>1, <1>2, <3>1 DEF Queued, LineInv, OrderInv
    <3>2. CASE i = Len(out) + 1
      <4>1. wire[k] \in Message /\ HandedOver(wire[k])
        BY <1>2 DEF LineInv, WireInv
      <4> QED
        BY <1>1, <1>4, <1>6, <3>2, <4>1
    <3> QED
      BY <1>3, <3>1, <3>2
  <2>2. ASSUME NEW i \in Queued', NEW j \in Queued', i < j PROVE After(out'[i], out'[j])
    <3>0. i \in Queued
      BY <1>2, <1>3, <2>2, <1>1 DEF Queued
    <3>1. out[i] \in Message /\ HandedOver(out[i]) /\ out'[i] = out[i]
      BY <1>1, <1>2, <3>0, ItemIsMessage DEF Queued, LineInv, QueueInv
    <3>2. CASE j \in Queued
      BY <1>1, <2>2, <3>0, <3>1, <3>2 DEF Queued, LineInv, OrderInv
    <3>3. CASE j = Len(out) + 1
      BY <1>1, <1>4, <1>6, <3>1, <3>3
    <3> QED
      BY <1>3, <3>2, <3>3
  <2> QED
    BY <2>1, <2>2 DEF OrderInv, After
<1>13. ProducerInv'
  <2>1. ASSUME item.kind = "audio", uttEpoch = epoch PROVE Have(utt, sent, Len(out) + 1)'
    <3>1. Len(out) + 1 \in Queued'
      BY <1>1, <1>2, <2>1 DEF Queued
    <3> QED
      BY <1>1, <1>2, <2>1, <3>1 DEF Have
  <2> QED
    BY <1>2, <1>8, <2>1 DEF LineInv, ProducerInv
<1> QED
  BY <1>7, <1>9, <1>11, <1>12, <1>13 DEF LineInv

\* Steps that take the head: a stale one is dropped, a current one goes out.
LEMMA LineTakes ==
  ASSUME TypeOK, TypeOK', LineInv, out # <<>>, out' = Tail(out),
         UNCHANGED <<epoch, closed, producerVars>>,
         \/ Head(out).epoch # epoch /\ wire' = wire
         \/ Head(out).epoch = epoch /\ wire' = Append(wire, Head(out))
  PROVE  LineInv'
<1> USE DEF producerVars
<1>1. /\ Len(out) > 0 /\ Len(out') = Len(out) - 1 /\ DOMAIN out' = 1..Len(out')
      /\ Head(out) = out[1]
      /\ \A i \in DOMAIN out' : i + 1 \in DOMAIN out /\ out'[i] = out[i + 1]
  BY Leaves
<1>2. /\ Len(out) \in Nat /\ DOMAIN out = 1..Len(out) /\ DOMAIN wire = 1..Len(wire)
      /\ Len(wire) \in Nat
      /\ \A i \in DOMAIN out : out[i] \in Item
  BY LineTypes
<1>3. out[1] \in Message
  BY <1>1, <1>2, ItemIsMessage
<1>4. /\ \A k \in DOMAIN wire : k \in DOMAIN wire' /\ wire'[k] = wire[k]
      /\ 1 \in Queued => \E k \in DOMAIN wire' : wire'[k] = out[1]
      /\ \A k \in DOMAIN wire' : \/ k \in DOMAIN wire /\ wire'[k] = wire[k]
                                 \/ 1 \in Queued /\ wire'[k] = out[1]
  <2>0. 1 \in DOMAIN out /\ (1 \in Queued <=> Head(out).epoch = epoch)
    BY <1>1, <1>2 DEF Queued
  <2>1. CASE Head(out).epoch # epoch /\ wire' = wire
    BY <2>0, <2>1
  <2>2. CASE Head(out).epoch = epoch /\ wire' = Append(wire, Head(out))
    <3>1. 1 \in Queued
      BY <2>0, <2>2
    <3>2. /\ DOMAIN wire' = 1..Len(wire) + 1
          /\ \A k \in DOMAIN wire : wire'[k] = wire[k]
          /\ wire'[Len(wire) + 1] = out[1]
      BY <1>1, <1>3, <2>2, GoesOut
    <3> QED
      BY <1>2, <3>1, <3>2
  <2> QED
    BY <2>1, <2>2
<1>5. \A i \in Queued' : i \in Nat /\ i + 1 \in Queued /\ out'[i] = out[i + 1] /\ i + 1 > 1
  BY <1>1, <1>2 DEF Queued
<1>6. ASSUME NEW u, NEW n, NEW lim \in Int, Have(u, n, lim + 1) PROVE Have(u, n, lim)'
  <2>1. CASE \E k \in DOMAIN wire : wire[k].kind = "audio" /\ wire[k].utt = u /\ wire[k].n = n
    BY <1>4, <2>1 DEF Have
  <2>2. ASSUME NEW j \in Queued, j < lim + 1,
               out[j].kind = "audio", out[j].utt = u, out[j].n = n
        PROVE  Have(u, n, lim)'
    <3>1. CASE j = 1
      BY <1>4, <2>2, <3>1 DEF Have
    <3>2. CASE j # 1
      <4>1. j - 1 \in Queued' /\ out'[j - 1] = out[j] /\ j - 1 < lim
        BY <1>1, <1>2, <2>2, <3>2 DEF Queued
      <4> QED
        BY <2>2, <4>1 DEF Have
    <3> QED
      BY <3>1, <3>2
  <2> QED
    BY <1>6, <2>1, <2>2 DEF Have
<1>7. WireInv'
  BY <1>4 DEF LineInv, WireInv, QueueInv, HandedOver
<1>8. QueueInv'
  BY <1>5 DEF LineInv, QueueInv, HandedOver
<1>9. FollowInv'
  <2> SUFFICES ASSUME NEW i \in Queued' PROVE Follows(out[i], i)'
    BY DEF FollowInv
  <2>0. i \in Nat
    BY <1>5
  <2>1. i + 1 \in Queued
    BY <1>5
  <2>2. out'[i] = out[i + 1]
    BY <1>5
  <2>3. i \in Int
    BY <2>0
  <2>4. Follows(out[i + 1], i + 1)
    BY <2>1 DEF LineInv, FollowInv
  <2> QED
    BY <1>6, <2>2, <2>3, <2>4 DEF Follows
<1>10. OrderInv'
  <2>1. ASSUME NEW i \in Queued', NEW k \in DOMAIN wire' PROVE After(wire'[k], out'[i])
    <3>1. CASE k \in DOMAIN wire /\ wire'[k] = wire[k]
      BY <1>5, <3>1 DEF LineInv, OrderInv
    <3>2. CASE 1 \in Queued /\ wire'[k] = out[1]
      BY <1>5, <3>2 DEF LineInv, OrderInv
    <3> QED
      BY <1>4, <3>1, <3>2
  <2>2. ASSUME NEW i \in Queued', NEW j \in Queued', i < j PROVE After(out'[i], out'[j])
    <3>1. i + 1 < j + 1
      BY <1>5, <2>2
    <3> QED
      BY <1>5, <3>1 DEF LineInv, OrderInv
  <2> QED
    BY <2>1, <2>2 DEF OrderInv, After
<1>11. ProducerInv'
  <2>1. ASSUME NEW u, NEW n, Have(u, n, Len(out) + 1) PROVE Have(u, n, Len(out) + 1)'
    <3> DEFINE lim == Len(out) - 1 + 1
    <3>1. lim \in Int /\ lim + 1 = Len(out) + 1 /\ lim = Len(out)
      BY <1>1, <1>2
    <3>2. Len(out') + 1 = lim
      BY <1>1, <1>2
    <3> HIDE DEF lim
    <3>3. \E l : l = Len(out') + 1 /\ l \in Int /\ l + 1 = Len(out) + 1
      BY <3>1, <3>2
    <3>4. PICK l : l = Len(out') + 1 /\ l \in Int /\ l + 1 = Len(out) + 1
      BY <3>3
    <3>5. Have(u, n, l)'
      BY <1>6, <2>1, <3>4
    <3> QED
      BY <3>4, <3>5 DEF Have
  <2> QED
    BY <2>1 DEF LineInv, ProducerInv
<1> QED
  BY <1>7, <1>8, <1>9, <1>10, <1>11 DEF LineInv

\* Steps that begin an epoch: nothing of it is queued, and no utterance is of it.
LEMMA LineCleared ==
  ASSUME TypeOK, LineInv, epoch' = epoch + 1, out' = <<>>, UNCHANGED producerVars,
         wire' = wire \/ wire' = Append(wire, Clear(epoch + 1))
  PROVE  LineInv'
<1> USE DEF producerVars
<1>1. /\ DOMAIN wire = 1..Len(wire) /\ Len(wire) \in Nat
      /\ epoch \in Nat /\ utt \in Nat /\ uttEpoch \in Nat
  BY LineTypes
<1>2. uttEpoch' # epoch' /\ Queued' = {}
  BY <1>1 DEF LineInv, ProducerInv, Queued
<1>3. \A k \in DOMAIN wire' : wire'[k].utt <= utt
  <2>1. CASE wire' = wire
    BY <2>1 DEF LineInv, WireInv, HandedOver
  <2>2. CASE wire' = Append(wire, Clear(epoch + 1))
    <3>1. Clear(epoch + 1) \in Message /\ Clear(epoch + 1).utt = 0
      BY <1>1 DEF Clear, Message
    <3>2. /\ DOMAIN wire' = 1..Len(wire) + 1
          /\ \A k \in DOMAIN wire : wire'[k] = wire[k]
          /\ wire'[Len(wire) + 1] = Clear(epoch + 1)
      BY <2>2, <3>1, GoesOut
    <3> QED
      BY <1>1, <3>1, <3>2 DEF LineInv, WireInv, HandedOver
  <2> QED
    BY <2>1, <2>2
<1>4. WireInv'
  BY <1>2, <1>3 DEF WireInv, HandedOver
<1>5. QueueInv' /\ FollowInv' /\ OrderInv'
  BY <1>2 DEF QueueInv, FollowInv, OrderInv
<1>6. ProducerInv'
  BY <1>1, <1>2 DEF LineInv, ProducerInv
<1> QED
  BY <1>4, <1>5, <1>6 DEF LineInv

\* Steps that the line does not see.
LEMMA LineSame ==
  ASSUME LineInv, UNCHANGED <<epoch, closed, out, wire, producerVars>>
  PROVE  LineInv'
<1> USE DEF producerVars
<1>1. Queued' = Queued /\ \A u, n, lim : Have(u, n, lim)' <=> Have(u, n, lim)
  BY DEF Queued, Have
<1>2. \A m : HandedOver(m)' <=> HandedOver(m)
  BY DEF HandedOver
<1>3. ProducerInv'
  BY <1>1 DEF LineInv, ProducerInv
<1>4. WireInv' /\ QueueInv'
  BY <1>1, <1>2 DEF LineInv, WireInv, QueueInv
<1>5. FollowInv'
  BY <1>1 DEF LineInv, FollowInv, Follows
<1>6. OrderInv'
  BY <1>1 DEF LineInv, OrderInv, After
<1> QED
  BY <1>3, <1>4, <1>5, <1>6 DEF LineInv

\* Nothing of the line is there at the start.
LEMMA InitLine == Init => LineInv
<1> SUFFICES ASSUME Init PROVE LineInv
  OBVIOUS
<1>1. DOMAIN wire = {} /\ Queued = {}
  BY DEF Init, Queued
<1>2. ProducerInv
  BY DEF Init, ProducerInv
<1> QED
  BY <1>1, <1>2 DEF LineInv, WireInv, QueueInv, FollowInv, OrderInv

\* A put of the item that the producer has ready, whether it blocks or not.
LEMMA LinePut ==
  ASSUME TypeOK, TypeOK', LineInv, NEW item \in Item, Put(item),
         UNCHANGED <<epoch, closed, wire, utt, uttEpoch>>,
         item.epoch = uttEpoch, prod # "idle",
         item.utt = utt, item.n <= MaxFrames,
         item.n = IF item.kind = "audio" THEN sent + 1 ELSE sent,
         uttEpoch = epoch => ~closed
  PROVE  LineInv'
<1>1. CASE Len(out) < LeadFrames
  <2>1. /\ out' = Append(out, item)
        /\ prod' = IF item.kind = "audio" THEN "speak" ELSE "idle"
        /\ sent' = IF item.kind = "audio" THEN item.n ELSE sent
    BY <1>1 DEF Put
  <2> QED
    BY <2>1, LinePuts
<1>2. CASE ~(Len(out) < LeadFrames)
  <2>1. prod' = "put" /\ pend' = item /\ out' = out /\ sent' = sent
    BY <1>2 DEF Put
  <2>2. \A m \in Message : HandedOver(m) => HandedOver(m)'
    BY <2>1 DEF HandedOver
  <2>3. \A u, n, lim : Have(u, n, lim)' <=> Have(u, n, lim)
    BY <2>1 DEF Queued, Have
  <2>4. ProducerInv'
    BY <2>1, <2>3 DEF LineInv, ProducerInv
  <2> QED
    BY <2>1, <2>2, <2>4, LineStill
<1> QED
  BY <1>1, <1>2

LEMMA LineStep == TypeOK /\ TypeOK' /\ LineInv /\ [Next]_vars => LineInv'
<1> SUFFICES ASSUME TypeOK, TypeOK', LineInv, [Next]_vars PROVE LineInv'
  OBVIOUS
<1>0. epoch \in Nat /\ utt \in Nat /\ uttEpoch \in Nat /\ sent \in Nat /\ MaxFrames \in Nat
  BY LineTypes, BoundsAssumption DEF BoundsAssumption
<1>1. CASE BeginUtterance
  <2>1. \A m \in Message : HandedOver(m) => HandedOver(m)'
    BY <1>0, <1>1 DEF BeginUtterance, HandedOver, Message
  <2>2. ProducerInv'
    BY <1>0, <1>1 DEF BeginUtterance, LineInv, ProducerInv
  <2> QED
    BY <1>1, <2>1, <2>2, LineStill DEF BeginUtterance
<1>2. CASE SendAudioFrame
  <2> DEFINE item == [kind |-> "audio", epoch |-> uttEpoch, utt |-> utt, n |-> sent + 1]
  <2>1. CASE Refused
    <3>1. \A m \in Message : HandedOver(m) => HandedOver(m)'
      BY <1>0, <1>2, <2>1 DEF SendAudioFrame, HandedOver, Message
    <3>2. ProducerInv'
      BY <1>0, <1>2, <2>1 DEF SendAudioFrame, Refused, LineInv, ProducerInv
    <3> QED
      BY <1>2, <2>1, <3>1, <3>2, LineStill DEF SendAudioFrame
  <2>2. CASE ~Refused
    <3>1. Put(item) /\ ~closed /\ sent + 1 <= MaxFrames
      BY <1>0, <1>2, <2>2 DEF SendAudioFrame, Refused
    <3>2. item \in Item
      BY <1>0 DEF Item, Kinds
    <3> QED
      BY <1>2, <3>1, <3>2, LinePut DEF SendAudioFrame
  <2> QED
    BY <2>1, <2>2
<1>3. CASE SendMark
  <2> DEFINE item == [kind |-> "mark", epoch |-> uttEpoch, utt |-> utt, n |-> sent]
  <2>1. CASE Refused
    <3>1. \A m \in Message : HandedOver(m) => HandedOver(m)'
      BY <1>0, <1>3, <2>1 DEF SendMark, HandedOver, Message
    <3>2. ProducerInv'
      BY <1>0, <1>3, <2>1 DEF SendMark, LineInv, ProducerInv
    <3> QED
      BY <1>3, <2>1, <3>1, <3>2, LineStill DEF SendMark
  <2>2. CASE ~Refused
    <3>1. Put(item) /\ ~closed /\ sent <= MaxFrames
      BY <1>0, <1>3, <2>2 DEF SendMark, Refused, LineInv, ProducerInv
    <3>2. item \in Item
      BY <1>0 DEF Item, Kinds
    <3> QED
      BY <1>3, <3>1, <3>2, LinePut DEF SendMark
  <2> QED
    BY <2>1, <2>2
<1>4. CASE PutWakes
  <2>1. pend \in Item /\ Put(pend)
    BY <1>4 DEF PutWakes, TypeOK
  <2>2. /\ pend.epoch = uttEpoch /\ pend.utt = utt /\ pend.n <= MaxFrames
        /\ pend.n = IF pend.kind = "audio" THEN sent + 1 ELSE sent
        /\ uttEpoch = epoch => ~closed
    BY <1>4 DEF PutWakes, LineInv, ProducerInv
  <2> QED
    BY <1>4, <2>1, <2>2, LinePut DEF PutWakes
<1>5. CASE Abandon
  <2>1. \A m \in Message : HandedOver(m) => HandedOver(m)'
    BY <1>5 DEF Abandon, HandedOver
  <2>2. ProducerInv'
    BY <1>5 DEF Abandon, LineInv, ProducerInv
  <2> QED
    BY <1>5, <2>1, <2>2, LineStill DEF Abandon
<1>6. CASE PacerBlocks
  BY <1>6, LineSame DEF PacerBlocks
<1>7. CASE PacerDiscards
  BY <1>7, LineTakes DEF PacerDiscards, Stale
<1>8. CASE PacerSends
  BY <1>8, LineTakes DEF PacerSends, Stale
<1>9. CASE PacerSent
  BY <1>9, LineSame DEF PacerSent
<1>10. CASE PacerFails
  BY <1>10, LineCleared DEF PacerFails
<1>11. CASE FlushStarts
  BY <1>11, LineCleared DEF FlushStarts
<1>12. CASE FlushReturns
  BY <1>12, LineSame DEF FlushReturns
<1>13. CASE FlushCancelled
  BY <1>13, LineSame DEF FlushCancelled
<1>14. CASE Aclose
  BY <1>14, LineCleared DEF Aclose
<1>15. CASE UNCHANGED vars
  BY <1>15, LineSame DEF vars
<1> QED
  BY <1>1, <1>2, <1>3, <1>4, <1>5, <1>6, <1>7, <1>8, <1>9, <1>10, <1>11, <1>12,
     <1>13, <1>14, <1>15 DEF Next

----------------------------------------------------------------------------
(* Every step is a step of Playback.                                       *)

\* What of a message the caller's side sees.
Sound(m) == [kind |-> m.kind, utt |-> m.utt, n |-> m.n]

LEMMA PlayedIs ==
  ASSUME TypeOK
  PROVE  /\ DOMAIN Played = DOMAIN wire
         /\ \A i \in DOMAIN wire : Played[i] = Sound(wire[i])
  BY DEF Played, Sound

\* What goes out on the wire is what is played next.
LEMMA PlayedGrows ==
  ASSUME TypeOK, NEW m \in Message, wire' = Append(wire, m)
  PROVE  Played' = Append(Played, Sound(m))
<1> DEFINE S == {Sound(w) : w \in Message}
<1>1. DOMAIN wire = 1..Len(wire) /\ Len(wire) \in Nat /\ \A k \in DOMAIN wire : wire[k] \in Message
  BY LineTypes
<1>2. /\ DOMAIN wire' = 1..Len(wire) + 1
      /\ \A k \in DOMAIN wire : wire'[k] = wire[k]
      /\ wire'[Len(wire) + 1] = m
  BY GoesOut
<1>3. Played \in [1..Len(wire) -> S]
  BY <1>1 DEF Played, Sound
<1>4. Played \in Seq(S) /\ Len(Played) = Len(wire)
  BY <1>1, <1>3
<1> DEFINE p == Append(Played, Sound(m))
<1>5. /\ p \in Seq(S) /\ Len(p) = Len(wire) + 1
      /\ \A i \in 1..Len(wire) : p[i] = Played[i]
      /\ p[Len(wire) + 1] = Sound(m)
  BY <1>4
<1>6. Played' = [i \in 1..Len(wire) + 1 |-> Sound(wire'[i])]
  BY <1>2 DEF Played, Sound
<1> HIDE DEF p
<1>7. \A i \in 1..Len(wire) + 1 : p[i] = Sound(wire'[i])
  BY <1>1, <1>2, <1>5, PlayedIs
<1>8. p = Played'
  BY <1>1, <1>5, <1>6, <1>7
<1> QED
  BY <1>8 DEF p

\* An utterance may still sound: the stream is open, and a current item of it
\* is queued or its producer is at work.
Alive(u) ==
  /\ ~closed
  /\ \/ \E i \in Queued : out[i].utt = u
     \/ prod # "idle" /\ uttEpoch = epoch /\ u = utt

LEMMA LiveIs ==
  /\ \A u : u \in Live <=> Alive(u)
  /\ \A u : u \in Live' <=> Alive(u)'
  BY DEF Live, Current, Alive, Queued

\* A step that plays nothing and begins nothing can only silence.
LEMMA Fades ==
  ASSUME \A u : Alive(u)' => Alive(u), UNCHANGED <<wire, utt, closed>>
  PROVE  Abstract!Abandon
<1>1. Live' \subseteq Live
  BY LiveIs
<1> QED
  BY <1>1 DEF Abstract!Abandon, Played

\* A put adds only to an utterance that is in production anyway.
LEMMA PutFades ==
  ASSUME TypeOK, LineInv, NEW item \in Item, Put(item),
         UNCHANGED <<epoch, closed, wire, utt, uttEpoch>>,
         item.epoch = uttEpoch, item.utt = utt, prod # "idle"
  PROVE  Abstract!Abandon
<1>1. CASE Len(out) < LeadFrames
  <2>1. out' = Append(out, item) /\ prod' \in {"speak", "idle"}
    BY <1>1 DEF Put
  <2>2. /\ DOMAIN out' = 1..Len(out) + 1 /\ DOMAIN out = 1..Len(out) /\ Len(out) \in Nat
        /\ \A i \in DOMAIN out : out'[i] = out[i]
        /\ out'[Len(out) + 1] = item
    BY <2>1, Joins, LineTypes
  <2>3. ASSUME NEW i \in Queued'
        PROVE  \/ i \in Queued /\ out'[i] = out[i]
               \/ uttEpoch = epoch /\ out'[i].utt = utt
    <3>1. i \in 1..Len(out) + 1 /\ out'[i].epoch = epoch
      BY <2>2 DEF Queued
    <3>2. CASE i \in DOMAIN out
      BY <2>2, <3>1, <3>2 DEF Queued
    <3>3. CASE i = Len(out) + 1
      BY <2>2, <3>1, <3>3
    <3> QED
      BY <2>2, <3>1, <3>2, <3>3
  <2>4. \A u : Alive(u)' => Alive(u)
    BY <2>3 DEF Alive
  <2> QED
    BY <2>4, Fades
<1>2. CASE ~(Len(out) < LeadFrames)
  <2>1. prod' = "put" /\ out' = out
    BY <1>2 DEF Put
  <2>2. \A u : Alive(u)' => Alive(u)
    BY <2>1 DEF Alive, Queued
  <2> QED
    BY <2>2, Fades
<1> QED
  BY <1>1, <1>2

\* Taking the head can only silence: the mark it takes is the last of its utterance.
LEMMA TakeFades ==
  ASSUME TypeOK, LineInv, out # <<>>, out' = Tail(out), UNCHANGED <<epoch, closed, producerVars>>
  PROVE  \A u : Alive(u)' => Alive(u) /\ ~(Head(out).epoch = epoch /\ Head(out).kind = "mark" /\ Head(out).utt = u)
<1> USE DEF producerVars
<1>1. /\ Head(out) = out[1] /\ 1 \in DOMAIN out /\ DOMAIN out' = 1..Len(out')
      /\ \A i \in DOMAIN out' : i + 1 \in DOMAIN out /\ out'[i] = out[i + 1]
  BY Leaves, LineTypes
<1>2. \A i \in Queued' : i + 1 \in Queued /\ out'[i] = out[i + 1] /\ 1 < i + 1
  BY <1>1, LineTypes DEF Queued
<1>3. SUFFICES ASSUME NEW u, Alive(u)'
               PROVE  /\ Alive(u)
                      /\ 1 \in Queued /\ out[1].kind = "mark" => out[1].utt # u
  BY <1>1 DEF Queued
<1>4. CASE \E i \in Queued' : out'[i].utt = u
  <2>1. PICK j \in Queued : out[j].utt = u /\ 1 < j
    BY <1>2, <1>4
  <2>2. 1 \in Queued => After(out[1], out[j])
    BY <2>1 DEF LineInv, OrderInv
  <2> QED
    BY <1>3, <2>1, <2>2 DEF Alive, After
<1>5. CASE prod # "idle" /\ uttEpoch = epoch /\ u = utt
  BY <1>3, <1>5 DEF Alive, LineInv, QueueInv, HandedOver
<1> QED
  BY <1>3, <1>4, <1>5 DEF Alive

\* The frame that a queued head follows was heard, and nothing later was.
LEMMA HeadIsNext ==
  ASSUME TypeOK, LineInv, 1 \in Queued
  PROVE  /\ Alive(out[1].utt)
         /\ \A u, n : Have(u, n, 1) => Abstract!Heard(Abstract!Frame(u, n))
         /\ \A n : Abstract!Heard(Abstract!Frame(out[1].utt, n)) => \E k \in DOMAIN wire :
               wire[k].kind = "audio" /\ wire[k].utt = out[1].utt /\ wire[k].n = n
         /\ \A i \in DOMAIN Played : Played[i].utt <= out[1].utt
<1>1. Alive(out[1].utt)
  BY DEF LineInv, QueueInv, Alive
<1>2. \A j \in Queued : ~(j < 1)
  BY LineTypes DEF Queued
<1>3. \A u, n : Have(u, n, 1) => Abstract!Heard(Abstract!Frame(u, n))
  BY <1>2, PlayedIs DEF Have, Abstract!Heard, Abstract!Frame, Sound
<1>4. ASSUME NEW n, Abstract!Heard(Abstract!Frame(out[1].utt, n))
      PROVE  \E k \in DOMAIN wire :
               wire[k].kind = "audio" /\ wire[k].utt = out[1].utt /\ wire[k].n = n
  BY <1>4, PlayedIs DEF Abstract!Heard, Abstract!Frame, Sound
<1>5. \A i \in DOMAIN Played : Played[i].utt <= out[1].utt
  BY PlayedIs DEF Sound, LineInv, OrderInv, After
<1> QED
  BY <1>1, <1>3, <1>4, <1>5

\* What the pacer sends is the next frame of its utterance, or its mark.
LEMMA SendPlays ==
  ASSUME TypeOK, LineInv, PacerSends
  PROVE  Abstract!Next
<1> DEFINE m == out[1]
<1>1. /\ out # <<>> /\ out' = Tail(out) /\ Head(out) = m /\ m.epoch = epoch
      /\ wire' = Append(wire, m) /\ UNCHANGED <<epoch, closed, producerVars>>
  BY Leaves DEF PacerSends, Stale
<1>2. 1 \in Queued /\ m \in Item /\ m \in Message
  BY <1>1, Leaves, LineTypes, ItemIsMessage DEF Queued
<1>3. Played' = Append(Played, Sound(m)) /\ utt' = utt /\ (~closed)' = ~closed
  BY <1>1, <1>2, PlayedGrows DEF producerVars
<1>4. ~closed /\ m.utt \in Live
  BY <1>2, HeadIsNext, LiveIs DEF Alive
<1>5. Live' \subseteq Live /\ (m.kind = "mark" => m.utt \notin Live')
  BY <1>1, TakeFades, LiveIs
<1>6. Follows(m, 1)
  BY <1>2 DEF LineInv, FollowInv
<1>7. \A k \in DOMAIN wire : After(wire[k], m)
  BY <1>2 DEF LineInv, OrderInv
<1>8. m.n \in Nat /\ m.n <= MaxFrames /\ m.kind \in {"audio", "mark"} /\ MaxFrames \in Nat
  BY <1>2, <1>6, BoundsAssumption DEF BoundsAssumption, Follows, Item, Kinds
<1>9. CASE m.kind = "audio"
  <2>1. m.n > 0 /\ (m.n > 1 => Abstract!Heard(Abstract!Frame(m.utt, m.n - 1)))
    BY <1>2, <1>6, <1>9, HeadIsNext DEF Follows
  <2>2. ~Abstract!Heard(Abstract!Frame(m.utt, m.n))
    BY <1>2, <1>7, <1>8, <1>9, HeadIsNext DEF After
  <2>3. \A i \in DOMAIN Played : Played[i].utt <= m.utt
    BY <1>2, HeadIsNext
  <2>4. Sound(m) = Abstract!Frame(m.utt, m.n)
    BY <1>9 DEF Sound, Abstract!Frame
  <2>5. Abstract!Play(m.utt, m.n)
    BY <1>3, <1>4, <1>5, <2>1, <2>2, <2>3, <2>4 DEF Abstract!Play
  <2> QED
    BY <1>4, <1>8, <2>5 DEF Abstract!Next
<1>10. CASE m.kind = "mark"
  <2>1. m.n > 0 => Abstract!Heard(Abstract!Frame(m.utt, m.n))
    BY <1>2, <1>6, <1>10, HeadIsNext DEF Follows
  <2>2. ~Abstract!Heard(Abstract!Frame(m.utt, m.n + 1))
    BY <1>2, <1>7, <1>8, <1>10, HeadIsNext DEF After
  <2>3. Sound(m) = Abstract!Fence(m.utt, m.n)
    BY <1>10 DEF Sound, Abstract!Fence
  <2>4. Abstract!End(m.utt, m.n)
    BY <1>3, <1>4, <1>5, <1>10, <2>1, <2>2, <2>3 DEF Abstract!End
  <2> QED
    BY <1>4, <1>8, <2>4 DEF Abstract!Next
<1> QED
  BY <1>8, <1>9, <1>10

LEMMA PlaybackStep ==
  TypeOK /\ LineInv /\ [Next]_vars => [Abstract!Next]_(Abstract!vars)
<1> SUFFICES ASSUME TypeOK, LineInv, [Next]_vars
             PROVE  Abstract!Next \/ UNCHANGED Abstract!vars
  OBVIOUS
<1> USE DEF producerVars
<1>0. epoch \in Nat /\ utt \in Nat /\ uttEpoch \in Nat /\ uttEpoch <= epoch
  BY LineTypes DEF LineInv, ProducerInv
<1>1. CASE BeginUtterance
  <2>0. /\ utt' = utt + 1 /\ UNCHANGED <<epoch, out, wire, closed>>
        /\ Queued' = Queued
    BY <1>1 DEF BeginUtterance, Queued
  <2>1. \A u : Alive(u)' => Alive(u) \/ (~closed /\ u = utt + 1)
    BY <2>0 DEF Alive
  <2>2. Live' \subseteq Live \cup (IF ~closed THEN {utt + 1} ELSE {})
    BY <2>1, LiveIs
  <2> QED
    BY <2>0, <2>2 DEF Abstract!Next, Abstract!Begin, Played
<1>2. CASE SendAudioFrame
  <2> DEFINE item == [kind |-> "audio", epoch |-> uttEpoch, utt |-> utt, n |-> sent + 1]
  <2>1. CASE Refused
    <3>1. \A u : Alive(u)' => Alive(u)
      BY <1>2, <2>1 DEF SendAudioFrame, Alive, Queued
    <3> QED
      BY <1>2, <3>1, Fades DEF SendAudioFrame, Abstract!Next
  <2>2. CASE ~Refused
    <3>1. item \in Item
      BY LineTypes DEF Item, Kinds
    <3> QED
      BY <1>2, <2>2, <3>1, PutFades DEF SendAudioFrame, Abstract!Next
  <2> QED
    BY <2>1, <2>2
<1>3. CASE SendMark
  <2> DEFINE item == [kind |-> "mark", epoch |-> uttEpoch, utt |-> utt, n |-> sent]
  <2>1. CASE Refused
    <3>1. \A u : Alive(u)' => Alive(u)
      BY <1>3, <2>1 DEF SendMark, Alive, Queued
    <3> QED
      BY <1>3, <3>1, Fades DEF SendMark, Abstract!Next
  <2>2. CASE ~Refused
    <3>1. item \in Item
      BY LineTypes DEF Item, Kinds
    <3> QED
      BY <1>3, <2>2, <3>1, PutFades DEF SendMark, Abstract!Next
  <2> QED
    BY <2>1, <2>2
<1>4. CASE PutWakes
  <2>1. pend \in Item /\ Put(pend) /\ pend.epoch = uttEpoch /\ pend.utt = utt
    BY <1>4 DEF PutWakes, TypeOK, LineInv, ProducerInv
  <2> QED
    BY <1>4, <2>1, PutFades DEF PutWakes, Abstract!Next
<1>5. CASE Abandon
  <2>1. \A u : Alive(u)' => Alive(u)
    BY <1>5 DEF Abandon, Alive, Queued
  <2> QED
    BY <1>5, <2>1, Fades DEF Abandon, Abstract!Next
<1>6. CASE PacerDiscards
  <2>1. \A u : Alive(u)' => Alive(u)
    BY <1>6, TakeFades DEF PacerDiscards
  <2> QED
    BY <1>6, <2>1, Fades DEF PacerDiscards, Abstract!Next
<1>7. CASE PacerSends
  BY <1>7, SendPlays
<1>8. ASSUME UNCHANGED <<epoch, closed, out, wire, producerVars>> PROVE Abstract!Next
  <2>1. \A u : Alive(u)' => Alive(u)
    BY <1>8 DEF Alive, Queued
  <2> QED
    BY <1>8, <2>1, Fades DEF Abstract!Next
<1>9. CASE PacerBlocks
  BY <1>8, <1>9 DEF PacerBlocks
<1>10. CASE PacerSent
  BY <1>8, <1>10 DEF PacerSent
<1>11. CASE FlushReturns
  BY <1>8, <1>11 DEF FlushReturns
<1>12. CASE FlushCancelled
  BY <1>8, <1>12 DEF FlushCancelled
<1>13. ASSUME epoch' = epoch + 1, out' = <<>>, UNCHANGED producerVars PROVE Live' = {}
  <2>1. \A u : ~Alive(u)'
    BY <1>0, <1>13 DEF Alive, Queued
  <2> QED
    BY <2>1, LiveIs
<1>14. CASE PacerFails
  BY <1>13, <1>14 DEF PacerFails, Abstract!Next, Abstract!Close, Played
<1>15. CASE FlushStarts
  <2>1. Clear(epoch + 1) \in Message /\ Sound(Clear(epoch + 1)) = Abstract!Silence
    BY <1>0 DEF Clear, Message, Sound, Abstract!Silence
  <2>2. Played' = Append(Played, Abstract!Silence)
    BY <1>15, <2>1, PlayedGrows DEF FlushStarts
  <2> QED
    BY <1>13, <1>15, <2>2 DEF FlushStarts, Abstract!Next, Abstract!Interrupt
<1>16. CASE Aclose
  BY <1>13, <1>16 DEF Aclose, Abstract!Next, Abstract!Close, Played
<1>17. CASE UNCHANGED vars
  BY <1>8, <1>17 DEF vars
<1> QED
  BY <1>1, <1>2, <1>3, <1>4, <1>5, <1>6, <1>7, <1>9, <1>10, <1>11, <1>12, <1>14,
     <1>15, <1>16, <1>17 DEF Next

LEMMA PlaybackInit == Init => Abstract!Init
<1> SUFFICES ASSUME Init PROVE Abstract!Init
  OBVIOUS
<1>1. wire = <<>> /\ utt = 0 /\ closed = FALSE /\ out = <<>> /\ prod = "idle"
  BY DEF Init
<1>2. Played = <<>>
  BY <1>1 DEF Played
<1>3. Live = {}
  BY <1>1 DEF Live, Current
<1> QED
  BY <1>1, <1>2, <1>3 DEF Abstract!Init

\* The stream implements Playback, for every lead and every number of
\* utterances, frames and flushes: the caller hears each utterance from its
\* first frame on, in order and without a gap, its mark behind all of it, and
\* nothing that a barge-in or a close silenced (media.py:117-190).
THEOREM Implements == Spec => ImplementsPlayback
<1>1. TypeOK /\ LineInv /\ [Next]_vars => LineInv'
  BY StepTypes, LineStep
<1>2. Spec => []TypeOK
  BY TypeCorrect
<1> QED
  BY InitLine, <1>1, <1>2, PlaybackInit, PlaybackStep, PTL DEF Spec, ImplementsPlayback, Abstract!Spec


=============================================================================
