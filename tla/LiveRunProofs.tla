-------------------------- MODULE LiveRunProofs ---------------------------
(***************************************************************************)
(* Proofs about the live runner: the webhook is given back, and only a     *)
(* server's own call makes its trial eligible, for every number of trials, *)
(* runs and defects.                                                       *)
(*                                                                         *)
(* The second is the harder: the event file that is judged could be that   *)
(* of a server left over from a killed run.  It is not, because a trial    *)
(* whose log is still there is refused, and a left-over server is always   *)
(* one of a trial whose log is still there (LeftOver).                     *)
(***************************************************************************)
EXTENDS LiveRun, SequenceTheorems, TLAPS

Serving == {"local", "public", "call", "calling", "stopping", "returned"}
Working == Serving \cup {"filing", "moving", "judging"}
Alive == {"starting", "ready", "bound"}
Attempts == Nat \X Nat
Record == [attempt : Attempts, of : Attempts, served : {"nobody", "own", "orphan"},
           eligible : BOOLEAN, successful : BOOLEAN]

Shape ==
  /\ runs \in Nat /\ trial \in Nat
  /\ events \in [1..Trials -> {<<>>} \cup Attempts]
  /\ called \subseteq Attempts
  /\ served \in {"nobody", "own", "orphan"}
  /\ records \in Seq(Record) /\ session \in Seq(Record)
  /\ pc \in Working => trial \in 1..Trials

\* What this run's lease holds, as long as it could do its work.
Lease ==
  ~broken =>
    /\ pc \in {"idle", "ended", "dead", "entering", "taking", "concluding"} => webhook = taken
    /\ pc \in {"taking", "next", "restoring", "concluding"} \cup Working => lease = taken

\* A server left over from a killed run is not that of the trial at hand.
LeftOver ==
  /\ own # "none" => pc \in Serving
  /\ pc \in Serving \cup {"filing"} => trial \in logs
  /\ orphan \in Alive =>
       /\ orphanOf \in Attempts /\ orphanOf[2] \in (1..Trials) \cap logs
       /\ pc \in Working => orphanOf[2] # trial

\* The event file of the trial at hand is that of its own attempt, and tells of
\* a call served to its end only if its own server served it.
OwnEvents ==
  /\ pc \in Working => events[trial] \in {<<>>, Attempt}
  /\ pc = "judging" => moved = Attempt
  /\ \A a \in called : a[1] <= runs /\ (a[1] = runs => a[2] <= trial)
  /\ Attempt \in called => served = "own"
  /\ pc \in {"local", "public", "call"} => Attempt \notin called

\* The records of this run, in order, and the session record, one whole run.
RunRecords ==
  \A k \in 1..Len(records) :
    /\ records[k].attempt = <<runs, k>> /\ records[k].of = records[k].attempt
    /\ records[k].eligible => records[k].served = "own" /\ records[k].of \in called
    /\ records[k].successful => records[k].eligible

WholeSession ==
  session # <<>> =>
    /\ Len(session) = Trials
    /\ \A k \in 1..Trials : session[k].attempt = <<session[1].attempt[1], k>>

Recorded ==
  /\ RunRecords /\ WholeSession
  /\ raising => pc \in {"stopping", "restoring", "ended", "dead"}
  /\ pc \in Working => Len(records) = trial - 1
  /\ pc \in {"entering", "taking", "next"} => Len(records) = trial /\ trial <= Trials
  /\ pc \in {"restoring", "concluding"} /\ ~raising => Len(records) = Trials

-----------------------------------------------------------------------------
\* The lease alone: each step either keeps the lease's promise or marks it
\* broken.  It needs nothing of the rest of the run.
LEMMA LeaseStart == Init => Lease
  BY DEF Init, Lease, Working, Serving

LEMMA LeaseStep == Lease /\ [Next]_vars => Lease'
<1> SUFFICES ASSUME Lease, [Next]_vars PROVE Lease'
  OBVIOUS
<1> USE DEF Lease, Working, Serving, To, leaseVars
<1>1. CASE Begin BY <1>1 DEF Begin
<1>2. CASE Retrieve BY <1>2 DEF Retrieve
<1>3. CASE Take BY <1>3 DEF Take
<1>4. CASE Restore BY <1>4 DEF Restore
<1>5. CASE Conclude BY <1>5 DEF Conclude
<1>6. CASE NextTrial BY <1>6 DEF NextTrial, Unless
<1>7. CASE OwnReady \/ OwnBinds \/ OwnCrashes \/ OrphanReady \/ OrphanBinds \/ OrphanDies
  BY <1>7 DEF OwnReady, OwnBinds, OwnCrashes, OrphanReady, OrphanBinds, OrphanDies
<1>8. CASE Healthy BY <1>8 DEF Healthy
<1>9. CASE Call BY <1>9 DEF Call
<1>10. CASE CallEnds BY <1>10 DEF CallEnds
<1>11. CASE Stop BY <1>11 DEF Stop
<1>12. CASE FileLog BY <1>12 DEF FileLog
<1>13. CASE FileEvents BY <1>13 DEF FileEvents, Unless
<1>14. CASE Judge BY <1>14 DEF Judge
<1>15. CASE Killed BY <1>15 DEF Killed
<1>16. CASE UNCHANGED vars BY <1>16 DEF vars
<1> QED
  BY <1>1, <1>2, <1>3, <1>4, <1>5, <1>6, <1>7, <1>8, <1>9, <1>10, <1>11, <1>12,
     <1>13, <1>14, <1>15, <1>16 DEF Next

\* A run that is over, however it ended, has put the webhook back to what it found,
\* unless the API failed this run or it was killed while it held the lease.
THEOREM LeaseGivenBack == LiveSpec => []WebhookRestored
<1>1. Lease => WebhookRestored
  BY DEF Lease, WebhookRestored
<1> QED
  BY <1>1, LeaseStart, LeaseStep, PTL DEF LiveSpec

-----------------------------------------------------------------------------
(* The evidence is the trial's own *)

IInv == Shape /\ LeftOver /\ OwnEvents /\ Recorded

\* Only a file that tells of a served call makes a trial eligible.
LEMMA EligibleTold ==
  ASSUME NEW e \in Evidence, Eligible(e) PROVE moved \in called
<1> SUFFICES ASSUME moved \notin called PROVE FALSE
  OBVIOUS
<1>1. "instrumentation_complete" \notin Possible
  BY DEF Possible
<1>2. "instrumentation_complete" \notin e.facts
  BY <1>1 DEF Evidence
<1>3. "instrumentation_failure" \in Failures(e)
  BY <1>2 DEF Failures
<1> QED
  BY <1>3 DEF Eligible, Ineligible

LEMMA SuccessfulEligible ==
  ASSUME NEW e, Successful(e) PROVE Eligible(e)
  BY DEF Successful, Eligible

LEMMA TrialsNat == Trials \in Nat
  BY LiveRunConstants

LEMMA AttemptParts ==
  /\ \A a \in Attempts : a[1] \in Nat /\ a[2] \in Nat
  /\ Attempt[1] = runs /\ Attempt[2] = trial
  /\ runs \in Nat /\ trial \in Nat => Attempt \in Attempts
  BY DEF Attempts, Attempt

LEMMA Start == Init => IInv
<1> SUFFICES ASSUME Init PROVE IInv
  OBVIOUS
<1> USE TrialsNat DEF Init
<1>1. Shape
  <2>1. <<>> \in Seq(Record)
    BY EmptySeq
  <2> QED BY <2>1 DEF Shape, Working, Serving
<1>2. LeftOver
  BY DEF LeftOver, Alive, Working, Serving
<1>3. OwnEvents
  BY DEF OwnEvents, Attempt, Working, Serving
<1>4. Recorded
  <2>1. Len(<<>>) = 0
    BY EmptySeq
  <2>2. Len(records) = 0 /\ pc = "idle" /\ ~raising
    BY <2>1, Zenon
  <2> HIDE DEF Init
  <2>3. RunRecords
    BY <2>2 DEF RunRecords
  <2>4. WholeSession
    BY Zenon DEF Init, WholeSession
  <2> QED BY <2>2, <2>3, <2>4 DEF Recorded, Working, Serving
<1> QED
  BY <1>1, <1>2, <1>3, <1>4 DEF IInv

LEMMA ShapeStep == IInv /\ [Next]_vars => Shape'
<1> SUFFICES ASSUME IInv, [Next]_vars PROVE Shape'
  OBVIOUS
<1> USE TrialsNat DEF Shape, Working, Serving, To, leaseVars, serverVars, fileVars
<1> USE DEF IInv
<1>1. CASE Begin
  <2>1. <<>> \in Seq(Record)
    BY EmptySeq
  <2>a. runs' = runs + 1 /\ trial' = 0
    BY <1>1, Zenon DEF Begin
  <2>2. runs' \in Nat /\ trial' \in Nat
    BY <2>a
  <2>3. records' \in Seq(Record) /\ session' \in Seq(Record)
    BY <1>1, <2>1, Zenon DEF Begin
  <2>4. UNCHANGED <<events, called, served>> /\ pc' = "entering"
    BY <1>1 DEF Begin
  <2> QED BY <2>2, <2>3, <2>4
<1>2. CASE Retrieve BY <1>2 DEF Retrieve
<1>3. CASE Take BY <1>3 DEF Take
<1>4. CASE Restore BY <1>4 DEF Restore
<1>5. CASE Conclude BY <1>5 DEF Conclude
<1>6. CASE NextTrial BY <1>6 DEF NextTrial, Unless
<1>7. CASE OwnReady
  <2>1. Attempt \in Attempts
    BY AttemptParts
  <2> QED BY <1>7, <2>1 DEF OwnReady, Ready
<1>8. CASE OwnBinds \/ OwnCrashes \/ OrphanBinds \/ OrphanDies
  BY <1>8 DEF OwnBinds, OwnCrashes, OrphanBinds, OrphanDies
<1>9. CASE OrphanReady
  <2>1. orphanOf \in Attempts
    BY <1>9 DEF OrphanReady, LeftOver, Alive
  <2> QED BY <1>9, <2>1 DEF OrphanReady, Ready
<1>10. CASE Healthy BY <1>10 DEF Healthy
<1>11. CASE Call BY <1>11 DEF Call
<1>12. CASE CallEnds
  <2>1. Attempt \in Attempts
    BY AttemptParts
  <2> QED BY <1>12, <2>1 DEF CallEnds
<1>13. CASE Stop BY <1>13 DEF Stop
<1>14. CASE FileLog BY <1>14 DEF FileLog
<1>15. CASE FileEvents BY <1>15 DEF FileEvents, Unless
<1>16. CASE Judge
  <2>1. pc = "judging" /\ pc' \in {"next", "restoring"}
    BY <1>16 DEF Judge
  <2>2. records' \in Seq(Record)
    <3>1. CASE UNCHANGED records
      BY <3>1
    <3>2. CASE \E e \in Evidence :
             records' = Append(records, [attempt |-> Attempt, of |-> moved,
               served |-> served, eligible |-> Eligible(e), successful |-> Successful(e)])
      <4>1. PICK e \in Evidence :
             records' = Append(records, [attempt |-> Attempt, of |-> moved,
               served |-> served, eligible |-> Eligible(e), successful |-> Successful(e)])
        BY <3>2
      <4>2. Attempt \in Attempts /\ moved \in Attempts
        BY <2>1 DEF OwnEvents, Attempt, Attempts
      <4>3. Eligible(e) \in BOOLEAN /\ Successful(e) \in BOOLEAN
        BY DEF Eligible, Successful
      <4>4. [attempt |-> Attempt, of |-> moved, served |-> served,
             eligible |-> Eligible(e), successful |-> Successful(e)] \in Record
        BY <4>2, <4>3 DEF Record
      <4> QED BY <4>1, <4>4, AppendProperties
    <3> QED BY <1>16, <3>1, <3>2 DEF Judge
  <2> QED BY <1>16, <2>1, <2>2 DEF Judge
<1>17. CASE Killed BY <1>17 DEF Killed
<1>18. CASE UNCHANGED vars BY <1>18 DEF vars
<1> QED
  BY <1>1, <1>2, <1>3, <1>4, <1>5, <1>6, <1>7, <1>8, <1>9, <1>10, <1>11, <1>12,
     <1>13, <1>14, <1>15, <1>16, <1>17, <1>18 DEF Next

LEMMA LeftOverStep == IInv /\ [Next]_vars => LeftOver'
<1> SUFFICES ASSUME IInv, [Next]_vars PROVE LeftOver'
  OBVIOUS
<1> USE TrialsNat DEF LeftOver, Working, Serving, Alive, To, leaseVars, serverVars, fileVars
<1> USE DEF IInv
<1>1. CASE Begin BY <1>1 DEF Begin
<1>2. CASE Retrieve BY <1>2 DEF Retrieve
<1>3. CASE Take BY <1>3 DEF Take
<1>4. CASE Restore BY <1>4 DEF Restore
<1>5. CASE Conclude BY <1>5 DEF Conclude
<1>6. CASE NextTrial BY <1>6 DEF NextTrial, Unless, Shape, Recorded
<1>7. CASE OwnReady BY <1>7 DEF OwnReady, Ready
<1>8. CASE OwnBinds \/ OwnCrashes \/ OrphanBinds \/ OrphanDies
  BY <1>8 DEF OwnBinds, OwnCrashes, OrphanBinds, OrphanDies
<1>9. CASE OrphanReady BY <1>9 DEF OrphanReady, Ready
<1>10. CASE Healthy BY <1>10 DEF Healthy
<1>11. CASE Call BY <1>11 DEF Call
<1>12. CASE CallEnds BY <1>12 DEF CallEnds
<1>13. CASE Stop BY <1>13 DEF Stop
<1>14. CASE FileLog BY <1>14 DEF FileLog
<1>15. CASE FileEvents BY <1>15 DEF FileEvents, Unless
<1>16. CASE Judge BY <1>16 DEF Judge
<1>17. CASE Killed BY <1>17, AttemptParts DEF Killed, Shape
<1>18. CASE UNCHANGED vars BY <1>18 DEF vars
<1> QED
  BY <1>1, <1>2, <1>3, <1>4, <1>5, <1>6, <1>7, <1>8, <1>9, <1>10, <1>11, <1>12,
     <1>13, <1>14, <1>15, <1>16, <1>17, <1>18 DEF Next

LEMMA OwnEventsStep == IInv /\ [Next]_vars => OwnEvents'
<1> SUFFICES ASSUME IInv, [Next]_vars PROVE OwnEvents'
  OBVIOUS
<1> USE TrialsNat DEF OwnEvents, Attempt, Attempts, Working, Serving, To, leaseVars, serverVars, fileVars
<1> USE DEF IInv, Shape
<1>1. CASE Begin BY <1>1 DEF Begin
<1>2. CASE Retrieve BY <1>2 DEF Retrieve
<1>3. CASE Take BY <1>3 DEF Take
<1>4. CASE Restore BY <1>4 DEF Restore
<1>5. CASE Conclude BY <1>5 DEF Conclude
<1>6. CASE NextTrial BY <1>6 DEF NextTrial, Unless, Recorded
<1>7. CASE OwnReady BY <1>7 DEF OwnReady, Ready, LeftOver
<1>8. CASE OwnBinds \/ OwnCrashes \/ OrphanBinds \/ OrphanDies
  BY <1>8 DEF OwnBinds, OwnCrashes, OrphanBinds, OrphanDies
<1>9. CASE OrphanReady BY <1>9 DEF OrphanReady, Ready, LeftOver, Alive
<1>10. CASE Healthy BY <1>10 DEF Healthy
<1>11. CASE Call BY <1>11 DEF Call
<1>12. CASE CallEnds BY <1>12 DEF CallEnds
<1>13. CASE Stop BY <1>13 DEF Stop
<1>14. CASE FileLog BY <1>14 DEF FileLog
<1>15. CASE FileEvents BY <1>15 DEF FileEvents, Unless
<1>16. CASE Judge BY <1>16 DEF Judge
<1>17. CASE Killed BY <1>17 DEF Killed
<1>18. CASE UNCHANGED vars BY <1>18 DEF vars
<1> QED
  BY <1>1, <1>2, <1>3, <1>4, <1>5, <1>6, <1>7, <1>8, <1>9, <1>10, <1>11, <1>12,
     <1>13, <1>14, <1>15, <1>16, <1>17, <1>18 DEF Next

\* What an event file tells stays told.
LEMMA CalledGrows == [Next]_vars => called \subseteq called'
<1> SUFFICES ASSUME [Next]_vars PROVE called \subseteq called'
  OBVIOUS
<1>1. CASE CallEnds BY <1>1 DEF CallEnds
<1>2. CASE \/ Begin \/ Retrieve \/ Take \/ Restore \/ Conclude \/ NextTrial \/ Healthy
           \/ Call \/ Stop \/ FileLog \/ FileEvents \/ Judge \/ Killed
  BY <1>2 DEF Begin, Retrieve, Take, Restore, Conclude, NextTrial, Healthy, Call, Stop,
     FileLog, FileEvents, Judge, Killed, fileVars
<1>3. CASE OwnReady \/ OwnBinds \/ OwnCrashes \/ OrphanReady \/ OrphanBinds \/ OrphanDies
  BY <1>3 DEF OwnReady, OwnBinds, OwnCrashes, OrphanReady, OrphanBinds, OrphanDies, fileVars
<1>4. CASE UNCHANGED vars BY <1>4 DEF vars, fileVars
<1> QED
  BY <1>1, <1>2, <1>3, <1>4 DEF Next

LEMMA RecordedStep == IInv /\ [Next]_vars => Recorded'
<1> SUFFICES ASSUME IInv, [Next]_vars PROVE Recorded'
  OBVIOUS
<1> USE TrialsNat DEF Recorded, Working, Serving, To, leaseVars, serverVars, fileVars
<1>0. /\ Recorded /\ runs \in Nat /\ trial \in Nat
      /\ records \in Seq(Record) /\ session \in Seq(Record) /\ Len(records) \in Nat
  BY LenProperties DEF IInv, Shape
<1>c. called \subseteq called'
  BY CalledGrows
<1>a. UNCHANGED <<records, runs>> => RunRecords'
  BY <1>0, <1>c DEF RunRecords
<1>b. UNCHANGED session => WholeSession'
  BY <1>0 DEF WholeSession
<1> HIDE DEF IInv
<1>1. CASE Begin
  <2>1. trial' = 0 /\ pc' = "entering" /\ UNCHANGED session /\ ~raising'
    BY <1>1, Zenon DEF Begin
  <2>2. Len(records') = 0
    BY <1>1, EmptySeq, Zenon DEF Begin
  <2>3. RunRecords'
    BY <2>2 DEF RunRecords
  <2> QED BY <1>0, <1>b, <2>1, <2>2, <2>3
<1>2. CASE Retrieve BY <1>0, <1>a, <1>b, <1>2 DEF Retrieve
<1>3. CASE Take BY <1>0, <1>a, <1>b, <1>3 DEF Take
<1>4. CASE Restore BY <1>0, <1>a, <1>b, <1>4 DEF Restore
<1>5. CASE Conclude
  <2>1. UNCHANGED <<records, runs, trial, raising>> /\ pc' = "ended"
        /\ (UNCHANGED session \/ session' = records)
        /\ pc = "concluding" /\ ~raising
    BY <1>0, <1>5 DEF Conclude
  <2>2. session' = records => WholeSession'
    <3> SUFFICES ASSUME session' = records PROVE WholeSession'
      OBVIOUS
    <3>1. Len(records) = Trials
      BY <1>0, <2>1
    <3>2. \A k \in 1..Trials : records[k].attempt = <<runs, k>>
      BY <1>0, <3>1 DEF RunRecords
    <3>3. \A k \in 1..Trials : records[k].attempt = <<records[1].attempt[1], k>>
      BY <3>2
    <3> QED BY <3>1, <3>3 DEF WholeSession
  <2> QED BY <1>0, <1>a, <1>b, <2>1, <2>2
<1>6. CASE NextTrial
  <2>1. pc = "next" /\ trial' = trial + 1 /\ UNCHANGED <<runs, records, session>>
    BY <1>6 DEF NextTrial
  <2>2. \/ pc' = "restoring" /\ raising'
        \/ pc' = "restoring" /\ trial' > Trials
        \/ pc' = "local" /\ (raising' <=> raising)
    BY <1>6, Zenon DEF NextTrial, Unless
  <2>3. ~raising
    BY <1>0, <2>1
  <2> QED BY <1>0, <1>a, <1>b, <2>1, <2>2, <2>3
<1>7. CASE OwnReady BY <1>0, <1>a, <1>b, <1>7 DEF OwnReady, Ready
<1>8. CASE OwnBinds \/ OwnCrashes \/ OrphanBinds \/ OrphanDies
  <2>1. UNCHANGED <<pc, runs, trial, raising, records, session>>
    BY <1>8, Zenon DEF OwnBinds, OwnCrashes, OrphanBinds, OrphanDies
  <2> QED BY <1>0, <1>a, <1>b, <2>1
<1>9. CASE OrphanReady BY <1>0, <1>a, <1>b, <1>9 DEF OrphanReady, Ready
<1>10. CASE Healthy
  <2>1. pc \in {"local", "public"} /\ UNCHANGED <<runs, trial, records, session>>
    BY <1>10, Zenon DEF Healthy
  <2>2. \/ pc' = "stopping" /\ raising'
        \/ pc' \in {"public", "call"} /\ (raising' <=> raising)
    BY <1>10, Zenon DEF Healthy
  <2> QED BY <1>0, <1>a, <1>b, <2>1, <2>2
<1>11. CASE Call BY <1>0, <1>a, <1>b, <1>11 DEF Call
<1>12. CASE CallEnds
  <2>1. pc = "calling" /\ UNCHANGED <<runs, trial, records, session>>
    BY <1>12, Zenon DEF CallEnds
  <2>2. \/ pc' = "stopping" /\ raising'
        \/ pc' = "returned" /\ (raising' <=> raising)
    BY <1>12, Zenon DEF CallEnds
  <2> QED BY <1>0, <1>a, <1>b, <2>1, <2>2
<1>13. CASE Stop BY <1>0, <1>a, <1>b, <1>13 DEF Stop
<1>14. CASE FileLog
  <2>1. pc = "filing" /\ UNCHANGED <<runs, trial, records, session>>
    BY <1>14, Zenon DEF FileLog
  <2>2. \/ pc' = "restoring" /\ raising'
        \/ pc' = "moving" /\ (raising' <=> raising)
    BY <1>14, Zenon DEF FileLog
  <2> QED BY <1>0, <1>a, <1>b, <2>1, <2>2
<1>15. CASE FileEvents BY <1>0, <1>a, <1>b, <1>15 DEF FileEvents, Unless
<1>16. CASE Judge
  <2>1. CASE To("restoring") /\ raising' = TRUE /\ UNCHANGED records
    BY <1>0, <1>a, <1>b, <1>16, <2>1 DEF Judge
  <2>2. CASE \E e \in Evidence :
             records' = Append(records, [attempt |-> Attempt, of |-> moved,
               served |-> served, eligible |-> Eligible(e), successful |-> Successful(e)])
    <3>1. PICK e \in Evidence :
             records' = Append(records, [attempt |-> Attempt, of |-> moved,
               served |-> served, eligible |-> Eligible(e), successful |-> Successful(e)])
      BY <2>2
    <3>2. moved = Attempt /\ pc = "judging" /\ UNCHANGED <<runs, trial, session>>
      BY <1>16 DEF Judge, IInv, OwnEvents
    <3>3. Eligible(e) => served = "own" /\ moved \in called
      BY <3>2, EligibleTold DEF IInv, OwnEvents
    <3>4. Successful(e) => Eligible(e)
      BY SuccessfulEligible
    <3>5. Len(records') = Len(records) + 1 /\ Len(records) = trial - 1
      BY <1>0, <3>1, <3>2
    <3>6. RunRecords'
      BY <1>0, <1>c, <3>1, <3>2, <3>3, <3>4, <3>5 DEF RunRecords, Attempt
    <3>7. ~raising
      BY <1>0, <3>2
    <3>9. \/ pc' = "next" /\ (raising' <=> raising)
          \/ pc' = "restoring" /\ raising'
      BY <1>16, Zenon DEF Judge
    <3>8. pc' = "next" => trial <= Trials
      BY <3>2 DEF IInv, Shape
    <3> QED BY <1>0, <1>b, <3>2, <3>5, <3>6, <3>7, <3>8, <3>9
  <2> QED BY <1>16, <2>1, <2>2 DEF Judge
<1>17. CASE Killed BY <1>0, <1>a, <1>b, <1>17 DEF Killed
<1>18. CASE UNCHANGED vars BY <1>0, <1>a, <1>b, <1>18 DEF vars
<1> QED
  BY <1>1, <1>2, <1>3, <1>4, <1>5, <1>6, <1>7, <1>8, <1>9, <1>10, <1>11, <1>12,
     <1>13, <1>14, <1>15, <1>16, <1>17, <1>18 DEF Next

\* Every record is of the attempt's own events, an eligible trial was served by
\* its own server, and the session record is one whole run.
THEOREM EligibleIsOwn == LiveSpec => []EligibleServedByOwnServer
<1>1. Init => IInv
  BY Start
<1>2. IInv /\ [Next]_vars => IInv'
  BY ShapeStep, LeftOverStep, OwnEventsStep, RecordedStep DEF IInv
<1>3. IInv => EligibleServedByOwnServer
  BY LenProperties
     DEF IInv, Shape, Recorded, RunRecords, WholeSession, EligibleServedByOwnServer
<1> QED
  BY <1>1, <1>2, <1>3, PTL DEF LiveSpec
=============================================================================
