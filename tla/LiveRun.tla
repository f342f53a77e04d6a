------------------------------ MODULE LiveRun -------------------------------
(***************************************************************************)
(* The runner of the pre-registered benchmark (bench/live_phase3.py): it   *)
(* takes the application's webhook (bench/live_calibration.py), and for    *)
(* each trial starts a server, waits until one answers on its port, has    *)
(* the SIP harness call it, and judges the evidence left behind            *)
(* (bench/phase3.py).  It may raise anywhere, or be killed, and is then    *)
(* started again over whatever the earlier run left: files, a webhook, or  *)
(* a server that still holds the port.                                     *)
(*                                                                         *)
(* An attempt is <<run, trial>>.  A file is the attempt that wrote it; of  *)
(* an event file, whether its server served a call.                        *)
(***************************************************************************)
EXTENDS Integers, FiniteSets, Sequences

CONSTANTS
  Trials,      \* trials of the manifest
  MaxRuns,     \* bound: times the runner is started
  MaxDefects   \* bound: facts of one trial that are not as they should be

ASSUME LiveRunConstants == {Trials, MaxRuns, MaxDefects} \subseteq Nat

VARIABLES
  webhook,   \* the application's webhook URL
  lease,     \* WebhookLease.original_url
  taken,     \* the URL when the run took its lease
  pc,        \* where the run is
  runs,      \* runs started so far
  trial,     \* the scheduled trial
  raising,   \* an exception is on its way out
  broken,    \* this run's lease could not do its work: the API failed it, or a kill
  own,       \* this trial's server: "none", "starting", "ready", "bound", "exited"
  orphan,    \* the server of a run that was killed, likewise
  claimed,   \* which of the two served its one call
  served,    \* who took the harness's call: "nobody", "own" or "orphan"
  logs,      \* trials with a server log in the artifact root
  events,    \* per trial, the event file in the root: its attempt, or <<>>
  orphanOf,  \* the attempt the orphan was started for
  moved,     \* the event file filed with the artifact of this trial
  called,    \* attempts whose event file tells of a call served to its end
  records,   \* this run's trial records
  session    \* the session record, once written

leaseVars == <<webhook, lease, taken, broken>>
serverVars == <<own, orphan, orphanOf, claimed, served>>
fileVars == <<logs, events, moved, called>>
vars == <<leaseVars, pc, runs, trial, raising, serverVars, fileVars, records, session>>

Attempt == <<runs, trial>>
To(place) == pc' = place

-----------------------------------------------------------------------------
(* The webhook lease *)

Begin ==
  /\ pc \in {"idle", "ended", "dead"} /\ runs < MaxRuns
  /\ runs' = runs + 1 /\ trial' = 0 /\ records' = <<>> /\ raising' = FALSE
  /\ lease' = "none" /\ taken' = webhook /\ broken' = FALSE /\ To("entering")
  /\ UNCHANGED <<webhook, serverVars, fileVars, session>>

\* __aenter__: what is there now is what will be restored.  Entered or not, a
\* failure here is raised before the lease is held, so __aexit__ is not called.
Retrieve ==
  /\ pc = "entering"
  /\ \/ lease' = webhook /\ To("taking")
     \/ To("ended") /\ UNCHANGED lease
  /\ UNCHANGED <<webhook, taken, broken, runs, trial, raising, serverVars,
                 fileVars, records, session>>

Take ==
  /\ pc = "taking"
  /\ \/ /\ webhook' = "temporary" /\ To("next") /\ UNCHANGED broken
     \/ /\ webhook' \in {webhook, "temporary"}   \* PATCH, or the GET after it
        /\ broken' = TRUE /\ To("ended")
  /\ UNCHANGED <<lease, taken, runs, trial, raising, serverVars, fileVars,
                 records, session>>

\* Mutant of Restore: only a run that succeeded gives the webhook back.
RestoreAfterSuccess ==
  /\ pc = "restoring"
  /\ webhook' = IF raising THEN webhook ELSE lease
  /\ To(IF raising THEN "ended" ELSE "concluding")
  /\ UNCHANGED <<lease, taken, broken, runs, trial, raising, serverVars,
                 fileVars, records, session>>

\* __aexit__: on every way out.  A failure to restore replaces the exception.
Restore ==
  /\ pc = "restoring"
  /\ \/ webhook' = lease /\ To(IF raising THEN "ended" ELSE "concluding")
        /\ UNCHANGED broken
     \/ /\ webhook' \in {webhook, lease}
        /\ broken' = TRUE /\ To("ended")
  /\ UNCHANGED <<lease, taken, runs, trial, raising, serverVars, fileVars,
                 records, session>>

\* The session record is written once, after the last trial of a run.
Conclude ==
  /\ pc = "concluding" /\ To("ended")
  /\ session' = IF session = <<>> THEN records ELSE session
  /\ UNCHANGED <<leaseVars, runs, trial, raising, serverVars, fileVars, records>>

-----------------------------------------------------------------------------
(* The servers *)

Unless(condition, place) ==
  IF condition THEN To(place) /\ UNCHANGED raising
  ELSE To("restoring") /\ raising' = TRUE

\* The next trial: refused if its evidence exists, else its log is created
\* and its server started.
NextTrial ==
  /\ pc = "next"
  /\ trial' = trial + 1
  /\ IF trial' > Trials
     THEN To("restoring") /\ UNCHANGED <<raising, own, served, claimed, logs>>
     ELSE /\ Unless(trial' \notin logs /\ events[trial'] = <<>>, "local")
          /\ IF raising' THEN UNCHANGED <<own, served, claimed, logs>>
             ELSE /\ logs' = logs \cup {trial'} /\ own' = "starting"
                  /\ served' = "nobody" /\ claimed' = claimed \ {"own"}
  /\ UNCHANGED <<leaseVars, runs, orphan, orphanOf, events, moved, called, records, session>>

\* Starting up, a server creates its event file, or dies if there is one.
\* It then binds the port, or dies if the port is taken.
Ready(server, of) ==
  IF events[of[2]] = <<>>
  THEN events' = [events EXCEPT ![of[2]] = of] /\ server' = "ready"
  ELSE server' = "exited" /\ UNCHANGED events

OwnReady ==
  /\ own = "starting" /\ Ready(own, Attempt)
  /\ UNCHANGED <<leaseVars, pc, runs, trial, raising, orphan, orphanOf, claimed,
                 served, logs, moved, called, records, session>>

OwnBinds ==
  /\ own = "ready" /\ own' = IF orphan = "bound" THEN "exited" ELSE "bound"
  /\ UNCHANGED <<leaseVars, pc, runs, trial, raising, orphan, orphanOf, claimed,
                 served, fileVars, records, session>>

OwnCrashes ==
  /\ own \in {"starting", "ready", "bound"} /\ own' = "exited"
  /\ UNCHANGED <<leaseVars, pc, runs, trial, raising, orphan, orphanOf, claimed,
                 served, fileVars, records, session>>

OrphanReady ==
  /\ orphan = "starting" /\ Ready(orphan, orphanOf)
  /\ UNCHANGED <<leaseVars, pc, runs, trial, raising, own, orphanOf, claimed,
                 served, logs, moved, called, records, session>>

OrphanBinds ==
  /\ orphan = "ready" /\ orphan' = IF own = "bound" THEN "exited" ELSE "bound"
  /\ UNCHANGED <<leaseVars, pc, runs, trial, raising, own, orphanOf, claimed,
                 served, fileVars, records, session>>

OrphanDies ==
  /\ orphan \in {"starting", "ready", "bound"} /\ orphan' = "exited"
  /\ UNCHANGED <<leaseVars, pc, runs, trial, raising, own, orphanOf, claimed,
                 served, fileVars, records, session>>

\* _wait_health: at the port, then through the tunnel.  It asks whether this
\* trial's server is alive, and whether some server answers.
Healthy ==
  /\ pc \in {"local", "public"}
  /\ \/ /\ own # "exited" /\ "bound" \in {own, orphan}
        /\ To(IF pc = "local" THEN "public" ELSE "call") /\ UNCHANGED raising
     \/ To("stopping") /\ raising' = TRUE    \* it exited, or 20 s went by
  /\ UNCHANGED <<leaseVars, runs, trial, serverVars, fileVars, records, session>>

-----------------------------------------------------------------------------
(* The call *)

\* The harness calls; whichever server has the port serves it, if it has
\* served none so far.
Call ==
  /\ pc = "call" /\ To("calling")
  /\ LET at == IF own = "bound" THEN "own" ELSE IF orphan = "bound" THEN "orphan"
               ELSE "nobody" IN
     IF at = "nobody" \/ at \in claimed THEN UNCHANGED <<served, claimed>>
     ELSE served' = at /\ claimed' = claimed \cup {at}
  /\ UNCHANGED <<leaseVars, runs, trial, raising, own, orphan, orphanOf, fileVars,
                 records, session>>

\* The harness ends.  The events of a call served to its end are complete
\* once its server has torn the response down.
CallEnds ==
  /\ pc = "calling"
  /\ called' \in IF served = "own" /\ events[trial] = Attempt
                 THEN {called, called \cup {Attempt}} ELSE {called}
  /\ \/ To("returned") /\ UNCHANGED raising
     \/ To("stopping") /\ raising' = TRUE     \* its return code, or artifacts
  /\ UNCHANGED <<leaseVars, runs, trial, serverVars, logs, events, moved, records, session>>

\* _stop_process: terminated, at the latest killed.
Stop ==
  /\ pc \in {"stopping", "returned"}
  /\ own' = "none" /\ To(IF raising THEN "restoring" ELSE "filing")
  /\ UNCHANGED <<leaseVars, runs, trial, raising, orphan, orphanOf, claimed,
                 served, fileVars, records, session>>

\* The log and the events go with the harness's artifact.  A call whose
\* artifact cannot be told, or that left no events, raises.
FileLog ==
  /\ pc = "filing"
  /\ \/ To("moving") /\ logs' = logs \ {trial} /\ UNCHANGED raising
     \/ To("restoring") /\ raising' = TRUE /\ UNCHANGED logs
  /\ UNCHANGED <<leaseVars, runs, trial, serverVars, events, moved, called, records, session>>

FileEvents ==
  /\ pc = "moving" /\ Unless(events[trial] # <<>>, "judging")
  /\ moved' = events[trial] /\ events' = [events EXCEPT ![trial] = <<>>]
  /\ UNCHANGED <<leaseVars, runs, trial, serverVars, logs, called, records, session>>

-----------------------------------------------------------------------------
(* The verdict on a trial *)

Facts == {"agent_audio_active", "stimulus_started", "stimulus_delivered",
          "media_capture_present", "configuration_matches", "event_order_valid",
          "instrumentation_complete", "transport_complete", "acoustic_stop_found",
          "stop_before_natural_end", "no_stale_audio", "next_response_based_on_turn"}

\* classify_trial() for a trial with a stimulus, as every trial here is.
Failures(e) ==
  LET Failure(name, applies) == IF applies THEN {name} ELSE {}
      Lacks(f) == f \notin e.facts IN
  UNION {Failure("agent_never_spoke", Lacks("agent_audio_active")),
         Failure("stimulus_started_without_agent_audio",
                 Lacks("agent_audio_active") /\ ~Lacks("stimulus_started")),
         Failure("stimulus_delivery_failed",
                 Lacks("stimulus_started") \/ Lacks("stimulus_delivered")),
         Failure("media_capture_missing", Lacks("media_capture_present")),
         Failure("configuration_mismatch", Lacks("configuration_matches")),
         Failure("invalid_event_order", Lacks("event_order_valid")),
         Failure("instrumentation_failure", Lacks("instrumentation_complete")),
         Failure("call_transport_failure", Lacks("transport_complete")),
         Failure("trigger_not_observed", e.triggers = 0),
         Failure("interrupt_action_not_observed", e.triggers > 0 /\ e.actions = 0),
         Failure("duplicate_interrupt_action", e.actions > 1),
         Failure("natural_utterance_end",
                 ~Lacks("acoustic_stop_found") /\ Lacks("stop_before_natural_end")),
         Failure("acoustic_stop_not_found", Lacks("acoustic_stop_found")),
         Failure("caller_turn_lost", e.turns = 0),
         Failure("caller_turn_duplicated", e.turns > 1),
         Failure("stale_audio_resumed", Lacks("no_stale_audio"))}

Ineligible == {"agent_never_spoke", "stimulus_started_without_agent_audio",
               "stimulus_delivery_failed", "media_capture_missing",
               "invalid_event_order", "instrumentation_failure",
               "configuration_mismatch"}

Eligible(e) == Failures(e) \cap Ineligible = {}
Successful(e) ==
  /\ Failures(e) = {} /\ e.triggers = 1 /\ e.actions = 1 /\ e.turns = 1
  /\ "next_response_based_on_turn" \in e.facts

Defects == {d \in SUBSET Facts : Cardinality(d) <= MaxDefects}

\* Mutant of Possible: the events required of the agent leave out the claim
\* of the call and what follows from it.
PossibleUnclaimed ==
  Facts \ (IF served = "nobody" THEN {"agent_audio_active", "stimulus_started"} ELSE {})

\* What the harness and the events of this attempt can say: without a call
\* the agent was not heard, and only a file that tells of a served call has
\* every event a trial needs, or any trigger, action or turn.
Possible ==
  Facts \ ((IF served = "nobody" THEN {"agent_audio_active", "stimulus_started"} ELSE {})
    \cup (IF moved \in called THEN {} ELSE {"instrumentation_complete"}))
Counts == IF moved \in called THEN 0..2 ELSE {0}

Evidence ==
  [facts : {Possible \ d : d \in Defects},
   triggers : Counts, actions : Counts, turns : Counts]

\* _classify, and the record written beside the evidence.  Evidence that
\* cannot be read raises: the attempt then has no record.
Judge ==
  /\ pc = "judging"
  /\ \/ /\ \E e \in Evidence :
             records' = Append(records, [attempt |-> Attempt, of |-> moved,
               served |-> served, eligible |-> Eligible(e), successful |-> Successful(e)])
        /\ To("next") /\ UNCHANGED raising
     \/ To("restoring") /\ raising' = TRUE /\ UNCHANGED records
  /\ UNCHANGED <<leaseVars, runs, trial, serverVars, fileVars, session>>

\* A kill: the lease is not given back, the trial's server goes on.  The
\* harness may go on too, but its call has then been taken or lost.
Killed ==
  /\ pc \notin {"idle", "ended", "dead"}
  /\ To("dead") /\ own' = "none"
  /\ broken' = (broken \/ webhook # taken)
  /\ IF own \in {"starting", "ready", "bound"} /\ orphan \in {"none", "exited"}
     THEN /\ orphan' = own /\ orphanOf' = Attempt
          /\ claimed' = IF "own" \in claimed THEN {"orphan"} ELSE {}
     ELSE UNCHANGED <<orphan, orphanOf, claimed>>
  /\ UNCHANGED <<webhook, lease, taken, runs, trial, raising, served, fileVars,
                 records, session>>

Init ==
  /\ webhook = "original" /\ lease = "none" /\ taken = "original" /\ broken = FALSE
  /\ pc = "idle" /\ runs = 0 /\ trial = 0 /\ raising = FALSE
  /\ own = "none" /\ orphan = "none" /\ orphanOf = <<>> /\ claimed = {}
  /\ served = "nobody" /\ logs = {} /\ events = [t \in 1..Trials |-> <<>>]
  /\ moved = <<>> /\ called = {} /\ records = <<>> /\ session = <<>>

Next ==
  \/ Begin \/ Retrieve \/ Take \/ Restore \/ Conclude \/ NextTrial
  \/ OwnReady \/ OwnBinds \/ OwnCrashes \/ OrphanReady \/ OrphanBinds \/ OrphanDies
  \/ Healthy \/ Call \/ CallEnds \/ Stop \/ FileLog \/ FileEvents \/ Judge \/ Killed

LiveSpec == Init /\ [][Next]_vars

-----------------------------------------------------------------------------
(* Properties *)

\* A trial is judged on the events of its own attempt; an eligible one was
\* served by the server started for it, although the health check asks only
\* whether some server answers, and its events tell of that call to its end;
\* and the session record holds every trial of one run, in order
\* (live_phase3.py:113-126, 413-426, 500-520, 528-536).
EligibleServedByOwnServer ==
  /\ \A k \in DOMAIN records :
       /\ records[k].of = records[k].attempt
       /\ records[k].eligible => records[k].served = "own" /\ records[k].of \in called
       /\ records[k].successful => records[k].eligible
  /\ session # <<>> =>
       /\ Len(session) = Trials
       /\ \A k \in 1..Trials : session[k].attempt = <<session[1].attempt[1], k>>

\* A run that is over, however it ended, has put the webhook back to what it
\* found, unless the API failed this run or it was killed while it held the
\* lease; what happened to earlier runs excuses nothing.  What it found is the
\* original only if no earlier run was excused: a run that follows a kill takes
\* the temporary URL for the original, as the code does (live_calibration.py:76-96).
WebhookRestored == pc \in {"ended", "dead"} /\ ~broken => webhook = taken
=============================================================================
