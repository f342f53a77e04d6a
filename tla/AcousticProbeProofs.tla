------------------------ MODULE AcousticProbeProofs ------------------------
(***************************************************************************)
(* Proofs about the acoustic probe.  For both kinds of probe and runs of   *)
(* any length: the bridge is requested once and a role is admitted once,   *)
(* and nothing is measured before what it is measured against.             *)
(*                                                                         *)
(* And about its sockets (MediaCapture).  For every capacity, lifetime and *)
(* number of tokens: a token admits one socket, of its role, while it      *)
(* lasts, no token that can still be used is lost, and one is refused only *)
(* when the store is full of those.  For every stream, and however its     *)
(* frames are lost, repeated and reordered: the counts of a run that hit   *)
(* no limit are zero exactly when its numbers are unbroken.                *)
(***************************************************************************)
EXTENDS AcousticProbe, MediaCapture, SequenceTheorems, FiniteSetTheorems, TLAPS

Places == {"off", "open", "waiting", "running", "requesting", "stimulus", "matched",
           "closing", "hanging", "gone"}
Milestones == {"ANSWERED", "BRIDGED", "CONNECTED", "AGENT_AUDIO", "STIMULUS_STARTED",
               "STIMULUS_COMPLETED", "POST_STIMULUS", "COMPLETED"}
Steps == {"new", "done"} \cup AllRoles

-----------------------------------------------------------------------------
(* Types, in the parts that the actions disturb *)

CallTypes ==
  /\ dial \in {"dialing", "done", "failed", "cancelled"}
  /\ legs \subseteq Legs /\ answered \subseteq legs
  /\ hook \in [Webhooks -> Steps] /\ bridges \in Nat
StreamTypes == streams \subseteq Roles /\ tokens \subseteq streams /\ authed \subseteq streams
SocketTypes ==
  /\ sock \in [AllRoles -> Places]
  /\ ready \subseteq {"probe", "agent"} /\ greeting \in BOOLEAN
  /\ stimulus \in {"none", "armed", "claimed", "sending", "completed", "failed"}
ProgressType == states \subseteq Milestones
VerdictTypes == failed \in BOOLEAN /\ manifest \in {"CONDITIONAL_GO", "NO_GO", "COMPLETE"}
EndTypes ==
  /\ life \in {"up", "ending", "down"} /\ target \subseteq legs
  /\ watch \in {"watching", "hanging", "ended"} /\ hang \in {"none", "running", "done"}

LEMMA TypeParts ==
  TypeOK <=> /\ receiveOnly \in ReceiveOnly /\ CallTypes /\ StreamTypes /\ SocketTypes
             /\ ProgressType /\ VerdictTypes /\ EndTypes
  BY Zenon DEF TypeOK, CallTypes, StreamTypes, SocketTypes, ProgressType, VerdictTypes,
               EndTypes, Places, Milestones, Steps

LEMMA TypePartsNext ==
  /\ receiveOnly' \in ReceiveOnly /\ CallTypes' /\ StreamTypes' /\ SocketTypes'
  /\ ProgressType' /\ VerdictTypes' /\ EndTypes'
  => TypeOK'
  BY Zenon DEF TypeOK, CallTypes, StreamTypes, SocketTypes, ProgressType, VerdictTypes,
               EndTypes, Places, Milestones, Steps, Webhooks, AllRoles, Roles, Legs

LEMMA TypeStart == Init => TypeOK
<1> SUFFICES ASSUME Init PROVE TypeOK
  OBVIOUS
<1>1. CallTypes
  BY DEF Init, CallTypes, Steps
<1>2. StreamTypes /\ ProgressType
  BY DEF Init, StreamTypes, ProgressType
<1>3. SocketTypes
  BY DEF Init, SocketTypes, Places
<1>4. VerdictTypes /\ EndTypes
  BY DEF Init, VerdictTypes, EndTypes
<1> QED BY <1>1, <1>2, <1>3, <1>4, TypeParts DEF Init

\* A part of the types stands as long as its variables do.
LEMMA TypesKept ==
  ASSUME TypeOK, receiveOnly' = receiveOnly
  PROVE  /\ receiveOnly' \in ReceiveOnly
         /\ UNCHANGED callVars => CallTypes'
         /\ UNCHANGED <<dial, legs, hook, answered, bridges>> => CallTypes'
         /\ UNCHANGED <<callVars, tokens, authed>> => StreamTypes'
         /\ UNCHANGED <<streams, tokens, authed>> => StreamTypes'
         /\ UNCHANGED <<callVars, sockVars>> => StreamTypes'
         /\ UNCHANGED <<streams, sockVars>> => StreamTypes'
         /\ UNCHANGED sockVars => SocketTypes'
         /\ UNCHANGED <<sock, ready, greeting, stimulus>> => SocketTypes'
         /\ states' = states => ProgressType'
         /\ UNCHANGED verdictVars => VerdictTypes'
         /\ UNCHANGED <<callVars, endVars>> => EndTypes'
         /\ UNCHANGED <<legs, endVars>> => EndTypes'
<1> /\ receiveOnly \in ReceiveOnly /\ CallTypes /\ StreamTypes /\ SocketTypes
    /\ ProgressType /\ VerdictTypes /\ EndTypes
  BY TypeParts
<1>1. receiveOnly' \in ReceiveOnly
  OBVIOUS
<1>2. UNCHANGED <<dial, legs, hook, answered, bridges>> => CallTypes'
  BY Zenon DEF CallTypes, Legs, Webhooks, Steps, AllRoles
<1>3. UNCHANGED callVars => UNCHANGED <<dial, legs, hook, answered, bridges, streams>>
  BY Zenon DEF callVars
<1>4. UNCHANGED <<streams, tokens, authed>> => StreamTypes'
  BY Zenon DEF StreamTypes, Roles
<1>5. UNCHANGED sockVars => UNCHANGED <<tokens, authed, sock, ready, greeting, stimulus>>
  BY Zenon DEF sockVars
<1>6. UNCHANGED <<sock, ready, greeting, stimulus>> => SocketTypes'
  BY Zenon DEF SocketTypes, AllRoles, Places
<1>7. states' = states => ProgressType'
  BY Zenon DEF ProgressType, Milestones
<1>8. UNCHANGED verdictVars => VerdictTypes'
  BY Zenon DEF VerdictTypes, verdictVars
<1>9. UNCHANGED <<legs, endVars>> => EndTypes'
  BY Zenon DEF EndTypes, endVars
<1> QED BY Zenon, <1>1, <1>2, <1>3, <1>4, <1>5, <1>6, <1>7, <1>8, <1>9

LEMMA VerdictType == TypeOK /\ (Fail \/ Acts) => VerdictTypes'
<1>1. TypeOK => VerdictTypes
  BY TypeParts
<1> QED BY <1>1 DEF VerdictTypes, Fail, Acts, verdictVars

LEMMA HookType ==
  ASSUME TypeOK, NEW w \in Webhooks, NEW where \in Steps, At(w, where)
  PROVE  hook' \in [Webhooks -> Steps]
<1>1. hook \in [Webhooks -> Steps]
  BY TypeParts DEF CallTypes
<1> QED BY <1>1 DEF At

LEMMA MoveType ==
  ASSUME TypeOK, NEW r \in AllRoles, NEW where \in Places, Move(r, where)
  PROVE  sock' \in [AllRoles -> Places]
<1>1. sock \in [AllRoles -> Places]
  BY TypeParts DEF SocketTypes
<1> QED BY <1>1 DEF Move

\* A handler goes on, and its socket is all that changes of the sockets.
LEMMA MovesOn ==
  ASSUME TypeOK, NEW r \in AllRoles, NEW where \in Places, Move(r, where),
         UNCHANGED <<ready, greeting, stimulus>>
  PROVE  SocketTypes'
<1>1. ready \subseteq {"probe", "agent"} /\ greeting \in BOOLEAN
      /\ stimulus \in {"none", "armed", "claimed", "sending", "completed", "failed"}
  BY TypeParts DEF SocketTypes
<1>2. sock' \in [AllRoles -> Places]
  BY MoveType
<1> QED BY Zenon, <1>1, <1>2 DEF SocketTypes, AllRoles, Places

LEMMA RoleNames ==
  /\ Roles \subseteq AllRoles /\ "probe" \in AllRoles /\ "agent" \in AllRoles
  /\ AllRoles \subseteq Steps /\ {"new", "done"} \subseteq Steps
  BY DEF Roles, AllRoles, Steps

LEMMA PlaceNames ==
  {"off", "open", "waiting", "running", "requesting", "stimulus", "matched", "closing",
   "hanging", "gone"} \subseteq Places
  BY DEF Places

LEMMA WebhookNames ==
  /\ \A leg \in Legs : AnsweredWebhook[leg] \in Webhooks /\ BridgedWebhook[leg] \in Webhooks
  /\ {"initiated_b", "answered_b", "bridged_a", "bridged_b"} \subseteq Webhooks
  BY DEF Legs, AnsweredWebhook, BridgedWebhook, Webhooks

\* What starting a stream leaves of the types.
LEMMA StreamType ==
  ASSUME TypeOK, NEW w \in Webhooks, NEW r \in Roles, StartStream(w, r),
         authed' = authed, receiveOnly' = receiveOnly
  PROVE  hook' \in [Webhooks -> Steps] /\ StreamTypes'
<1>1. r \in Steps
  BY RoleNames
<1>2. hook' \in [Webhooks -> Steps]
  BY <1>1, HookType DEF StartStream
<1>3. StreamTypes
  BY TypeParts
<1>4. Roles' = Roles
  BY DEF Roles
<1>5. streams' = streams \cup {r} /\ tokens' = tokens \cup {r}
  BY DEF StartStream
<1> QED BY <1>2, <1>3, <1>4, <1>5 DEF StreamTypes

LEMMA NextStreamType ==
  ASSUME TypeOK, NEW w \in Webhooks, NextStream(w), authed' = authed, receiveOnly' = receiveOnly
  PROVE  hook' \in [Webhooks -> Steps] /\ StreamTypes'
<1>1. ASSUME NEW r \in Roles, StartStream(w, r)
      PROVE  hook' \in [Webhooks -> Steps] /\ StreamTypes'
  BY <1>1, StreamType
<1>2. (\E r \in Roles : StartStream(w, r)) \/ (At(w, "done") /\ UNCHANGED <<streams, tokens>>)
  BY DEF NextStream
<1>3. CASE At(w, "done") /\ UNCHANGED <<streams, tokens>>
  BY <1>3, HookType, RoleNames, TypesKept
<1> QED BY <1>1, <1>2, <1>3

\* The calls' part, when a webhook was handled and perhaps a leg answered.
LEMMA WebhookType ==
  ASSUME TypeOK, hook' \in [Webhooks -> Steps], UNCHANGED <<dial, legs>>, bridges' \in Nat,
         answered' \subseteq legs
  PROVE  CallTypes'
<1>1. CallTypes
  BY TypeParts
<1> QED BY Zenon, <1>1 DEF CallTypes, Legs, Webhooks, Steps, AllRoles

LEMMA MaybeBridgeType ==
  ASSUME TypeOK, NEW w \in Webhooks, NEW ans, MaybeBridge(w, ans)
  PROVE  hook' \in [Webhooks -> Steps] /\ bridges' \in Nat /\ ProgressType' /\ VerdictTypes'
<1>1. bridges \in Nat /\ ProgressType /\ VerdictTypes
  BY TypeParts DEF CallTypes
<1>2. hook' \in [Webhooks -> Steps]
  BY HookType, RoleNames DEF MaybeBridge
<1>3. bridges' \in Nat
  BY <1>1 DEF MaybeBridge
<1>4. states' = states \/ states' = states \cup {"ANSWERED"}
  BY DEF MaybeBridge
<1>5. UNCHANGED verdictVars \/ Fail
  BY Zenon DEF MaybeBridge, Acts, verdictVars
<1>6. VerdictTypes'
  BY <1>5, VerdictType DEF Acts
<1> QED BY <1>1, <1>2, <1>3, <1>4, <1>6 DEF ProgressType, Milestones

\* Whoever hangs up first hangs up the legs there are.
LEMMA HangType ==
  ASSUME TypeOK, StartHang, legs' = legs, life' \in {"up", "ending", "down"},
         watch' \in {"watching", "hanging", "ended"}
  PROVE  EndTypes'
<1>1. EndTypes
  BY TypeParts
<1> QED BY <1>1 DEF EndTypes, StartHang

LEMMA TypeStep == TypeOK /\ [Next]_vars => TypeOK'
<1> SUFFICES ASSUME TypeOK, [Next]_vars PROVE TypeOK'
  OBVIOUS
<1>p. /\ receiveOnly \in ReceiveOnly /\ CallTypes /\ StreamTypes /\ SocketTypes
      /\ ProgressType /\ VerdictTypes /\ EndTypes
  BY TypeParts
<1>1. CASE DialReturns
  <2>1. CallTypes' /\ EndTypes'
    BY <1>1, <1>p DEF DialReturns, CallTypes, EndTypes, Legs, Webhooks, endVars
  <2> QED BY <1>1, <2>1, TypesKept, TypePartsNext DEF DialReturns
<1>2. CASE DialFails
  <2>1. CallTypes'
    BY <1>2, <1>p DEF DialFails, CallTypes, Webhooks
  <2> QED BY <1>2, <2>1, TypesKept, VerdictType, TypePartsNext DEF DialFails
<1>3. CASE Initiated
  <2>1. hook' \in [Webhooks -> Steps]
    BY <1>3, HookType, WebhookNames, RoleNames DEF Initiated
  <2>2. CallTypes' /\ EndTypes'
    BY <1>3, <1>p, <2>1 DEF Initiated, CallTypes, EndTypes, Legs, Webhooks, endVars
  <2> QED BY <1>3, <2>2, TypesKept, VerdictType, TypePartsNext DEF Initiated
<1>4. CASE AgentStreamStarts
  <2>1. /\ MaybeBridge("answered_b", answered) /\ UNCHANGED <<receiveOnly, dial, legs>>
        /\ UNCHANGED <<streams, sockVars>> /\ UNCHANGED <<legs, endVars>>
        /\ answered' \subseteq legs
    BY <1>4, <1>p DEF AgentStreamStarts, CallTypes
  <2>2. CallTypes' /\ ProgressType' /\ VerdictTypes'
    BY <2>1, MaybeBridgeType, WebhookType, WebhookNames
  <2> QED BY <2>1, <2>2, TypesKept, TypePartsNext
<1>5. ASSUME NEW leg \in Legs, Answered(leg) PROVE TypeOK'
  <2> DEFINE w == AnsweredWebhook[leg]
  <2>1. w \in Webhooks /\ UNCHANGED <<dial, legs>> /\ receiveOnly' = receiveOnly
        /\ UNCHANGED <<legs, endVars>> /\ authed' = authed
        /\ UNCHANGED <<sock, ready, greeting, stimulus>>
    BY <1>5, WebhookNames DEF Answered
  <2>2. answered \subseteq legs /\ bridges \in Nat
    BY <1>p DEF CallTypes
  <2>3. \/ /\ At(w, "done")
           /\ UNCHANGED <<answered, streams, tokens, states, bridges, verdictVars>>
        \/ /\ answered' = answered \cup {leg} /\ leg \in legs
           /\ \/ StartStream(w, "agent") /\ UNCHANGED <<states, bridges, verdictVars>>
              \/ MaybeBridge(w, answered \cup {leg}) /\ UNCHANGED <<streams, tokens>>
    BY <1>5 DEF Answered
  <2> HIDE DEF w
  <2>4. CASE At(w, "done") /\ UNCHANGED <<answered, streams, tokens, states, bridges, verdictVars>>
    <3>1. CallTypes'
      BY <2>1, <2>2, <2>4, HookType, RoleNames, WebhookType
    <3> QED BY <2>1, <2>4, <3>1, TypesKept, TypePartsNext
  <2>5. CASE /\ answered' = answered \cup {leg} /\ leg \in legs
             /\ StartStream(w, "agent") /\ UNCHANGED <<states, bridges, verdictVars>>
    <3>1. "agent" \in Roles
      BY DEF Roles
    <3>2. hook' \in [Webhooks -> Steps] /\ StreamTypes'
      BY <2>1, <2>5, <3>1, StreamType
    <3>3. CallTypes'
      BY <2>1, <2>2, <2>5, <3>2, WebhookType
    <3> QED BY <2>1, <2>5, <3>2, <3>3, TypesKept, TypePartsNext
  <2>6. CASE /\ answered' = answered \cup {leg} /\ leg \in legs
             /\ MaybeBridge(w, answered \cup {leg}) /\ UNCHANGED <<streams, tokens>>
    <3>1. hook' \in [Webhooks -> Steps] /\ bridges' \in Nat /\ ProgressType' /\ VerdictTypes'
      BY <2>1, <2>6, MaybeBridgeType
    <3>2. CallTypes'
      BY <2>1, <2>2, <2>6, <3>1, WebhookType
    <3> QED BY <2>1, <2>6, <3>1, <3>2, TypesKept, TypePartsNext
  <2> QED BY <2>3, <2>4, <2>5, <2>6
<1>6. ASSUME NEW leg \in Legs, Bridged(leg) PROVE TypeOK'
  <2>1. /\ NextStream(BridgedWebhook[leg]) /\ states' = states \cup {"BRIDGED"}
        /\ UNCHANGED <<receiveOnly, dial, legs, answered, bridges, authed>>
        /\ UNCHANGED <<sock, ready, greeting, stimulus>>
        /\ UNCHANGED verdictVars /\ UNCHANGED endVars
    BY <1>6 DEF Bridged
  <2>2. hook' \in [Webhooks -> Steps] /\ StreamTypes'
    BY <2>1, WebhookNames, NextStreamType
  <2>3. CallTypes'
    BY <1>p, <2>1, <2>2, WebhookType DEF CallTypes
  <2>4. ProgressType'
    BY <1>p, <2>1 DEF ProgressType, Milestones
  <2> QED BY <2>1, <2>2, <2>3, <2>4, TypesKept, TypePartsNext
<1>7. ASSUME NEW leg \in Legs, HungUpByFarEnd(leg) PROVE TypeOK'
  BY <1>7, TypesKept, VerdictType, TypePartsNext DEF HungUpByFarEnd
<1>8. ASSUME NEW w \in Webhooks, StreamRefused(w) PROVE TypeOK'
  <2>1. hook' \in [Webhooks -> Steps]
    BY <1>8, HookType, RoleNames DEF StreamRefused
  <2>2. CallTypes'
    BY <1>8, <1>p, <2>1, WebhookType DEF StreamRefused, CallTypes
  <2> QED BY <1>8, <2>2, TypesKept, VerdictType, TypePartsNext DEF StreamRefused
<1>9. ASSUME NEW w \in Webhooks, StreamStarts(w) PROVE TypeOK'
  <2>1. /\ NextStream(w) /\ UNCHANGED <<receiveOnly, dial, legs, answered, bridges, authed>>
        /\ states' = states /\ UNCHANGED <<sock, ready, greeting, stimulus>>
        /\ UNCHANGED verdictVars /\ UNCHANGED endVars
    BY <1>9 DEF StreamStarts
  <2>2. hook' \in [Webhooks -> Steps] /\ StreamTypes'
    BY <2>1, NextStreamType
  <2>3. CallTypes'
    BY <1>p, <2>1, <2>2, WebhookType DEF CallTypes
  <2> QED BY <2>1, <2>2, <2>3, TypesKept, TypePartsNext
<1>10. ASSUME NEW r \in Roles, Connects(r) PROVE TypeOK'
  <2>1. SocketTypes'
    BY <1>10, MovesOn, RoleNames, PlaceNames DEF Connects
  <2>2. streams' = streams /\ Roles' = Roles
    BY <1>10 DEF Connects, callVars, Roles
  <2>3. StreamTypes'
    BY <1>10, <1>p, <2>2 DEF Connects, StreamTypes
  <2>4. ProgressType'
    BY <1>10, <1>p DEF Connects, ProgressType, Milestones
  <2> QED BY <1>10, <2>1, <2>3, <2>4, TypesKept, TypePartsNext DEF Connects
<1>11. ASSUME NEW r \in Roles, RejectsSocket(r) PROVE TypeOK'
  <2>1. Left(r) \in Places
    BY PlaceNames DEF Left
  <2>2. SocketTypes'
    BY <1>11, <2>1, MovesOn, RoleNames DEF RejectsSocket
  <2>3. streams' = streams /\ Roles' = Roles
    BY <1>11 DEF RejectsSocket, callVars, Roles
  <2>4. StreamTypes'
    BY <1>11, <1>p, <2>3 DEF RejectsSocket, StreamTypes
  <2> QED BY <1>11, <2>2, <2>4, TypesKept, VerdictType, TypePartsNext DEF RejectsSocket
<1>12. ASSUME NEW r \in Roles, StartFrame(r) PROVE TypeOK'
  <2>1. sock' \in [AllRoles -> Places]
    BY <1>12, MoveType, RoleNames, PlaceNames DEF StartFrame
  <2>2. ready' \subseteq {"probe", "agent"}
    BY <1>12, <1>p DEF StartFrame, Channel, SocketTypes
  <2>3. SocketTypes'
    BY <1>12, <1>p, <2>1, <2>2 DEF StartFrame, SocketTypes, AllRoles, Places
  <2> QED BY <1>12, <2>3, TypesKept, TypePartsNext DEF StartFrame
<1>13. ASSUME NEW r \in Roles, SocketFails(r) PROVE TypeOK'
  <2>1. SocketTypes'
    BY <1>13, MovesOn, RoleNames, PlaceNames DEF SocketFails
  <2> QED BY <1>13, <2>1, TypesKept, VerdictType, TypePartsNext DEF SocketFails
<1>14. CASE ProbeBridged
  <2>1. SocketTypes'
    BY <1>14, MovesOn, RoleNames, PlaceNames DEF ProbeBridged
  <2> QED BY <1>14, <2>1, TypesKept, TypePartsNext DEF ProbeBridged
<1>15. CASE AgentStarts
  <2>1. SocketTypes'
    BY <1>15, MovesOn, RoleNames, PlaceNames DEF AgentStarts
  <2> QED BY <1>15, <2>1, TypesKept, TypePartsNext DEF AgentStarts
<1>16. CASE GreetingStarts
  <2>1. SocketTypes'
    BY <1>16, <1>p DEF GreetingStarts, SocketTypes
  <2> QED BY <1>16, <2>1, TypesKept, TypePartsNext DEF GreetingStarts
<1>17. CASE HearsGreeting
  <2>1. /\ stimulus' \in {"armed", "sending"}
        /\ states' = states \cup {"AGENT_AUDIO"}
             \/ states' = states \cup {"AGENT_AUDIO", "STIMULUS_STARTED"}
        /\ Move("probe", "requesting") \/ Move("probe", "stimulus")
        /\ UNCHANGED <<receiveOnly, callVars, tokens, authed, ready, greeting,
                        verdictVars, endVars>>
    BY <1>17 DEF HearsGreeting
  <2>2. sock' \in [AllRoles -> Places]
    BY <2>1, MoveType, RoleNames, PlaceNames
  <2>3. SocketTypes'
    BY <1>p, <2>1, <2>2 DEF SocketTypes
  <2>4. ProgressType'
    BY <1>p, <2>1 DEF ProgressType, Milestones
  <2> QED BY <2>1, <2>3, <2>4, TypesKept, TypePartsNext
<1>18. CASE PlaybackRequested
  <2>1. SocketTypes'
    BY <1>18, MovesOn, RoleNames, PlaceNames DEF PlaybackRequested
  <2> QED BY <1>18, <2>1, TypesKept, TypePartsNext DEF PlaybackRequested
<1>19. CASE FixtureClaimed
  <2>1. SocketTypes'
    BY <1>19, <1>p DEF FixtureClaimed, SocketTypes
  <2> QED BY <1>19, <2>1, TypesKept, TypePartsNext DEF FixtureClaimed
<1>31. CASE HandoffStarts
  <2>1. SocketTypes'
    BY <1>31, <1>p DEF HandoffStarts, SocketTypes
  <2>2. ProgressType'
    BY <1>31, <1>p DEF HandoffStarts, ProgressType, Milestones
  <2> QED BY <1>31, <2>1, <2>2, TypesKept, TypePartsNext DEF HandoffStarts
<1>32. CASE StimulusSent
  <2>1. SocketTypes'
    BY <1>32, <1>p DEF StimulusSent, SocketTypes
  <2> QED BY <1>32, <2>1, TypesKept, TypePartsNext DEF StimulusSent
<1>20. CASE MatchesStimulus
  <2>1. SocketTypes'
    BY <1>20, MovesOn, RoleNames, PlaceNames DEF MatchesStimulus
  <2>2. ProgressType'
    BY <1>20, <1>p DEF MatchesStimulus, ProgressType, Milestones
  <2> QED BY <1>20, <2>1, <2>2, TypesKept, TypePartsNext DEF MatchesStimulus
<1>21. CASE CapturesResponse
  <2>1. SocketTypes'
    BY <1>21, MovesOn, RoleNames, PlaceNames DEF CapturesResponse
  <2>2. ProgressType'
    BY <1>21, <1>p DEF CapturesResponse, ProgressType, Milestones
  <2>3. VerdictTypes'
    BY <1>21, <1>p DEF CapturesResponse, VerdictTypes, Fail
  <2> QED BY <1>21, <2>1, <2>2, <2>3, TypesKept, TypePartsNext DEF CapturesResponse
<1>22. CASE ProbeFails
  <2>1. SocketTypes'
    BY <1>22, MovesOn, RoleNames, PlaceNames DEF ProbeFails
  <2> QED BY <1>22, <2>1, TypesKept, VerdictType, TypePartsNext DEF ProbeFails
<1>23. CASE ProbeCloses
  <2>1. sock' \in [AllRoles -> Places]
    BY <1>23, MoveType, RoleNames, PlaceNames DEF ProbeCloses
  <2>2. SocketTypes'
    BY <1>23, <1>p, <2>1 DEF ProbeCloses, SocketTypes
  <2>3. legs' = legs
    BY <1>23 DEF ProbeCloses, callVars
  <2>4. EndTypes'
    BY <1>23, <1>p, <2>3, HangType DEF ProbeCloses, EndTypes
  <2> QED BY <1>23, <2>2, <2>4, TypesKept, TypePartsNext DEF ProbeCloses
<1>24. CASE ProbeGone
  <2>1. SocketTypes'
    BY <1>24, MovesOn, RoleNames, PlaceNames DEF ProbeGone
  <2> QED BY <1>24, <2>1, TypesKept, TypePartsNext DEF ProbeGone
<1>25. CASE HangReturns
  <2>1. VerdictTypes'
    BY <1>25, <1>p DEF HangReturns, VerdictTypes
  <2>2. EndTypes'
    BY <1>25, <1>p DEF HangReturns, EndTypes, callVars
  <2> QED BY <1>25, <2>1, <2>2, TypesKept, TypePartsNext DEF HangReturns
<1>26. CASE WatchTimesOut
  <2>1. legs' = legs
    BY <1>26 DEF WatchTimesOut, callVars
  <2>2. EndTypes'
    BY <1>26, <1>p, <2>1, HangType DEF WatchTimesOut, EndTypes
  <2> QED BY <1>26, <2>2, TypesKept, VerdictType, TypePartsNext DEF WatchTimesOut
<1>27. CASE WatchSees
  <2>1. legs' = legs
    BY <1>27 DEF WatchSees, callVars
  <2>2. EndTypes'
    BY <1>27, <1>p, <2>1, HangType DEF WatchSees, EndTypes
  <2> QED BY <1>27, <2>2, TypesKept, TypePartsNext DEF WatchSees
<1>28. CASE WatchEnds
  <2>1. EndTypes'
    BY <1>28, <1>p DEF WatchEnds, EndTypes, callVars
  <2> QED BY <1>28, <2>1, TypesKept, TypePartsNext DEF WatchEnds
<1>33. CASE Down
  <2>1. EndTypes'
    BY <1>33, <1>p DEF Down, EndTypes, callVars
  <2> QED BY <1>33, <2>1, TypesKept, TypePartsNext DEF Down
<1>29. CASE LifespanEnds
  <2>1. EndTypes'
    BY <1>29, HangType DEF LifespanEnds
  <2>2. CallTypes'
    BY <1>29, <1>p DEF LifespanEnds, CallTypes, Webhooks
  <2> QED BY <1>29, <2>1, <2>2, TypesKept, TypePartsNext DEF LifespanEnds
<1>30. CASE UNCHANGED vars
  <2>1. UNCHANGED <<receiveOnly, callVars, states, sockVars, verdictVars, endVars>>
    BY <1>30 DEF vars
  <2> QED BY <2>1, TypesKept, TypePartsNext
<1>34. ASSUME Calling PROVE TypeOK'
  BY <1>34, <1>1, <1>2, <1>3, <1>4, <1>5, <1>6, <1>7, <1>8, <1>9 DEF Calling
<1>35. ASSUME Measuring PROVE TypeOK'
  BY <1>35, <1>10, <1>11, <1>12, <1>13, <1>14, <1>15, <1>16, <1>17, <1>18, <1>19, <1>20, <1>21,
     <1>22, <1>31, <1>32
  DEF Measuring
<1>36. ASSUME Ending PROVE TypeOK'
  BY <1>36, <1>23, <1>24, <1>25, <1>26, <1>27, <1>28, <1>29, <1>33 DEF Ending
<1> QED BY <1>30, <1>34, <1>35, <1>36 DEF Next

\* Every state of a probe is well typed: an identified leg is never forgotten, and
\* a token or an admitted socket belongs to a stream that was started.
THEOREM TypeCorrect == Spec => []TypeOK
  BY TypeStart, TypeStep, PTL DEF Spec

-----------------------------------------------------------------------------
(* The bridge *)

\* What the bridge and the streams rest on.
Bridging ==
  /\ bridges \in {0, 1} /\ answered \subseteq Legs
  /\ bridges = 1 => answered = Legs
  /\ tokens \subseteq streams /\ authed \subseteq streams /\ tokens \cap authed = {}

LEMMA BridgingStart == Init => Bridging
  BY DEF Init, Bridging, Legs

LEMMA BridgingStep == Bridging /\ [Next]_vars => Bridging'
<1> SUFFICES ASSUME Bridging, [Next]_vars PROVE Bridging'
  OBVIOUS
<1> USE DEF Bridging
<1>a. CASE UNCHANGED <<answered, bridges, streams, tokens, authed>>
  BY <1>a
<1>b. ASSUME NEW w, NextStream(w), UNCHANGED <<answered, bridges, authed>>
      PROVE  Bridging'
  <2>1. \/ streams' = streams /\ tokens' = tokens
        \/ \E r : r \notin streams /\ streams' = streams \cup {r} /\ tokens' = tokens \cup {r}
    BY <1>b DEF NextStream, StartStream
  <2> QED BY <1>b, <2>1
<1>c. ASSUME NEW w, NEW ans, ans \subseteq Legs, answered \subseteq ans, MaybeBridge(w, ans)
      PROVE  bridges' \in {0, 1} /\ (bridges' = 1 => ans = Legs)
  <2>1. CASE ans # Legs
    BY <1>c, <2>1, SMT DEF MaybeBridge
  <2>2. CASE ans = Legs
    <3>1. bridges' = 1 \/ bridges' = bridges
      BY <1>c, <2>2, SMT DEF MaybeBridge
    <3> QED BY <2>2, <3>1, SMT
  <2> QED BY <2>1, <2>2
<1>1. ASSUME NEW leg \in Legs, Answered(leg) PROVE Bridging'
  <2> DEFINE w == AnsweredWebhook[leg]
             ans == answered \cup {leg}
  <2>1. CASE leg \notin legs
    BY <1>1, <2>1 DEF Answered
  <2>2. CASE leg \in legs /\ leg = "b" /\ "agent" \notin streams
    <3>1. /\ answered' = ans /\ bridges' = bridges /\ authed' = authed
          /\ streams' = streams \cup {"agent"} /\ tokens' = tokens \cup {"agent"}
      BY <1>1, <2>2 DEF Answered, StartStream
    <3> QED BY <2>2, <3>1
  <2>3. CASE leg \in legs /\ ~(leg = "b" /\ "agent" \notin streams)
    <3>1. /\ MaybeBridge(w, ans) /\ answered' = ans
          /\ streams' = streams /\ tokens' = tokens /\ authed' = authed
      BY <1>1, <2>3 DEF Answered
    <3>2. bridges' \in {0, 1} /\ (bridges' = 1 => ans = Legs)
      BY <1>c, <3>1
    <3> QED BY <3>1, <3>2
  <2> QED BY <2>1, <2>2, <2>3
<1>2. CASE AgentStreamStarts
  <2>1. MaybeBridge("answered_b", answered) /\ UNCHANGED <<answered, streams, tokens, authed>>
    BY <1>2 DEF AgentStreamStarts, sockVars
  <2>2. bridges' \in {0, 1} /\ (bridges' = 1 => answered = Legs)
    BY <1>c, <2>1
  <2> QED BY <2>1, <2>2
<1>3. ASSUME NEW leg \in Legs, Bridged(leg) PROVE Bridging'
  BY <1>3, <1>b DEF Bridged
<1>4. ASSUME NEW w \in Webhooks, StreamStarts(w) PROVE Bridging'
  BY <1>4, <1>b DEF StreamStarts
<1>5. ASSUME NEW r \in Roles, Connects(r) PROVE Bridging'
  BY <1>5 DEF Connects, callVars
<1>6. ASSUME NEW r \in Roles, RejectsSocket(r) PROVE Bridging'
  BY <1>6 DEF RejectsSocket, callVars
<1>7. CASE DialReturns \/ DialFails \/ Initiated
  BY <1>7, <1>a DEF DialReturns, DialFails, Initiated, sockVars
<1>8. ASSUME NEW leg \in Legs, HungUpByFarEnd(leg) PROVE Bridging'
  BY <1>8, <1>a DEF HungUpByFarEnd, callVars, sockVars
<1>9. ASSUME NEW w \in Webhooks, StreamRefused(w) PROVE Bridging'
  BY <1>9, <1>a DEF StreamRefused, sockVars
<1>10. ASSUME NEW r \in Roles, StartFrame(r) \/ SocketFails(r) PROVE Bridging'
  BY <1>10, <1>a DEF StartFrame, SocketFails, callVars
<1>11. CASE ProbeBridged \/ AgentStarts \/ GreetingStarts \/ HearsGreeting \/ PlaybackRequested
            \/ FixtureClaimed \/ HandoffStarts \/ StimulusSent \/ MatchesStimulus
            \/ CapturesResponse \/ ProbeFails
  BY <1>11, <1>a DEF ProbeBridged, AgentStarts, GreetingStarts, HearsGreeting,
     PlaybackRequested, FixtureClaimed, HandoffStarts, StimulusSent, MatchesStimulus,
     CapturesResponse, ProbeFails, callVars
<1>12. CASE Ending
  BY <1>12, <1>a DEF Ending, ProbeCloses, ProbeGone, HangReturns, WatchTimesOut, WatchSees,
     WatchEnds, LifespanEnds, Down, callVars, sockVars
<1>13. CASE UNCHANGED vars
  BY <1>13, <1>a DEF vars, callVars, sockVars
<1> QED
  BY <1>1, <1>2, <1>3, <1>4, <1>5, <1>6, <1>7, <1>8, <1>9, <1>10, <1>11, <1>12, <1>13
  DEF Next, Calling, Measuring

\* However the webhooks interleave or are repeated, the bridge is requested once
\* and only for two answered legs, and no role has both a token and a socket.
THEOREM BridgedOnce == Spec => []BridgeOnce
<1>1. Bridging => BridgeOnce
  BY DEF Bridging, BridgeOnce
<1> QED
  BY <1>1, BridgingStart, BridgingStep, PTL DEF Spec

-----------------------------------------------------------------------------
(* The order of the measurement *)

AgentReady ==
  MeasurementReady /\ "BRIDGED" \in states /\ (receiveOnly => "keeper" \in authed)

\* MeasuredInOrder with what the sockets and the stimulus know of it.
Ordered ==
  /\ sock \in [AllRoles -> Places] /\ ready \subseteq {"probe", "agent"}
  /\ sock["agent"] = "running" \/ greeting => AgentReady
  /\ "AGENT_AUDIO" \in states => greeting
  /\ stimulus # "none" \/ "STIMULUS_STARTED" \in states => "AGENT_AUDIO" \in states
  /\ stimulus \in {"sending", "completed"} => "STIMULUS_STARTED" \in states
  /\ "STIMULUS_COMPLETED" \in states => stimulus = "completed"
  /\ sock["probe"] = "matched" \/ Completed => "STIMULUS_COMPLETED" \in states

LEMMA OrderedStart == Init => Ordered
  BY DEF Init, Ordered, Places, AllRoles, Completed

LEMMA OrderedStep == Ordered /\ [Next]_vars => Ordered'
<1> SUFFICES ASSUME Ordered, [Next]_vars PROVE Ordered'
  OBVIOUS
<1> USE DEF Ordered, AgentReady, MeasurementReady, Completed, Places, AllRoles, Roles
<1>a. CASE UNCHANGED <<receiveOnly, states, authed, sock, ready, greeting, stimulus>>
  BY <1>a
<1>1. ASSUME NEW leg \in Legs, Bridged(leg) PROVE Ordered'
  BY <1>1 DEF Bridged
<1>2. ASSUME NEW w, NEW ans, MaybeBridge(w, ans),
             UNCHANGED <<receiveOnly, authed, sock, ready, greeting, stimulus>>
      PROVE  Ordered'
  <2>1. states' = states \/ states' = states \cup {"ANSWERED"}
    BY <1>2 DEF MaybeBridge
  <2> QED BY <1>2, <2>1
<1>3. ASSUME NEW leg \in Legs, Answered(leg) PROVE Ordered'
  <2>1. UNCHANGED <<receiveOnly, authed, sock, ready, greeting, stimulus>>
    BY <1>3 DEF Answered
  <2>2. states' = states \/ states' = states \cup {"ANSWERED"}
    BY <1>3 DEF Answered, MaybeBridge
  <2> QED BY <2>1, <2>2
<1>4. CASE AgentStreamStarts
  BY <1>4, <1>2 DEF AgentStreamStarts, sockVars
<1>5. ASSUME NEW r \in Roles, Connects(r) PROVE Ordered'
  BY <1>5 DEF Connects, Move
<1>6. ASSUME NEW r \in Roles, RejectsSocket(r) PROVE Ordered'
  BY <1>6 DEF RejectsSocket, Move, Left
<1>7. ASSUME NEW r \in Roles, StartFrame(r) PROVE Ordered'
  BY <1>7 DEF StartFrame, Move, Channel
<1>8. ASSUME NEW r \in Roles, SocketFails(r) PROVE Ordered'
  BY <1>8 DEF SocketFails, Move
<1>9. CASE ProbeBridged BY <1>9 DEF ProbeBridged, Move
<1>10. CASE AgentStarts BY <1>10 DEF AgentStarts, Move, KeeperReady
<1>11. CASE GreetingStarts BY <1>11 DEF GreetingStarts
<1>12. CASE HearsGreeting BY <1>12 DEF HearsGreeting, Move
<1>13. CASE PlaybackRequested BY <1>13 DEF PlaybackRequested, Move
<1>14. CASE FixtureClaimed BY <1>14 DEF FixtureClaimed
<1>15. CASE HandoffStarts BY <1>15 DEF HandoffStarts
<1>16. CASE StimulusSent BY <1>16 DEF StimulusSent
<1>17. CASE MatchesStimulus BY <1>17 DEF MatchesStimulus, Move
<1>18. CASE CapturesResponse BY <1>18 DEF CapturesResponse, Move
<1>19. CASE ProbeFails BY <1>19 DEF ProbeFails, Move
<1>20. CASE ProbeCloses BY <1>20 DEF ProbeCloses, Move
<1>21. CASE ProbeGone BY <1>21 DEF ProbeGone, Move
<1>22. CASE DialReturns \/ DialFails \/ Initiated
  BY <1>22, <1>a DEF DialReturns, DialFails, Initiated, sockVars
<1>23. ASSUME NEW leg \in Legs, HungUpByFarEnd(leg) PROVE Ordered'
  BY <1>23, <1>a DEF HungUpByFarEnd, sockVars
<1>24. ASSUME NEW w \in Webhooks, StreamRefused(w) \/ StreamStarts(w) PROVE Ordered'
  BY <1>24, <1>a DEF StreamRefused, StreamStarts, sockVars
<1>25. CASE HangReturns \/ WatchTimesOut \/ WatchSees \/ WatchEnds \/ LifespanEnds \/ Down
  BY <1>25, <1>a DEF HangReturns, WatchTimesOut, WatchSees, WatchEnds, LifespanEnds, Down, sockVars
<1>26. CASE UNCHANGED vars
  BY <1>26, <1>a DEF vars, sockVars
<1> QED
  BY <1>1, <1>3, <1>4, <1>5, <1>6, <1>7, <1>8, <1>9, <1>10, <1>11, <1>12, <1>13, <1>14,
     <1>15, <1>16, <1>17, <1>18, <1>19, <1>20, <1>21, <1>22, <1>23, <1>24, <1>25, <1>26
  DEF Next, Calling, Measuring, Ending

\* No agent starts before both measured channels and the caller line are there,
\* and the greeting, the stimulus and the response are found in that order.
THEOREM MeasuresInOrder == Spec => []MeasuredInOrder
<1>1. Ordered => MeasuredInOrder
  BY DEF Ordered, AgentReady, MeasuredInOrder
<1> QED
  BY <1>1, OrderedStart, OrderedStep, PTL DEF Spec

-----------------------------------------------------------------------------
(* The tokens of the sockets *)

IsToken(t) == t \in 1..Len(issued)
WasAdmitted(t) == \E a \in admitted : a[1] = t

\* What is pending was never admitted, and what can still be used is pending.
Tokens ==
  /\ now \in Nat /\ issued \in Seq([role : SocketRoles, expires : Nat])
  /\ \A t \in pending : IsToken(t) /\ ~WasAdmitted(t)
  /\ \A t \in DOMAIN issued : Usable(t) => t \in pending
  /\ \A a \in admitted : IsToken(a[1])

LEMMA TokensStart == CaptureInit => Tokens
<1> SUFFICES ASSUME CaptureInit PROVE Tokens
  OBVIOUS
<1>1. now \in Nat /\ issued \in Seq([role : SocketRoles, expires : Nat]) /\ Len(issued) = 0
  BY DEF CaptureInit
<1>2. pending = {} /\ admitted = {} /\ DOMAIN issued = {}
  BY <1>1 DEF CaptureInit
<1> QED BY <1>1, <1>2 DEF Tokens

\* A token that is minted: the others keep their places and lifetimes.
LEMMA Minted ==
  ASSUME Tokens, NEW role \in SocketRoles, issued' = Append(issued, [role |-> role, expires |-> now + Ttl])
  PROVE  /\ issued' \in Seq([role : SocketRoles, expires : Nat])
         /\ Len(issued') = Len(issued) + 1 /\ DOMAIN issued' = 1..Len(issued')
         /\ \A t \in 1..Len(issued) : issued'[t] = issued[t]
<1>1. [role |-> role, expires |-> now + Ttl] \in [role : SocketRoles, expires : Nat]
  BY CaptureConstants DEF Tokens
<1> QED BY <1>1, AppendProperties DEF Tokens

LEMMA TokensStep == Tokens /\ [CaptureNext]_captureVars => Tokens'
<1> SUFFICES ASSUME Tokens, [CaptureNext]_captureVars PROVE Tokens'
  OBVIOUS
<1>a. DOMAIN issued = 1..Len(issued) /\ Len(issued) \in Nat
  BY DEF Tokens
<1>b. CASE UNCHANGED tokenVars
  BY <1>b DEF Tokens, tokenVars, IsToken, WasAdmitted, Usable
<1>1. ASSUME NEW role \in SocketRoles, Issue(role) PROVE Tokens'
  <2>1. UNCHANGED <<now, admitted>> /\ \A t : WasAdmitted(t)' <=> WasAdmitted(t)
    BY <1>1 DEF Issue, WasAdmitted
  <2>2. CASE issued' = issued /\ pending' = Unexpired
    <3>1. \A t \in DOMAIN issued : Usable(t)' => t \in pending'
      BY <1>a, <2>1, <2>2 DEF Usable, Tokens, Unexpired
    <3> QED BY <2>1, <2>2, <3>1 DEF Tokens, IsToken, Unexpired
  <2>3. CASE /\ issued' = Append(issued, [role |-> role, expires |-> now + Ttl])
             /\ pending' = Unexpired \cup {Len(issued')}
    <3>1. /\ issued' \in Seq([role : SocketRoles, expires : Nat])
          /\ Len(issued') = Len(issued) + 1 /\ DOMAIN issued' = 1..Len(issued')
          /\ \A t \in 1..Len(issued) : issued'[t] = issued[t]
      BY <2>3, Minted
    <3>2. ASSUME NEW t \in DOMAIN issued', Usable(t)' PROVE t \in pending'
      <4>1. CASE t = Len(issued') BY <2>3, <4>1
      <4>2. CASE t # Len(issued')
        <5>1. t \in 1..Len(issued)
          BY <1>a, <3>1, <3>2, <4>2
        <5>2. issued[t].expires > now /\ Usable(t)
          BY <2>1, <3>1, <3>2, <5>1 DEF Usable
        <5> QED BY <1>a, <2>3, <5>1, <5>2 DEF Tokens, Unexpired
      <4> QED BY <4>1, <4>2
    <3>3. ~WasAdmitted(Len(issued'))
      BY <1>a, <3>1 DEF Tokens, WasAdmitted, IsToken
    <3>4. \A t \in pending' : IsToken(t)' /\ ~WasAdmitted(t)'
      BY <1>a, <2>1, <2>3, <3>1, <3>3 DEF Tokens, IsToken, Unexpired
    <3>5. \A a \in admitted' : IsToken(a[1])'
      BY <1>a, <2>1, <3>1 DEF Tokens, IsToken
    <3> QED BY <2>1, <3>1, <3>2, <3>4, <3>5 DEF Tokens
  <2> QED BY <1>1, <2>2, <2>3 DEF Issue
<1>2. ASSUME NEW t \in 1..MaxTokens, NEW role \in SocketRoles, Consume(t, role) PROVE Tokens'
  <2> DEFINE match == {p \in Unexpired : p = t /\ issued[p].role = role}
  <2>1. /\ UNCHANGED <<now, issued>> /\ t \in DOMAIN issued
        /\ pending' = Unexpired \ match
        /\ admitted' = admitted \cup {<<p, role>> : p \in match}
    BY <1>2 DEF Consume
  <2>2. \A p \in match : p = t /\ IsToken(p)
    BY <1>a, <2>1 DEF IsToken
  <2>3. \A p : WasAdmitted(p)' <=> WasAdmitted(p) \/ p \in match
    <3> TAKE p
    <3>1. ASSUME p \in match PROVE WasAdmitted(p)'
      <4>1. <<p, role>> \in admitted'
        BY <2>1, <3>1
      <4> QED BY <4>1 DEF WasAdmitted
    <3>2. ASSUME WasAdmitted(p) PROVE WasAdmitted(p)'
      BY <2>1, <3>2 DEF WasAdmitted
    <3>3. ASSUME WasAdmitted(p)', ~WasAdmitted(p) PROVE p \in match
      <4>1. PICK a \in admitted' : a[1] = p
        BY <3>3 DEF WasAdmitted
      <4>2. a \notin admitted
        BY <3>3, <4>1 DEF WasAdmitted
      <4>3. PICK q \in match : a = <<q, role>>
        BY <2>1, <4>1, <4>2
      <4> QED BY <4>1, <4>3
    <3> QED BY <3>1, <3>2, <3>3
  <2>4. \A p \in pending' : IsToken(p)' /\ ~WasAdmitted(p)'
    BY <2>1, <2>3 DEF Tokens, Unexpired, IsToken
  <2>5. \A a \in admitted' : IsToken(a[1])'
    BY <2>1, <2>2 DEF Tokens, IsToken
  <2>6. ASSUME NEW p \in DOMAIN issued, Usable(p)' PROVE p \in pending'
    <3>1. Usable(p) /\ p \notin match /\ issued[p].expires > now
      BY <2>1, <2>3, <2>6 DEF Usable, WasAdmitted
    <3> QED BY <2>1, <3>1 DEF Tokens, Unexpired
  <2> HIDE DEF match
  <2> QED BY <2>1, <2>4, <2>5, <2>6 DEF Tokens
<1>3. CASE Tick
  <2>1. now' = now + 1 /\ UNCHANGED <<issued, pending, admitted>>
    BY <1>3 DEF Tick
  <2>2. \A t \in DOMAIN issued : Usable(t)' => Usable(t)
    <3>1. \A t \in DOMAIN issued : issued[t].expires \in Nat
      <4>1. issued \in Seq([role : SocketRoles, expires : Nat])
        BY DEF Tokens
      <4>2. \A t \in 1..Len(issued) : issued[t] \in [role : SocketRoles, expires : Nat]
        BY <4>1, ElementOfSeq
      <4> QED BY <1>a, <4>2
    <3> QED BY <2>1, <3>1 DEF Usable, Tokens
  <2> QED BY <2>1, <2>2 DEF Tokens, IsToken, WasAdmitted
<1>4. CASE OtherRow \/ Judge
  BY <1>4, <1>b DEF OtherRow, Judge
<1>5. ASSUME NEW i \in 1..Sent, Media(i) \/ NonMedia(i) PROVE Tokens'
  BY <1>5, <1>b DEF Media, NonMedia
<1>6. CASE UNCHANGED captureVars
  BY <1>6, <1>b DEF captureVars
<1> QED
  BY <1>1, <1>2, <1>3, <1>4, <1>5, <1>6 DEF CaptureNext

LEMMA TokenStepHolds == Tokens /\ [CaptureNext]_captureVars => [TokenStep]_captureVars
<1> SUFFICES ASSUME Tokens, CaptureNext PROVE TokenStep \/ UNCHANGED captureVars
  OBVIOUS
<1>a. DOMAIN issued = 1..Len(issued) /\ Len(issued) \in Nat
  BY DEF Tokens
<1>b. \A t \in DOMAIN issued : Usable(t) => t \in pending
  BY DEF Tokens
<1>c. ASSUME UNCHANGED <<issued, refused, pending, admitted>> PROVE TokenStep
  BY <1>a, <1>b, <1>c DEF TokenStep
<1>1. ASSUME NEW role \in SocketRoles, Issue(role) PROVE TokenStep
  <2>1. admitted' = admitted /\ Unexpired \subseteq pending'
    BY <1>1 DEF Issue
  <2>2. \A t \in pending \ pending' : ~Usable(t)
    BY <2>1 DEF Usable, Unexpired
  <2>3. /\ refused' # refused => Cardinality({t \in DOMAIN issued : Usable(t)}) >= Maximum
        /\ Len(issued') > Len(issued) =>
             Cardinality({t \in DOMAIN issued : Usable(t)}) < Maximum
    <3>1. {t \in DOMAIN issued : Usable(t)} = Unexpired
      BY <1>a DEF Tokens, Usable, Unexpired, IsToken, WasAdmitted
    <3>2. /\ refused' # refused => Cardinality(Unexpired) >= Maximum
          /\ Len(issued') > Len(issued) => ~(Cardinality(Unexpired) >= Maximum)
      BY <1>1, <1>a DEF Issue
    <3>3. Unexpired \subseteq 1..Len(issued)
      BY DEF Tokens, Unexpired, IsToken
    <3>4. Cardinality(Unexpired) \in Nat
      <4>1. IsFiniteSet(1..Len(issued))
        BY <1>a, FS_Interval
      <4>2. IsFiniteSet(Unexpired)
        BY <3>3, <4>1, FS_Subset
      <4> QED BY <4>2, FS_CardinalityType
    <3>5. Cardinality(Unexpired) >= Maximum \/ Cardinality(Unexpired) < Maximum
      BY <3>4, CaptureConstants
    <3> QED BY Zenon, <3>1, <3>2, <3>5
  <2> QED BY <1>b, <2>1, <2>2, <2>3 DEF TokenStep
<1>2. ASSUME NEW t \in 1..MaxTokens, NEW role \in SocketRoles, Consume(t, role) PROVE TokenStep
  <2> DEFINE match == {p \in Unexpired : p = t /\ issued[p].role = role}
  <2>1. /\ UNCHANGED <<now, issued, refused>>
        /\ pending' = Unexpired \ match
        /\ admitted' = admitted \cup {<<p, role>> : p \in match}
    BY <1>2 DEF Consume
  <2>2. \A p \in match : Usable(p) /\ issued[p].role = role
    BY DEF Tokens, Usable, Unexpired, WasAdmitted
  <2>3. \A a \in admitted' \ admitted : Usable(a[1]) /\ a[2] = issued[a[1]].role
    BY <2>1, <2>2
  <2>4. \A p \in pending \ pending' : ~Usable(p) \/ <<p, issued[p].role>> \in admitted'
    <3> SUFFICES ASSUME NEW p \in pending \ pending', Usable(p)
                 PROVE  <<p, issued[p].role>> \in admitted'
      OBVIOUS
    <3>1. p \in match
      BY <2>1 DEF Usable, Unexpired
    <3> QED BY <2>1, <2>2, <3>1
  <2> HIDE DEF match
  <2> QED BY <1>a, <1>b, <2>1, <2>3, <2>4 DEF TokenStep
<1>3. CASE Tick \/ OtherRow \/ Judge
  BY <1>3, <1>c DEF Tick, OtherRow, Judge, tokenVars
<1>4. ASSUME NEW i \in 1..Sent, Media(i) \/ NonMedia(i) PROVE TokenStep
  <2>1. UNCHANGED <<issued, refused, pending, admitted>>
    BY <1>4 DEF Media, NonMedia, tokenVars
  <2> QED BY <2>1, <1>c
<1> QED
  BY <1>1, <1>2, <1>3, <1>4 DEF CaptureNext

\* A stream token opens one socket, at the route it was issued for and before it
\* expires; issue() refuses only when Maximum tokens can still be used, and never
\* on account of those that expired.
THEOREM TokensAdmitOnce == CaptureSpec => TokenAdmitsOnce
  BY TokensStart, TokensStep, TokenStepHolds, PTL DEF CaptureSpec, TokenAdmitsOnce

-----------------------------------------------------------------------------
(* The numbers that the provider gives its frames                          *)

NumberedTo(i) == {j \in 1..i : Numbered(j)}
OfTrackTo(i) == {j \in 1..i : stream[j] = stream[i]}

LEMMA CountsOfFrames ==
  ASSUME NEW i \in 1..Sent
  PROVE  /\ IsFiniteSet(NumberedTo(i)) /\ SequenceNumber(i) = Cardinality(NumberedTo(i))
         /\ SequenceNumber(i) \in Nat
         /\ IsFiniteSet(OfTrackTo(i)) /\ Chunk(i) = Cardinality(OfTrackTo(i))
         /\ Chunk(i) \in Nat \ {0}
<1>1. IsFiniteSet(1..i)
  BY CaptureConstants, FS_Interval
<1>2. IsFiniteSet(NumberedTo(i)) /\ IsFiniteSet(OfTrackTo(i))
  BY <1>1, FS_Subset DEF NumberedTo, OfTrackTo
<1>3. Cardinality(NumberedTo(i)) \in Nat /\ Cardinality(OfTrackTo(i)) \in Nat
  BY <1>2, FS_CardinalityType
<1>4. i \in OfTrackTo(i)
  BY CaptureConstants DEF OfTrackTo
<1>5. Cardinality(OfTrackTo(i)) # 0
  BY <1>2, <1>4, FS_EmptySet
<1> QED BY <1>2, <1>3, <1>5 DEF SequenceNumber, Chunk, NumberedTo, OfTrackTo

\* Of two frames the later one, if it has a number, has the greater one.
LEMMA NumbersGoUp ==
  ASSUME NEW i \in 1..Sent, NEW j \in 1..Sent, i < j, Numbered(j)
  PROVE  SequenceNumber(i) < SequenceNumber(j)
<1>1. NumberedTo(i) \subseteq NumberedTo(j) /\ j \in NumberedTo(j) /\ j \notin NumberedTo(i)
  BY CaptureConstants DEF NumberedTo
<1>2. NumberedTo(i) # NumberedTo(j)
  BY <1>1
<1>3. Cardinality(NumberedTo(i)) < Cardinality(NumberedTo(j))
  BY <1>1, <1>2, CountsOfFrames, FS_Subset
<1> QED BY <1>3, CountsOfFrames

LEMMA NumbersCount ==
  ASSUME NEW i \in 1..Sent, Numbered(i)
  PROVE  SequenceNumber(i) \in Nat \ {0}
<1>1. i \in NumberedTo(i)
  BY CaptureConstants DEF NumberedTo
<1>2. Cardinality(NumberedTo(i)) # 0
  BY <1>1, CountsOfFrames, FS_EmptySet
<1> QED BY <1>2, CountsOfFrames

\* The next frame of a track has the next chunk.
LEMMA NextChunk ==
  ASSUME NEW i \in 1..Sent, NEW j \in 1..Sent, i < j, stream[i] = stream[j],
         \A m \in i + 1..j - 1 : stream[m] # stream[j]
  PROVE  Chunk(j) = Chunk(i) + 1
<1>1. OfTrackTo(j) = OfTrackTo(i) \cup {j} /\ j \notin OfTrackTo(i)
  BY CaptureConstants DEF OfTrackTo
<1>2. Cardinality(OfTrackTo(i) \cup {j}) = Cardinality(OfTrackTo(i)) + 1
  BY <1>1, CountsOfFrames, FS_AddElement
<1> QED BY <1>1, <1>2, CountsOfFrames

-----------------------------------------------------------------------------
(* Runs of numbers                                                         *)

Positive == Nat \ {0}
\* The last of a sequence of numbers; 0 if there is none.
Newest(s) == IF s = <<>> THEN 0 ELSE s[Len(s)]

\* What may follow the last number, if there is one.
Follows(last, n) == last = 0 \/ n = last + 1

LEMMA OneMoreNumber ==
  ASSUME NEW s \in Seq(Positive), NEW n \in Positive
  PROVE  /\ s \o <<n>> = Append(s, n) /\ s \o <<n>> \in Seq(Positive) /\ Newest(s \o <<n>>) = n
         /\ Newest(s) \in Nat /\ (Newest(s) = 0 <=> s = <<>>)
         /\ Consecutive(s \o <<n>>)
              <=> Consecutive(s) /\ Follows(Newest(s), n)
<1> DEFINE t == s \o <<n>>
<1>1. /\ t = Append(s, n) /\ t \in Seq(Positive) /\ Len(t) = Len(s) + 1 /\ Len(s) \in Nat
      /\ t[Len(s) + 1] = n /\ \A k \in 1..Len(s) : t[k] = s[k]
  OBVIOUS
<1>2. t # <<>>
  BY <1>1
<1>3. Newest(t) = n
  BY <1>1, <1>2 DEF Newest
<1>4. s # <<>> => Len(s) \in 1..Len(s) /\ s[Len(s)] \in Positive
  BY ElementOfSeq
<1>5. Newest(s) \in Nat /\ (Newest(s) = 0 <=> s = <<>>)
  BY <1>4 DEF Newest, Positive
<1> HIDE DEF t
<1>6. ASSUME Consecutive(t) PROVE Consecutive(s) /\ (Newest(s) = 0 \/ n = Newest(s) + 1)
  <2>1. \A k \in 1..Len(s) : t[k + 1] = t[k] + 1
    BY <1>1, <1>6 DEF Consecutive
  <2>2. \A k \in 1..Len(s) - 1 : k \in 1..Len(s) /\ k + 1 \in 1..Len(s)
    BY <1>1
  <2>3. Consecutive(s)
    BY <1>1, <2>1, <2>2 DEF Consecutive
  <2>4. s # <<>> => n = Newest(s) + 1
    BY <1>1, <1>4, <2>1 DEF Newest
  <2> QED BY <1>5, <2>3, <2>4
<1>7. ASSUME Consecutive(s), Newest(s) = 0 \/ n = Newest(s) + 1 PROVE Consecutive(t)
  <2>1. CASE s = <<>>
    BY <1>1, <2>1 DEF Consecutive
  <2>2. CASE s # <<>>
    <3>1. n = s[Len(s)] + 1
      BY <1>5, <1>7, <2>2 DEF Newest
    <3> SUFFICES ASSUME NEW k \in 1..Len(s) PROVE t[k + 1] = t[k] + 1
      BY <1>1 DEF Consecutive
    <3>2. CASE k = Len(s) BY <1>1, <3>1, <3>2
    <3>3. CASE k # Len(s)
      <4>1. k \in 1..Len(s) - 1 /\ k + 1 \in 1..Len(s)
        BY <1>1, <3>3
      <4> QED BY <1>1, <1>7, <4>1 DEF Consecutive
    <3> QED BY <3>2, <3>3
  <2> QED BY <2>1, <2>2
<1> QED BY <1>1, <1>3, <1>5, <1>6, <1>7 DEF t, Follows

-----------------------------------------------------------------------------
(* The trackers                                                            *)

Anomalies == {"duplicates", "sequence_gaps", "sequence_regressions", "chunk_gaps",
              "chunk_regressions", "timestamp_regressions"}
Trackers == [seen : SUBSET (Tracks \X Nat \X Nat), sequence : Nat, chunk : [Tracks -> Nat],
             counts : SUBSET Anomalies]
Records == [pcm : [Tracks -> Seq(Positive)], ordering : Trackers]

\* Nothing a tracker has seen is past the last number.
Behind(o) == \A m \in o.seen : m[2] <= o.sequence

LEMMA MediaObserved ==
  ASSUME NEW o \in Trackers, NEW track \in Tracks, NEW n \in Positive, NEW c \in Positive
  PROVE  LET p == ObserveMedia(o, track, n, c) IN
         /\ p \in Trackers
         /\ o.counts # {} => p.counts # {}
         /\ ~Follows(o.sequence, n) => p.counts # {}
         /\ o.counts = {} /\ Behind(o) /\ Follows(o.sequence, n) /\ Follows(o.chunk[track], c)
            => /\ p.counts = {} /\ p.sequence = n /\ Behind(p)
               /\ p.chunk = [o.chunk EXCEPT ![track] = c]
<1> DEFINE p == ObserveMedia(o, track, n, c)
           new == [seen |-> o.seen \cup {<<track, n, c>>}, sequence |-> n,
                   chunk |-> [o.chunk EXCEPT ![track] = c],
                   counts |-> o.counts \cup SequenceAnomaly(o, n) \cup ChunkAnomaly(o, track, c)]
           again == [o EXCEPT !.counts = @ \cup {"duplicates"}]
<1>1. p = IF <<track, n, c>> \in o.seen THEN again ELSE new
  BY DEF ObserveMedia
<1>2. /\ o.seen \subseteq Tracks \X Nat \X Nat /\ o.sequence \in Nat
      /\ o.chunk \in [Tracks -> Nat] /\ o.counts \subseteq Anomalies /\ o.chunk[track] \in Nat
      /\ n \in Nat /\ n > 0 /\ c \in Nat /\ c > 0
  BY DEF Trackers, Positive
<1>3. SequenceAnomaly(o, n) \subseteq Anomalies /\ ChunkAnomaly(o, track, c) \subseteq Anomalies
  BY DEF SequenceAnomaly, ChunkAnomaly, Anomalies
<1>4. again \in Trackers /\ new \in Trackers
  <2>1. "duplicates" \in Anomalies
    BY DEF Anomalies
  <2>2. again \in Trackers
    BY <1>2, <2>1 DEF Trackers
  <2>3. o.seen \cup {<<track, n, c>>} \subseteq Tracks \X Nat \X Nat
    BY <1>2
  <2>4. [o.chunk EXCEPT ![track] = c] \in [Tracks -> Nat]
    BY <1>2
  <2>5. o.counts \cup SequenceAnomaly(o, n) \cup ChunkAnomaly(o, track, c) \subseteq Anomalies
    BY <1>2, <1>3
  <2>6. new \in Trackers
    BY <1>2, <2>3, <2>4, <2>5 DEF Trackers
  <2> QED BY <2>2, <2>6
<1>5. again.counts # {}
  <2>1. again.counts = o.counts \cup {"duplicates"}
    BY DEF Trackers
  <2> QED BY <2>1
<1>6. o.counts # {} => p.counts # {}
  BY <1>1, <1>5
<1>7. ASSUME ~Follows(o.sequence, n) PROVE p.counts # {}
  <2>1. SequenceAnomaly(o, n) # {}
    BY <1>2, <1>7 DEF SequenceAnomaly, Follows
  <2> QED BY <1>1, <1>5, <2>1
<1>8. ASSUME o.counts = {}, Behind(o), Follows(o.sequence, n), Follows(o.chunk[track], c)
      PROVE  /\ p.counts = {} /\ p.sequence = n /\ Behind(p)
             /\ p.chunk = [o.chunk EXCEPT ![track] = c]
  <2>1. n > o.sequence
    BY <1>2, <1>8 DEF Follows
  <2>2. <<track, n, c>> \notin o.seen
    <3>1. <<track, n, c>>[2] = n
      OBVIOUS
    <3> QED BY <1>2, <1>8, <2>1, <3>1 DEF Behind
  <2>3. SequenceAnomaly(o, n) = {} /\ ChunkAnomaly(o, track, c) = {}
    <3>1. SequenceAnomaly(o, n) = {}
      BY <1>2, <1>8 DEF SequenceAnomaly, Follows
    <3>2. ChunkAnomaly(o, track, c) = {}
      BY <1>2, <1>8 DEF ChunkAnomaly, Follows
    <3> QED BY <3>1, <3>2
  <2>4. p = new
    BY <1>1, <2>2
  <2>5. \A m \in o.seen \cup {<<track, n, c>>} : m[2] <= n
    <3>1. \A m \in o.seen : m[2] \in Nat /\ m[2] <= o.sequence
      BY <1>2, <1>8 DEF Behind
    <3> QED BY <1>2, <2>1, <3>1
  <2> QED BY <1>8, <2>3, <2>4, <2>5 DEF Behind
<1>9. p \in Trackers
  BY <1>1, <1>4
<1> HIDE DEF p
<1> QED BY <1>6, <1>7, <1>8, <1>9 DEF p

LEMMA OtherObserved ==
  ASSUME NEW o \in Trackers, NEW n \in Positive
  PROVE  LET p == ObserveOther(o, n) IN
         /\ p \in Trackers
         /\ o.counts # {} => p.counts # {}
         /\ ~Follows(o.sequence, n) => p.counts # {}
         /\ o.counts = {} /\ Behind(o) /\ Follows(o.sequence, n)
            => p.counts = {} /\ p.sequence = n /\ Behind(p) /\ p.chunk = o.chunk
<1> DEFINE p == ObserveOther(o, n)
<1>1. /\ o.seen \subseteq Tracks \X Nat \X Nat /\ o.sequence \in Nat
      /\ o.counts \subseteq Anomalies /\ n \in Nat /\ n > 0
  BY DEF Trackers, Positive
<1>2. SequenceAnomaly(o, n) \subseteq Anomalies
  BY DEF SequenceAnomaly, Anomalies
<1>3. /\ p = [o EXCEPT !.sequence = n, !.counts = @ \cup SequenceAnomaly(o, n)]
      /\ p.counts = o.counts \cup SequenceAnomaly(o, n)
      /\ p.sequence = n /\ p.chunk = o.chunk /\ p.seen = o.seen
  BY DEF ObserveOther, Trackers
<1>4. p \in Trackers
  BY <1>1, <1>2, <1>3 DEF Trackers
<1>5. ~Follows(o.sequence, n) => SequenceAnomaly(o, n) # {}
  BY <1>1 DEF SequenceAnomaly, Follows
<1>6. ASSUME o.counts = {}, Behind(o), Follows(o.sequence, n)
      PROVE  p.counts = {} /\ Behind(p)
  <2>1. SequenceAnomaly(o, n) = {}
    BY <1>1, <1>6 DEF SequenceAnomaly, Follows
  <2>2. \A m \in o.seen : m[2] <= n
    <3>1. \A m \in o.seen : m[2] \in Nat /\ m[2] <= o.sequence
      BY <1>1, <1>6 DEF Behind
    <3> QED BY <1>1, <1>6, <3>1 DEF Follows
  <2> QED BY <1>3, <1>6, <2>1, <2>2 DEF Behind
<1> HIDE DEF p
<1> QED BY <1>3, <1>4, <1>5, <1>6 DEF p

-----------------------------------------------------------------------------
(* A tracker in step with the stream                                       *)

\* Frame i is the latest of its track among those that are numbered up to n.
Latest(i, k, n) ==
  /\ i \in 1..Sent /\ stream[i] = k /\ SequenceNumber(i) <= n
  /\ \A j \in 1..Sent : stream[j] = k /\ SequenceNumber(j) <= n => j <= i

\* The chunk of each track is that of its latest frame, if one has arrived.
InStep(o) ==
  \A k \in Tracks : o.chunk[k] = 0 \/ \E i \in 1..Sent : Latest(i, k, o.sequence) /\ o.chunk[k] = Chunk(i)

\* Of the numbers h, the socket's tracker counts an anomaly exactly when they are broken.
Socket(o, h) ==
  IF o.counts = {}
  THEN Consecutive(h) /\ o.sequence = Newest(h) /\ Behind(o) /\ InStep(o)
  ELSE ~Consecutive(h)

\* The channel's tracker follows the chunks s of the measured track; the last is c.
ChannelTracker(o, s, c) ==
  /\ o.counts = {} /\ Behind(o) /\ Consecutive(s)
  /\ o.sequence = c /\ o.chunk["outbound"] = c /\ Newest(s) = c

\* Inductive: what the audio and the counts of a run that hit no limit say.
Audio ==
  /\ stream \in [1..Sent -> Kinds]
  /\ heard \in Seq(Positive) /\ spoken \in Seq(Positive)
  /\ integrity \in Records /\ capture \in Records
  /\ verdict # "limit" =>
       /\ capture.pcm["outbound"] = spoken
       /\ Socket(integrity.ordering, heard)
       /\ integrity.ordering.counts = {} =>
            ChannelTracker(capture.ordering, spoken, integrity.ordering.chunk["outbound"])
  /\ verdict = "clean" => integrity.ordering.counts = {}
  /\ verdict = "anomaly" => integrity.ordering.counts # {}

LEMMA AudioStart == CaptureInit => Audio
<1> SUFFICES ASSUME CaptureInit PROVE Audio
  OBVIOUS
<1>1. Tracker \in Trackers
  BY DEF Tracker, Trackers
<1>2. Empty \in Records
  BY <1>1 DEF Empty, Records
<1>3. Consecutive(<<>>) /\ Newest(<<>>) = 0
  BY DEF Consecutive, Newest
<1>4. Socket(Tracker, <<>>)
  BY <1>3 DEF CaptureInit, Socket, Tracker, Behind, InStep
<1>5. ChannelTracker(Tracker, <<>>, 0)
  BY <1>3 DEF CaptureInit, ChannelTracker, Tracker, Behind, Tracks
<1>6. /\ integrity.ordering = Tracker /\ capture.ordering = Tracker
      /\ capture.pcm["outbound"] = <<>> /\ Tracker.chunk["outbound"] = 0
  BY DEF CaptureInit, Empty, Tracker, Tracks
<1>7. /\ stream \in [1..Sent -> Kinds] /\ heard = <<>> /\ spoken = <<>>
      /\ integrity = Empty /\ capture = Empty /\ verdict = "none"
  BY DEF CaptureInit
<1> QED BY <1>2, <1>4, <1>5, <1>6, <1>7 DEF Audio

\* Frames of another kind leave a track's latest frame where it is.
LEMMA LatestKept ==
  ASSUME NEW i \in 1..Sent, Numbered(i), NEW p \in Nat,
         Follows(p, SequenceNumber(i)),
         NEW k \in Tracks, stream[i] # k, NEW j \in 1..Sent, Latest(j, k, p)
  PROVE  Latest(j, k, SequenceNumber(i))
<1>1. \A m \in 1..Sent : stream[m] = k => Numbered(m)
  BY DEF Numbered, Tracks
<1>2. \A m \in 1..Sent : SequenceNumber(m) \in Nat
  BY CountsOfFrames
<1>3. SequenceNumber(i) = p + 1
  <2>1. SequenceNumber(j) <= p /\ SequenceNumber(j) \in Positive
    BY <1>1, NumbersCount DEF Latest, Positive
  <2> QED BY <2>1 DEF Positive, Follows
<1>4. SequenceNumber(j) <= SequenceNumber(i)
  BY <1>2, <1>3 DEF Latest
<1>5. ASSUME NEW m \in 1..Sent, stream[m] = k, SequenceNumber(m) <= SequenceNumber(i)
      PROVE  m <= j
  <2>1. m # i
    BY <1>5
  <2>2. Numbered(m)
    BY <1>1, <1>5
  <2>3. SequenceNumber(m) # SequenceNumber(i)
    <3>1. CASE m < i BY <1>2, <3>1, NumbersGoUp
    <3>2. CASE i < m BY <1>2, <2>2, <3>2, NumbersGoUp
    <3> QED BY <2>1, <3>1, <3>2, CaptureConstants
  <2>4. SequenceNumber(m) <= p
    BY <1>2, <1>3, <1>5, <2>3
  <2> QED BY <1>5, <2>4 DEF Latest
<1> QED BY <1>4, <1>5 DEF Latest

\* The next number is the next chunk of its track.
LEMMA NextOfTrack ==
  ASSUME NEW i \in 1..Sent, NEW k \in Tracks, stream[i] = k, NEW p \in Nat,
         Follows(p, SequenceNumber(i)), NEW j \in 1..Sent, Latest(j, k, p)
  PROVE  Chunk(i) = Chunk(j) + 1
<1>1. \A m \in 1..Sent : stream[m] = k => Numbered(m)
  BY DEF Numbered, Tracks
<1>2. \A m \in 1..Sent : SequenceNumber(m) \in Nat
  BY CountsOfFrames
<1>3. SequenceNumber(i) = p + 1
  <2>1. SequenceNumber(j) <= p /\ SequenceNumber(j) \in Positive
    BY <1>1, NumbersCount DEF Latest, Positive
  <2> QED BY <2>1 DEF Positive, Follows
<1>4. stream[j] = k /\ SequenceNumber(j) < SequenceNumber(i)
  BY <1>2, <1>3 DEF Latest
<1>5. j < i
  <2>1. ~(i < j)
    BY <1>1, <1>2, <1>4, NumbersGoUp
  <2>2. i # j
    BY <1>2, <1>4
  <2> QED BY <2>1, <2>2, CaptureConstants
<1>6. ASSUME NEW m \in j + 1..i - 1, stream[m] = k PROVE FALSE
  <2>1. m \in 1..Sent /\ m < i /\ j < m
    BY CaptureConstants
  <2>2. SequenceNumber(m) < SequenceNumber(i)
    BY <1>1, <2>1, NumbersGoUp
  <2>3. SequenceNumber(m) <= p
    BY <1>2, <1>3, <2>1, <2>2
  <2>4. m <= j
    BY <1>6, <2>1, <2>3 DEF Latest
  <2> QED BY <2>1, <2>4, CaptureConstants
<1> QED BY <1>4, <1>5, <1>6, NextChunk

\* The frame itself is then the latest of its track.
LEMMA LatestMoves ==
  ASSUME NEW i \in 1..Sent, NEW k \in Tracks, stream[i] = k
  PROVE  Latest(i, k, SequenceNumber(i))
<1>1. \A m \in 1..Sent : stream[m] = k => Numbered(m)
  BY DEF Numbered, Tracks
<1>2. \A m \in 1..Sent : SequenceNumber(m) \in Nat
  BY CountsOfFrames
<1>3. ASSUME NEW m \in 1..Sent, stream[m] = k, SequenceNumber(m) <= SequenceNumber(i)
      PROVE  m <= i
  <2>1. ~(i < m)
    BY <1>1, <1>2, <1>3, NumbersGoUp
  <2> QED BY <2>1, CaptureConstants
<1> QED BY <1>2, <1>3 DEF Latest

LEMMA NumbersBreak ==
  ASSUME NEW h \in Seq(Positive), NEW n \in Positive, NEW o, Socket(o, h),
         o.counts # {} \/ ~Follows(o.sequence, n)
  PROVE  ~Consecutive(h \o <<n>>)
  BY OneMoreNumber DEF Socket

\* The socket's tracker sees a media frame.
LEMMA SocketHearsMedia ==
  ASSUME NEW i \in 1..Sent, NEW k \in Tracks, stream[i] = k,
         NEW h \in Seq(Positive), NEW o \in Trackers, Socket(o, h)
  PROVE  LET n == SequenceNumber(i)
             c == Chunk(i)
             p == ObserveMedia(o, k, n, c)
         IN  /\ p \in Trackers /\ Socket(p, h \o <<n>>)
             /\ p.counts = {} => /\ o.counts = {} /\ Follows(o.chunk[k], c)
                                 /\ p.chunk = [o.chunk EXCEPT ![k] = c]
<1> DEFINE n == SequenceNumber(i)
           c == Chunk(i)
           p == ObserveMedia(o, k, n, c)
<1>1. Numbered(i) /\ n \in Positive /\ c \in Positive
  BY NumbersCount, CountsOfFrames DEF Numbered, Tracks, Positive
<1>2. o.sequence \in Nat /\ o.chunk \in [Tracks -> Nat]
  BY DEF Trackers
<1>3. p \in Trackers
  BY <1>1, MediaObserved
<1>4. CASE o.counts # {} \/ ~Follows(o.sequence, n)
  <2>1. p.counts # {}
    BY <1>1, <1>4, MediaObserved
  <2>2. ~Consecutive(h \o <<n>>)
    BY <1>1, <1>4, NumbersBreak
  <2> HIDE DEF p
  <2>3. Socket(p, h \o <<n>>)
    BY <2>1, <2>2 DEF Socket
  <2> QED BY <1>3, <2>1, <2>3 DEF p
<1>5. CASE o.counts = {} /\ Follows(o.sequence, n)
  <2>1. Consecutive(h) /\ o.sequence = Newest(h) /\ Behind(o) /\ InStep(o)
    BY <1>5 DEF Socket
  <2>2. Follows(o.chunk[k], c)
    <3>1. CASE o.chunk[k] = 0
      BY <3>1 DEF Follows
    <3>2. CASE o.chunk[k] # 0
      <4>1. PICK j \in 1..Sent : Latest(j, k, o.sequence) /\ o.chunk[k] = Chunk(j)
        BY <2>1, <3>2 DEF InStep
      <4>2. Chunk(i) = Chunk(j) + 1
        BY <1>2, <1>5, <4>1, NextOfTrack
      <4> QED BY <4>1, <4>2 DEF Follows
    <3> QED BY <3>1, <3>2
  <2>3. /\ p.counts = {} /\ p.sequence = n /\ Behind(p)
        /\ p.chunk = [o.chunk EXCEPT ![k] = c]
    BY <1>1, <1>5, <2>1, <2>2, MediaObserved
  <2> HIDE DEF p, c
  <2>4. Consecutive(h \o <<n>>) /\ Newest(h \o <<n>>) = n
    BY <1>1, <1>5, <2>1, OneMoreNumber
  <2>5. InStep(p)
    <3> SUFFICES ASSUME NEW t \in Tracks, p.chunk[t] # 0
                 PROVE  \E j \in 1..Sent : Latest(j, t, n) /\ p.chunk[t] = Chunk(j)
      BY <2>3 DEF InStep
    <3>1. CASE t = k
      <4>1. Latest(i, k, n)
        BY LatestMoves
      <4>2. p.chunk[t] = Chunk(i)
        BY <1>2, <2>3, <3>1 DEF c
      <4> QED BY <3>1, <4>1, <4>2
    <3>2. CASE t # k
      <4>1. p.chunk[t] = o.chunk[t]
        BY <1>2, <2>3, <3>2
      <4>2. PICK j \in 1..Sent : Latest(j, t, o.sequence) /\ o.chunk[t] = Chunk(j)
        BY <2>1, <4>1 DEF InStep
      <4>3. Latest(j, t, n)
        BY <1>1, <1>2, <1>5, <3>2, <4>2, LatestKept
      <4> QED BY <4>1, <4>2, <4>3
    <3> QED BY <3>1, <3>2
  <2>6. Socket(p, h \o <<n>>)
    BY <2>3, <2>4, <2>5 DEF Socket
  <2> QED BY <1>3, <1>5, <2>2, <2>3, <2>6 DEF p, c
<1> QED BY <1>4, <1>5

\* The socket's tracker sees a lifecycle frame that has a number.
LEMMA SocketHearsOther ==
  ASSUME NEW i \in 1..Sent, stream[i] \notin Tracks, Numbered(i),
         NEW h \in Seq(Positive), NEW o \in Trackers, Socket(o, h)
  PROVE  LET n == SequenceNumber(i)
             p == ObserveOther(o, n)
         IN  /\ p \in Trackers /\ Socket(p, h \o <<n>>)
             /\ p.counts = {} => o.counts = {} /\ p.chunk = o.chunk
<1> DEFINE n == SequenceNumber(i)
           p == ObserveOther(o, n)
<1>1. n \in Positive
  BY NumbersCount DEF Positive
<1>2. o.sequence \in Nat /\ o.chunk \in [Tracks -> Nat]
  BY DEF Trackers
<1>3. p \in Trackers
  BY <1>1, OtherObserved
<1>4. CASE o.counts # {} \/ ~Follows(o.sequence, n)
  <2>1. p.counts # {}
    BY <1>1, <1>4, OtherObserved
  <2>2. ~Consecutive(h \o <<n>>)
    BY <1>1, <1>4, NumbersBreak
  <2> HIDE DEF p
  <2>3. Socket(p, h \o <<n>>)
    BY <2>1, <2>2 DEF Socket
  <2> QED BY <1>3, <2>1, <2>3 DEF p
<1>5. CASE o.counts = {} /\ Follows(o.sequence, n)
  <2>1. Consecutive(h) /\ o.sequence = Newest(h) /\ Behind(o) /\ InStep(o)
    BY <1>5 DEF Socket
  <2>2. p.counts = {} /\ p.sequence = n /\ Behind(p) /\ p.chunk = o.chunk
    BY <1>1, <1>5, <2>1, OtherObserved
  <2> HIDE DEF p
  <2>3. Consecutive(h \o <<n>>) /\ Newest(h \o <<n>>) = n
    BY <1>1, <1>5, <2>1, OneMoreNumber
  <2>4. InStep(p)
    <3> SUFFICES ASSUME NEW t \in Tracks, p.chunk[t] # 0
                 PROVE  \E j \in 1..Sent : Latest(j, t, n) /\ p.chunk[t] = Chunk(j)
      BY <2>2 DEF InStep
    <3>1. PICK j \in 1..Sent : Latest(j, t, o.sequence) /\ o.chunk[t] = Chunk(j)
      BY <2>1, <2>2 DEF InStep
    <3>2. Latest(j, t, n)
      BY <1>2, <1>5, <3>1, LatestKept
    <3> QED BY <2>2, <3>1, <3>2
  <2>5. Socket(p, h \o <<n>>)
    BY <2>2, <2>3, <2>4 DEF Socket
  <2> QED BY <1>3, <1>5, <2>2, <2>5 DEF p
<1> QED BY <1>4, <1>5

\* The channel's tracker sees the next chunk of the measured track.
LEMMA ChannelHears ==
  ASSUME NEW s \in Seq(Positive), NEW o \in Trackers, NEW b, ChannelTracker(o, s, b),
         NEW c \in Positive, Follows(b, c)
  PROVE  ChannelTracker(ObserveMedia(o, "outbound", c, c), s \o <<c>>, c)
<1> DEFINE p == ObserveMedia(o, "outbound", c, c)
<1>1. /\ o.counts = {} /\ Behind(o) /\ Consecutive(s) /\ Newest(s) = b
      /\ Follows(o.sequence, c) /\ Follows(o.chunk["outbound"], c)
  BY DEF ChannelTracker
<1>2. o.chunk \in [Tracks -> Nat] /\ "outbound" \in Tracks
  BY DEF Trackers, Tracks
<1>3. /\ p.counts = {} /\ p.sequence = c /\ Behind(p)
      /\ p.chunk = [o.chunk EXCEPT !["outbound"] = c]
  BY <1>1, <1>2, MediaObserved
<1> HIDE DEF p
<1>4. p.chunk["outbound"] = c
  BY <1>2, <1>3
<1>5. Consecutive(s \o <<c>>) /\ Newest(s \o <<c>>) = c
  BY <1>1, OneMoreNumber
<1>6. ChannelTracker(p, s \o <<c>>, c)
  BY <1>3, <1>4, <1>5 DEF ChannelTracker
<1> QED BY <1>6 DEF p

\* A record that takes a chunk.
LEMMA RecordHolds ==
  ASSUME NEW r \in Records, NEW k \in Tracks, NEW n \in Positive, NEW c \in Positive
  PROVE  LET m == Held(r, k, n, c) IN
         /\ m \in Records /\ m.ordering = ObserveMedia(r.ordering, k, n, c)
         /\ m.pcm[k] = r.pcm[k] \o <<c>>
<1>1. r.pcm \in [Tracks -> Seq(Positive)] /\ r.ordering \in Trackers
  BY DEF Records
<1>2. ObserveMedia(r.ordering, k, n, c) \in Trackers
  BY <1>1, MediaObserved
<1>3. r.pcm[k] \in Seq(Positive)
  BY <1>1
<1>4. Append(r.pcm[k], c) \in Seq(Positive) /\ Append(r.pcm[k], c) = r.pcm[k] \o <<c>>
  BY <1>3
<1> DEFINE pcm == [r.pcm EXCEPT ![k] = Append(@, c)]
<1>5. pcm \in [Tracks -> Seq(Positive)] /\ pcm[k] = r.pcm[k] \o <<c>>
  BY <1>1, <1>4
<1> HIDE DEF pcm
<1>6. Held(r, k, n, c) = [pcm |-> pcm, ordering |-> ObserveMedia(r.ordering, k, n, c)]
  BY DEF Held, pcm
<1> QED BY <1>2, <1>5, <1>6 DEF Records

\* The stream does not change, and what is said of it does not.
LEMMA StreamKept ==
  ASSUME stream' = stream
  PROVE  /\ Socket(integrity.ordering, heard)' <=> Socket(integrity'.ordering, heard')
         /\ ChannelTracker(capture.ordering, spoken, integrity.ordering.chunk["outbound"])'
              <=> ChannelTracker(capture'.ordering, spoken', integrity'.ordering.chunk["outbound"])
  BY DEF Socket, InStep, Latest, SequenceNumber, Chunk, Numbered, ChannelTracker, Behind,
         Consecutive, Newest

LEMMA AudioKept ==
  ASSUME Audio, UNCHANGED <<stream, heard, spoken, integrity, capture, verdict>>
  PROVE  Audio'
  BY StreamKept DEF Audio

LEMMA OtherArrives ==
  ASSUME Audio, NEW i \in 1..Sent, NonMedia(i)
  PROVE  Audio'
<1>1. /\ verdict = "none" /\ verdict' = "none" /\ stream[i] \notin Tracks
      /\ UNCHANGED <<stream, capture>> /\ spoken' = spoken \o <<>>
      /\ heard' = heard \o (IF Numbered(i) THEN <<SequenceNumber(i)>> ELSE <<>>)
  BY DEF NonMedia, Listening, Arrives, tokenVars
<1>2. /\ heard \in Seq(Positive) /\ spoken \in Seq(Positive) /\ spoken' = spoken
      /\ integrity \in Records /\ integrity.ordering \in Trackers
      /\ Socket(integrity.ordering, heard)
  BY <1>1 DEF Audio, Records
<1>3. CASE ~Numbered(i)
  <2>1. heard' = heard \o <<>> /\ integrity' = integrity
    BY <1>1, <1>3 DEF NonMedia
  <2>2. heard' = heard
    BY <1>2, <2>1
  <2>3. UNCHANGED <<stream, heard, spoken, integrity, capture, verdict>>
    BY <1>1, <1>2, <2>1, <2>2
  <2> QED BY <2>3, AudioKept
<1>4. CASE Numbered(i)
  <2> DEFINE n == SequenceNumber(i)
             p == ObserveOther(integrity.ordering, n)
  <2>1. n \in Positive /\ heard' = heard \o <<n>>
    BY <1>1, <1>4, NumbersCount DEF Positive
  <2>2. integrity' = [integrity EXCEPT !.ordering = p]
    BY <1>4 DEF NonMedia
  <2>3. /\ p \in Trackers /\ Socket(p, heard \o <<n>>)
        /\ p.counts = {} => integrity.ordering.counts = {} /\ p.chunk = integrity.ordering.chunk
    <3> DEFINE o == integrity.ordering
    <3>1. stream[i] \notin Tracks /\ heard \in Seq(Positive) /\ o \in Trackers /\ Socket(o, heard)
      BY <1>1, <1>2
    <3>2. p = ObserveOther(o, SequenceNumber(i)) /\ n = SequenceNumber(i)
      OBVIOUS
    <3> HIDE DEF p, n, o
    <3>3. /\ p \in Trackers /\ Socket(p, heard \o <<n>>)
          /\ p.counts = {} => o.counts = {} /\ p.chunk = o.chunk
      BY Zenon, <1>4, <3>1, <3>2, SocketHearsOther
    <3> QED BY <3>3 DEF o
  <2> HIDE DEF p, n
  <2>4. integrity'.ordering = p /\ integrity' \in Records
    BY <1>2, <2>2, <2>3 DEF Records
  <2>5. heard' \in Seq(Positive)
    BY <1>2, <2>1, OneMoreNumber
  <2>6. p.counts = {} => ChannelTracker(capture'.ordering, spoken', p.chunk["outbound"])
    BY <1>1, <1>2, <2>3 DEF Audio
  <2>7. capture'.pcm["outbound"] = spoken'
    BY <1>1, <1>2 DEF Audio
  <2>8. Socket(integrity.ordering, heard)'
    BY <1>1, <2>1, <2>3, <2>4, StreamKept
  <2>9. (integrity.ordering.counts = {} =>
           ChannelTracker(capture.ordering, spoken, integrity.ordering.chunk["outbound"]))'
    BY <1>1, <2>4, <2>6, StreamKept
  <2> QED BY <1>1, <1>2, <2>4, <2>5, <2>7, <2>8, <2>9 DEF Audio
<1> QED BY <1>3, <1>4

LEMMA MediaArrives ==
  ASSUME Audio, NEW i \in 1..Sent, Media(i)
  PROVE  Audio'
<1> DEFINE k == stream[i]
           n == SequenceNumber(i)
           c == Chunk(i)
           o == integrity.ordering
           p == ObserveMedia(o, k, n, c)
<1>1. /\ verdict = "none" /\ k \in Tracks /\ stream' = stream
      /\ heard' = heard \o <<n>> /\ spoken' = spoken \o (IF k = "outbound" THEN <<c>> ELSE <<>>)
  BY DEF Media, Listening, Arrives
<1>2. /\ heard \in Seq(Positive) /\ spoken \in Seq(Positive) /\ stream \in [1..Sent -> Kinds]
      /\ integrity \in Records /\ o \in Trackers /\ capture \in Records
      /\ Socket(o, heard) /\ capture.pcm["outbound"] = spoken
      /\ o.counts = {} => ChannelTracker(capture.ordering, spoken, o.chunk["outbound"])
  BY <1>1 DEF Audio, Records
<1>3. n \in Positive /\ c \in Positive
  BY <1>1, NumbersCount, CountsOfFrames DEF Numbered, Tracks, Positive
<1>4. heard' \in Seq(Positive) /\ spoken' \in Seq(Positive)
  <2>1. heard' \in Seq(Positive)
    BY <1>1, <1>2, <1>3, OneMoreNumber
  <2>2. spoken \o <<c>> \in Seq(Positive) /\ spoken \o <<>> = spoken
    BY <1>2, <1>3
  <2> QED BY <1>1, <1>2, <2>1, <2>2
<1>5. /\ p \in Trackers /\ Socket(p, heard \o <<n>>)
      /\ p.counts = {} => /\ o.counts = {} /\ Follows(o.chunk[k], c)
                          /\ p.chunk = [o.chunk EXCEPT ![k] = c]
  BY <1>1, <1>2, SocketHearsMedia
<1>d. k = stream[i] /\ o = integrity.ordering /\ p = ObserveMedia(o, k, n, c)
  OBVIOUS
<1> HIDE DEF p, n, c, o, k
<1>6. Held(integrity, k, n, c) \in Records /\ Held(integrity, k, n, c).ordering = p
  BY <1>1, <1>2, <1>3, <1>d, RecordHolds
<1>7. Held(capture, k, c, c) \in Records
      /\ Held(capture, k, c, c).ordering = ObserveMedia(capture.ordering, k, c, c)
      /\ Held(capture, k, c, c).pcm[k] = capture.pcm[k] \o <<c>>
  BY <1>1, <1>2, <1>3, RecordHolds
<1>8. CASE /\ verdict' = "limit" /\ integrity' \in {integrity, Held(integrity, k, n, c)}
           /\ capture' = capture
  BY <1>1, <1>2, <1>4, <1>6, <1>8 DEF Audio
<1>9. CASE /\ verdict' = "none" /\ integrity' = Held(integrity, k, n, c)
           /\ k = "inbound" /\ capture' = capture
  <2>1. integrity'.ordering = p /\ integrity' \in Records /\ spoken' = spoken
    BY <1>1, <1>2, <1>6, <1>9
  <2>2. o.chunk \in [Tracks -> Nat] /\ "outbound" \in Tracks
    BY <1>2 DEF Trackers, Tracks
  <2>3. p.counts = {} => o.counts = {} /\ p.chunk["outbound"] = o.chunk["outbound"]
    BY <1>5, <1>9, <2>2
  <2>4. Socket(integrity.ordering, heard)'
    BY <1>1, <1>5, <2>1, StreamKept
  <2>5. (integrity.ordering.counts = {} =>
           ChannelTracker(capture.ordering, spoken, integrity.ordering.chunk["outbound"]))'
    BY <1>1, <1>2, <1>9, <2>1, <2>3, StreamKept
  <2> QED BY <1>1, <1>2, <1>4, <1>9, <2>1, <2>4, <2>5 DEF Audio
<1>10. CASE /\ verdict' = "none" /\ integrity' = Held(integrity, k, n, c)
            /\ k = "outbound" /\ capture' = Held(capture, k, c, c)
  <2>1. integrity'.ordering = p /\ integrity' \in Records /\ capture' \in Records
        /\ spoken' = spoken \o <<c>>
    BY <1>1, <1>6, <1>7, <1>10
  <2>2. capture'.pcm["outbound"] = spoken'
    BY <1>2, <1>7, <1>10, <2>1
  <2>3. o.chunk \in [Tracks -> Nat] /\ "outbound" \in Tracks
    BY <1>2 DEF Trackers, Tracks
  <2>4. ASSUME p.counts = {}
        PROVE  ChannelTracker(capture'.ordering, spoken', p.chunk["outbound"])
    <3>1. o.counts = {} /\ Follows(o.chunk["outbound"], c) /\ p.chunk["outbound"] = c
      BY <1>5, <1>10, <2>3, <2>4
    <3>2. ChannelTracker(capture.ordering, spoken, o.chunk["outbound"]) /\ capture.ordering \in Trackers
      BY <1>2, <3>1 DEF Records
    <3>3. ChannelTracker(ObserveMedia(capture.ordering, "outbound", c, c), spoken \o <<c>>, c)
      BY <1>2, <1>3, <3>1, <3>2, ChannelHears
    <3> QED BY <1>7, <1>10, <2>1, <3>1, <3>3
  <2>5. Socket(integrity.ordering, heard)'
    BY <1>1, <1>5, <2>1, StreamKept
  <2>6. (integrity.ordering.counts = {} =>
           ChannelTracker(capture.ordering, spoken, integrity.ordering.chunk["outbound"]))'
    BY <1>1, <2>1, <2>4, StreamKept
  <2> QED BY <1>1, <1>2, <1>4, <1>10, <2>1, <2>2, <2>5, <2>6 DEF Audio
<1>11. \/ /\ verdict' = "limit" /\ integrity' \in {integrity, Held(integrity, k, n, c)}
          /\ capture' = capture
       \/ /\ verdict' = "none" /\ integrity' = Held(integrity, k, n, c)
          /\ k = "inbound" /\ capture' = capture
       \/ /\ verdict' = "none" /\ integrity' = Held(integrity, k, n, c)
          /\ k = "outbound" /\ capture' = Held(capture, k, c, c)
  <2>1. k = "inbound" \/ k = "outbound"
    BY <1>1 DEF Tracks
  <2> QED BY <1>1, <2>1 DEF Media, k, n, c
<1> QED BY <1>8, <1>9, <1>10, <1>11

LEMMA AudioStep == Audio /\ [CaptureNext]_captureVars => Audio'
<1> SUFFICES ASSUME Audio, [CaptureNext]_captureVars PROVE Audio'
  OBVIOUS
<1>1. ASSUME NEW role \in SocketRoles, Issue(role) PROVE Audio'
  BY <1>1, AudioKept DEF Issue, frameVars, arrivals
<1>2. ASSUME NEW t \in 1..MaxTokens, NEW role \in SocketRoles, Consume(t, role) PROVE Audio'
  BY <1>2, AudioKept DEF Consume, frameVars, arrivals
<1>3. CASE Tick \/ OtherRow
  BY <1>3, AudioKept DEF Tick, OtherRow, frameVars, arrivals
<1>4. CASE Judge
  <2>1. /\ verdict = "none" /\ UNCHANGED <<stream, heard, spoken, integrity, capture>>
        /\ verdict' = IF Unresolved(capture.ordering) \/ Unresolved(integrity.ordering)
                      THEN "anomaly" ELSE "clean"
    BY <1>4 DEF Judge, arrivals
  <2>2. integrity.ordering.counts = {} => capture.ordering.counts = {}
    BY <2>1 DEF Audio, ChannelTracker
  <2>3. verdict' \in {"clean", "anomaly"}
        /\ (verdict' = "clean" <=> integrity.ordering.counts = {})
    BY <2>1, <2>2 DEF Unresolved
  <2> QED BY <2>1, <2>3, StreamKept DEF Audio
<1>5. ASSUME NEW i \in 1..Sent, Media(i) \/ NonMedia(i) PROVE Audio'
  BY <1>5, MediaArrives, OtherArrives
<1>6. CASE UNCHANGED captureVars
  BY <1>6, AudioKept DEF captureVars, frameVars, arrivals
<1> QED
  BY <1>1, <1>2, <1>3, <1>4, <1>5, <1>6 DEF CaptureNext

\* For every stream, every loss, repetition and reordering of it and every limit: a run
\* that was judged clean has an unbroken run of the stream, complete and in order, and
\* a run is judged an anomaly only when frames were lost, repeated or reordered.
THEOREM NoLossIsSilent == CaptureSpec => []LossLeavesATrace
<1>1. Audio => LossLeavesATrace
  BY DEF Audio, LossLeavesATrace, Socket, ChannelTracker
<1> QED
  BY <1>1, AudioStart, AudioStep, PTL DEF CaptureSpec
=============================================================================
