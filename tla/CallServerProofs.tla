------------------------- MODULE CallServerProofs --------------------------
(***************************************************************************)
(* Proofs about the call server, for every number of calls, sockets,       *)
(* webhooks and every limit: the limiter's slots are exact, a stream token *)
(* is good exactly once, and every agent is accounted for.                 *)
(***************************************************************************)
EXTENDS CallServer, FiniteSetTheorems, TLAPS

\* A handler with an agent knows its call; one that has not yet got an agent has
\* no slot while it reads, and a running agent's handler has yet to wind it up.
RecOK(r, n) ==
  /\ r.agent # "none" => r.call \in Calls
  /\ r.pc = "winding" => r.agent # "none"
  /\ r.pc = "idle" => r.token = 0
  /\ r.pc \in {"idle", "refusing", "closed"} => ~r.acquired
  /\ r.pc = "reading" /\ r.agent = "none" => ~r.acquired
  /\ r.pc \in {"idle", "refusing"} => r.agent = "none"
  /\ r.agent = "running" => r.pc \in {"reading", "winding"}
  /\ r.pc \in {"reading", "refusing", "winding", "closing"} \/ r.agent # "none"
       => r.token \in 1..n

\* The registry and the shutdown name sockets that have an agent.
Registry ==
  /\ \A c \in Calls : agents[c] # 0 =>
       sock[agents[c]].agent # "none" /\ sock[agents[c]].call = c
  /\ \A s \in doomed : sock[s].agent # "none"

SocksOK == sock \in [Sockets -> SockRec] /\ \A s \in Sockets : RecOK(sock[s], Len(minted))

-----------------------------------------------------------------------------
LEMMA OneSocket ==
  ASSUME SocksOK, NEW s \in Sockets, NEW r \in SockRec, RecOK(r, Len(minted)),
         minted' = minted, sock' = [sock EXCEPT ![s] = r]
  PROVE  SocksOK'
  BY DEF SocksOK

LEMMA SocksStart == Init => SocksOK
<1>1. Idle \in SockRec /\ RecOK(Idle, 0)
  BY ServerConstants DEF Idle, SockRec, RecOK, Pcs
<1> QED
  BY <1>1 DEF Init, SocksOK

LEMMA Final ==
  ASSUME NEW n, NEW r \in SockRec, RecOK(r, n), r.pc \in {"reading", "refusing"}
  PROVE  FinallyFrom(r) \in SockRec /\ RecOK(FinallyFrom(r), n)
  BY DEF SockRec, RecOK, FinallyFrom, Pcs

LEMMA FinalKeeps ==
  ASSUME NEW r \in SockRec
  PROVE  /\ FinallyFrom(r).agent = r.agent /\ FinallyFrom(r).call = r.call
         /\ FinallyFrom(r).acquired = r.acquired /\ FinallyFrom(r).token = r.token
         /\ FinallyFrom(r).pc \in {"winding", "closing"}
  BY DEF SockRec, FinallyFrom

LEMMA ExpectedCall ==
  ASSUME TypeOK, SocksOK, NEW s \in Sockets, AwaitsStart(s)
  PROVE  Expected(s) \in Calls /\ sock[s].agent = "none"
  BY DEF AwaitsStart, Expected, TypeOK, SocksOK, RecOK, SockRec

LEMMA SocksStep == SocksOK /\ TypeOK /\ Registry /\ [Next]_vars => SocksOK'
<1> SUFFICES ASSUME SocksOK, TypeOK, Registry, [Next]_vars PROVE SocksOK'
  OBVIOUS
<1> USE ServerConstants
<1>0. ASSUME NEW s \in Sockets PROVE sock[s] \in SockRec /\ RecOK(sock[s], Len(minted))
  BY DEF SocksOK
<1>1. ASSUME NEW c \in Calls, Answered(c) PROVE SocksOK'
  <2>1. Len(minted) \in Nat /\ Len(minted') = Len(minted) + 1
    BY <1>1 DEF Answered, TypeOK
  <2>2. \A r \in SockRec : RecOK(r, Len(minted)) => RecOK(r, Len(minted'))
    BY <2>1 DEF RecOK, SockRec
  <2> QED BY <1>1, <2>2 DEF Answered, SocksOK
<1>2. ASSUME NEW s \in Sockets, NEW t \in 0..Len(minted), Dials(s, t) PROVE SocksOK'
<2> DEFINE r == [sock[s] EXCEPT !.pc = IF t \in tokens THEN "reading" ELSE "closed",
                                  !.token = t]
  <2>1. Len(minted) \in 0..MaxWebhooks /\ sock[s].pc = "idle"
    BY <1>2 DEF Dials, TypeOK, Sockets
  <2>2. sock[s] \in SockRec /\ RecOK(sock[s], Len(minted)) /\ t \in 0..MaxWebhooks
    BY <1>0, <2>1
  <2>3. t \in tokens => t \in 1..Len(minted)
    BY DEF TypeOK
  <2>4. r \in SockRec
    BY <2>2 DEF SockRec, Pcs
  <2>5. RecOK(r, Len(minted))
    BY <2>1, <2>2, <2>3 DEF RecOK, SockRec
  <2> QED BY <1>2, <2>4, <2>5, OneSocket DEF Dials

<1>3. ASSUME NEW s \in Sockets, Refused(s) PROVE SocksOK'
  BY <1>3, <1>0, OneSocket, Final DEF Refused
<1>4. ASSUME NEW s \in Sockets, WoundUp(s) PROVE SocksOK'
  BY <1>4, <1>0, OneSocket DEF WoundUp, SockRec, RecOK, Pcs
<1>5. ASSUME NEW s \in Sockets, Closes(s) PROVE SocksOK'
  BY <1>5, <1>0, OneSocket DEF Closes, SockRec, RecOK, Pcs
<1>6. ASSUME NEW s \in Sockets, AgentEnds(s) PROVE SocksOK'
  BY <1>6, <1>0, OneSocket DEF AgentEnds, SockRec, RecOK, Pcs
<1>7. ASSUME NEW s \in Sockets, ReadEnds(s) PROVE SocksOK'
  BY <1>7, <1>0, OneSocket, Final DEF ReadEnds
<1>8. ASSUME NEW s \in Sockets, StartsOtherCall(s) PROVE SocksOK'
  BY <1>8, <1>0, OneSocket, Final DEF StartsOtherCall, AwaitsStart
<1>9. ASSUME NEW s \in Sockets, StartsSecondBenchmark(s) PROVE SocksOK'
  BY <1>9, <1>0, OneSocket DEF StartsSecondBenchmark, AwaitsStart, SockRec, RecOK, Pcs
<1>c. ASSUME NEW s \in Sockets, AwaitsStart(s) PROVE Expected(s) \in Calls
  BY <1>c, ExpectedCall
<1>10. ASSUME NEW s \in Sockets, StartsAtCapacity(s) PROVE SocksOK'
  BY <1>10, <1>0, <1>c, OneSocket DEF StartsAtCapacity, AwaitsStart, SockRec, RecOK, Pcs
<1>11. ASSUME NEW s \in Sockets, Starts(s) PROVE SocksOK'
  BY <1>11, <1>0, <1>c, OneSocket DEF Starts, MayServe, AwaitsStart, SockRec, RecOK, Pcs
<1>12. ASSUME NEW s \in Sockets, StartRaises(s) PROVE SocksOK'
  <2> DEFINE r == [sock[s] EXCEPT !.call = Expected(s), !.acquired = TRUE]
  <2>1. /\ Expected(s) \in Calls /\ sock[s].pc = "reading" /\ sock[s].agent = "none"
        /\ minted' = minted /\ sock' = [sock EXCEPT ![s] = FinallyFrom(r)]
    BY <1>12, <1>c DEF StartRaises, MayServe, AwaitsStart
  <2>2. sock[s] \in SockRec /\ sock[s].token \in 1..Len(minted)
    BY <1>0, <2>1 DEF RecOK
  <2>3. r \in SockRec /\ r.agent = "none" /\ r.token = sock[s].token
    BY <2>1, <2>2 DEF SockRec
  <2> HIDE DEF r
  <2>4. /\ FinallyFrom(r) \in SockRec /\ FinallyFrom(r).pc = "closing"
        /\ FinallyFrom(r).agent = "none" /\ FinallyFrom(r).token = r.token
    BY <2>3 DEF SockRec, FinallyFrom, Pcs
  <2>5. RecOK(FinallyFrom(r), Len(minted))
    BY <2>2, <2>3, <2>4 DEF RecOK
  <2> QED BY <2>1, <2>4, <2>5, OneSocket
<1>13. ASSUME NEW s \in Sockets, ShutdownEndsAgent(s) PROVE SocksOK'
  <2> DEFINE r == [sock[s] EXCEPT !.agent = "ended"]
  <2>1. minted' = minted /\ sock' = [sock EXCEPT ![s] = r] /\ sock[s].agent # "none"
    BY <1>13 DEF ShutdownEndsAgent, Registry
  <2>2. r \in SockRec /\ RecOK(r, Len(minted))
    BY <1>0, <2>1 DEF SockRec, RecOK
  <2> HIDE DEF r
  <2> QED BY <2>1, <2>2, OneSocket
<1>14. CASE ShutdownBegins
  BY <1>14 DEF ShutdownBegins, SocksOK
<1>15. CASE ShutdownEnds
  BY <1>15 DEF ShutdownEnds, SocksOK
<1>16. CASE UNCHANGED vars
  BY <1>16 DEF vars, SocksOK
<1> QED
  BY <1>1, <1>2, <1>3, <1>4, <1>5, <1>6, <1>7, <1>8, <1>9, <1>10, <1>11, <1>12,
     <1>13, <1>14, <1>15, <1>16 DEF Next, Handler

LEMMA PendingBound ==
  ASSUME NEW n \in Nat, NEW E, E \subseteq 1..n
  PROVE  E \cup {n + 1} \subseteq 1..(n + 1)
  OBVIOUS

LEMMA TypeStart == Init => TypeOK
  <1>1. ASSUME Init PROVE minted \in Seq(Calls) /\ Len(minted) = 0
  BY <1>1 DEF Init
<1>2. Init => claimed \in BOOLEAN
  BY Zenon DEF Init
<1>3. Init => agents \in [Calls -> Sockets \cup {0}]
  BY DEF Init
<1> QED BY <1>1, <1>2, <1>3, ServerConstants, SocksStart DEF Init, TypeOK, SocksOK

LEMMA TypeStep == TypeOK /\ SocksOK /\ Registry /\ [Next]_vars => TypeOK'
<1> SUFFICES ASSUME TypeOK, SocksOK, Registry, [Next]_vars PROVE TypeOK'
  OBVIOUS
<1>0. sock' \in [Sockets -> SockRec]
  BY SocksStep DEF SocksOK
<1> USE <1>0, ServerConstants DEF TypeOK
<1>1. ASSUME NEW c \in Calls, Answered(c) PROVE TypeOK'
  <2>1. Evicted(tokens) \subseteq tokens
    BY DEF Evicted
  <2>2. minted' \in Seq(Calls) /\ Len(minted') = Len(minted) + 1 /\ Len(minted) \in Nat
    BY <1>1 DEF Answered
  <2>3. tokens' \subseteq 1..Len(minted')
    <3>1. tokens' = Evicted(tokens) \cup {Len(minted')} BY <1>1 DEF Answered
    <3>2. tokens \subseteq 1..Len(minted) OBVIOUS
    <3> QED BY <3>1, <3>2, <2>1, <2>2, PendingBound
  <2> QED BY <1>1, <2>2, <2>3 DEF Answered
<1>2. ASSUME NEW s \in Sockets, NEW t \in 0..Len(minted), Dials(s, t) PROVE TypeOK'
  BY <1>2 DEF Dials
<1>3. ASSUME NEW s \in Sockets, Handler(s) PROVE TypeOK'
  BY <1>3 DEF Handler, Refused, WoundUp, Closes, Release
<1>4. ASSUME NEW s \in Sockets, AgentEnds(s) \/ ReadEnds(s) \/ StartsOtherCall(s)
        \/ StartsSecondBenchmark(s) \/ StartsAtCapacity(s)
      PROVE TypeOK'
  BY <1>4 DEF AgentEnds, ReadEnds, StartsOtherCall, StartsSecondBenchmark, StartsAtCapacity
<1>5. ASSUME NEW s \in Sockets, Starts(s) \/ StartRaises(s) PROVE TypeOK'
  <2>1. Expected(s) \in Calls
    BY <1>5, ExpectedCall DEF Starts, StartRaises, MayServe
  <2> QED BY <1>5, <2>1 DEF Starts, StartRaises
<1>6. CASE ShutdownBegins \/ ShutdownEnds \/ (\E s \in Sockets : ShutdownEndsAgent(s))
  BY <1>6 DEF ShutdownBegins, ShutdownEnds, ShutdownEndsAgent
<1>7. CASE UNCHANGED vars
  BY <1>7 DEF vars
<1> QED
  BY <1>1, <1>2, <1>3, <1>4, <1>5, <1>6, <1>7 DEF Next

\* An agent, once it is there, stays its handler's, and its call too.
LEMMA KeepsAgent ==
  ASSUME TypeOK, SocksOK, [Next]_vars, NEW s \in Sockets, sock[s].agent # "none"
  PROVE  sock'[s].agent # "none" /\ sock'[s].call = sock[s].call
<1> sock \in [Sockets -> SockRec] /\ RecOK(sock[s], Len(minted))
  BY DEF SocksOK
<1> USE DEF SockRec
<1>1. ASSUME NEW c \in Calls, Answered(c) PROVE sock' = sock
  BY <1>1 DEF Answered
<1>2. ASSUME NEW o \in Sockets, NEW t \in 0..Len(minted), Dials(o, t) PROVE o # s /\ sock'[s] = sock[s]
  <2>1. sock[o].pc = "idle"
    BY <1>2 DEF Dials, Sockets
  <2> QED BY <1>2, <2>1 DEF Dials, RecOK
<1>3. ASSUME NEW o \in Sockets,
             StartsOtherCall(o) \/ StartsSecondBenchmark(o) \/ StartsAtCapacity(o)
               \/ Starts(o) \/ StartRaises(o)
      PROVE  sock'[s] = sock[s]
  BY <1>3 DEF StartsOtherCall, StartsSecondBenchmark, StartsAtCapacity, Starts,
              StartRaises, MayServe, AwaitsStart
<1>4. ASSUME NEW o \in Sockets, Refused(o) \/ WoundUp(o) \/ Closes(o) \/ ReadEnds(o)
      PROVE  sock'[s].agent = sock[s].agent /\ sock'[s].call = sock[s].call
  <2>1. CASE Refused(o) \/ ReadEnds(o)
    <3> HIDE DEF SockRec
    <3>1. sock' = [sock EXCEPT ![o] = FinallyFrom(sock[o])] /\ sock[o] \in SockRec
      BY <2>1 DEF Refused, ReadEnds
    <3> QED BY <3>1, FinalKeeps
  <2>2. CASE WoundUp(o) \/ Closes(o)
    <3>1. CASE WoundUp(o) BY <3>1 DEF WoundUp
    <3>2. CASE Closes(o) BY <3>2 DEF Closes
    <3> QED BY <2>2, <3>1, <3>2
  <2> QED BY <1>4, <2>1, <2>2
<1>5. ASSUME NEW o \in Sockets, AgentEnds(o) \/ ShutdownEndsAgent(o)
      PROVE  sock'[s].agent \in {"ended", sock[s].agent} /\ sock'[s].call = sock[s].call
  BY <1>5 DEF AgentEnds, ShutdownEndsAgent
<1>6. CASE ShutdownBegins \/ ShutdownEnds \/ UNCHANGED vars
  BY <1>6 DEF ShutdownBegins, ShutdownEnds, vars
<1> QED
  BY <1>1, <1>2, <1>3, <1>4, <1>5, <1>6 DEF Next, Handler

LEMMA RegistryStart == Init => Registry
  BY DEF Init, Registry

LEMMA RegistryStep == TypeOK /\ SocksOK /\ Registry /\ [Next]_vars => Registry'
<1> SUFFICES ASSUME TypeOK, SocksOK, Registry, [Next]_vars PROVE Registry'
  OBVIOUS
<1>0. /\ sock \in [Sockets -> SockRec] /\ agents \in [Calls -> Sockets \cup {0}]
      /\ doomed \subseteq Sockets
      /\ \A s \in Sockets : sock[s].agent # "none" =>
           sock'[s].agent # "none" /\ sock'[s].call = sock[s].call
  BY KeepsAgent DEF TypeOK
<1>1. ASSUME NEW s \in Sockets, Starts(s) PROVE Registry'
  <2>1. sock'[s].agent = "running" /\ sock'[s].call = Expected(s)
    BY <1>0, <1>1 DEF Starts, SockRec
  <2> QED BY <1>0, <1>1, <2>1 DEF Starts, Registry
<1>2. ASSUME NEW s \in Sockets, WoundUp(s) PROVE Registry'
  BY <1>0, <1>2 DEF WoundUp, Registry
<1>3. CASE ShutdownBegins
  BY <1>0, <1>3 DEF ShutdownBegins, Registry
<1>4. CASE ShutdownEnds
  BY <1>0, <1>4 DEF ShutdownEnds, Registry
<1>5. ASSUME NEW s \in Sockets, ShutdownEndsAgent(s) PROVE Registry'
  <2>1. doomed' \subseteq doomed /\ agents' = agents
    BY <1>5 DEF ShutdownEndsAgent
  <2> QED BY <1>0, <2>1 DEF Registry
<1>6. CASE agents' = agents /\ doomed' = doomed
  BY <1>0, <1>6 DEF Registry
<1>7. ASSUME NEW s \in Sockets, StartRaises(s) \/ StartsAtCapacity(s)
             \/ StartsSecondBenchmark(s) \/ StartsOtherCall(s) \/ Refused(s) \/ Closes(s)
             \/ AgentEnds(s) \/ ReadEnds(s)
      PROVE  agents' = agents /\ doomed' = doomed
  BY <1>7 DEF StartRaises, StartsAtCapacity, StartsSecondBenchmark, StartsOtherCall,
              Refused, Closes, AgentEnds, ReadEnds
<1>8. ASSUME NEW c \in Calls, Answered(c) PROVE agents' = agents /\ doomed' = doomed
  BY <1>8 DEF Answered
<1>9. ASSUME NEW s \in Sockets, NEW t \in 0..Len(minted), Dials(s, t)
      PROVE  agents' = agents /\ doomed' = doomed
  BY <1>9 DEF Dials
<1>10. CASE UNCHANGED vars
  BY <1>10, <1>6 DEF vars
<1> QED
  BY <1>1, <1>2, <1>3, <1>4, <1>5, <1>6, <1>7, <1>8, <1>9, <1>10 DEF Next, Handler

Sound == TypeOK /\ SocksOK /\ Registry

LEMMA SoundAlways == Spec => []Sound
<1>1. Init => Sound
  BY TypeStart, SocksStart, RegistryStart DEF Sound
<1>2. Sound /\ [Next]_vars => Sound'
  BY TypeStep, SocksStep, RegistryStep DEF Sound
<1> QED
  BY <1>1, <1>2, PTL DEF Spec

\* Every variable keeps its type: TypeOK of the call server.
THEOREM TypeCorrect == Spec => []TypeOK
  BY SoundAlways, PTL DEF Sound

-----------------------------------------------------------------------------
(* The limiter *)

\* What a step does to the slots: nothing, one taken below the limit by a
\* handler that held none, or one given back by a handler that held it.
LEMMA SlotMoves ==
  ASSUME TypeOK, SocksOK, [Next]_vars
  PROVE  \/ active' = active /\ Holders' = Holders
         \/ \E s \in Sockets : /\ ~AtCapacity /\ s \notin Holders
                              /\ active' = active + 1 /\ Holders' = Holders \cup {s}
         \/ \E s \in Holders : active' = Release(active) /\ Holders' = Holders \ {s}
<1> sock \in [Sockets -> SockRec] /\ \A s \in Sockets : RecOK(sock[s], Len(minted))
  BY DEF SocksOK
<1>1. ASSUME NEW s \in Sockets, Starts(s) \/ StartRaises(s)
      PROVE  /\ ~AtCapacity /\ s \notin Holders
             /\ active' = active + 1 /\ Holders' = Holders \cup {s}
  <2>1. ~AtCapacity /\ s \notin Holders /\ active' = active + 1
    BY <1>1 DEF Starts, StartRaises, MayServe, AwaitsStart, RecOK, Holders
  <2>2. sock'[s].acquired /\ \A o \in Sockets \ {s} : sock'[o] = sock[o]
    <3>1. CASE Starts(s)
      BY <3>1 DEF Starts, SockRec
    <3>2. CASE StartRaises(s)
      <4> DEFINE r == [sock[s] EXCEPT !.call = Expected(s), !.acquired = TRUE]
      <4>1. r \in SockRec /\ r.acquired
        <5>1. Expected(s) \in Calls
          BY <3>2, ExpectedCall DEF StartRaises, MayServe
        <5> QED BY <5>1 DEF SockRec
      <4>2. sock' = [sock EXCEPT ![s] = FinallyFrom(r)]
        BY <3>2 DEF StartRaises
      <4> QED BY <4>1, <4>2, FinalKeeps
    <3> QED BY <1>1, <3>1, <3>2
  <2> QED BY <2>1, <2>2 DEF Holders
<1>2. ASSUME NEW s \in Sockets, Closes(s)
      PROVE  \/ active' = active /\ Holders' = Holders
             \/ s \in Holders /\ active' = Release(active) /\ Holders' = Holders \ {s}
  <2>1. ~sock'[s].acquired /\ \A o \in Sockets \ {s} : sock'[o] = sock[o]
    BY <1>2 DEF Closes, SockRec
  <2>2. active' = IF s \in Holders THEN Release(active) ELSE active
    BY <1>2 DEF Closes, Holders
  <2> QED BY <2>1, <2>2 DEF Holders
<1>3. CASE active' = active /\ \A s \in Sockets : sock'[s].acquired <=> sock[s].acquired
  BY <1>3 DEF Holders
<1>4. ASSUME NEW s \in Sockets, Refused(s) \/ ReadEnds(s) \/ StartsOtherCall(s)
      PROVE  active' = active /\ \A o \in Sockets : sock'[o].acquired <=> sock[o].acquired
  BY <1>4, FinalKeeps DEF Refused, ReadEnds, StartsOtherCall
<1>5. ASSUME NEW s \in Sockets, WoundUp(s) \/ AgentEnds(s) \/ ShutdownEndsAgent(s)
               \/ StartsSecondBenchmark(s) \/ StartsAtCapacity(s)
      PROVE  active' = active /\ \A o \in Sockets : sock'[o].acquired <=> sock[o].acquired
  <2>1. CASE WoundUp(s)
    BY <2>1 DEF WoundUp, SockRec
  <2>2. CASE AgentEnds(s)
    BY <2>2 DEF AgentEnds, SockRec
  <2>3. CASE ShutdownEndsAgent(s)
    BY <2>3 DEF ShutdownEndsAgent, SockRec
  <2>4. CASE StartsSecondBenchmark(s)
    BY <2>4 DEF StartsSecondBenchmark, SockRec
  <2>5. CASE StartsAtCapacity(s)
    BY <2>5 DEF StartsAtCapacity, SockRec
  <2> QED BY <1>5, <2>1, <2>2, <2>3, <2>4, <2>5
<1>6. ASSUME NEW s \in Sockets, NEW t \in 0..Len(minted), Dials(s, t)
      PROVE  active' = active /\ \A o \in Sockets : sock'[o].acquired <=> sock[o].acquired
  BY <1>6 DEF Dials, SockRec
<1>7. ASSUME NEW c \in Calls, Answered(c) PROVE active' = active /\ sock' = sock
  BY <1>7 DEF Answered
<1>8. CASE ShutdownBegins \/ ShutdownEnds \/ UNCHANGED vars
  BY <1>8, <1>3 DEF ShutdownBegins, ShutdownEnds, vars
<1> QED
  BY <1>1, <1>2, <1>3, <1>4, <1>5, <1>6, <1>7, <1>8 DEF Next, Handler

LEMMA SlotsStep == TypeOK /\ SocksOK /\ SlotsExact /\ [Next]_vars => SlotsExact'
<1> SUFFICES ASSUME TypeOK, SocksOK, SlotsExact, [Next]_vars PROVE SlotsExact'
  OBVIOUS
<1>1. IsFiniteSet(Holders)
  <2>1. IsFiniteSet(Sockets)
    BY ServerConstants, FS_Interval DEF Sockets
  <2> QED BY <2>1, FS_Subset DEF Holders
<1>2. Cardinality(Holders) \in Nat /\ active = Cardinality(Holders)
  BY <1>1, FS_CardinalityType DEF SlotsExact
<1>3. CASE active' = active /\ Holders' = Holders
  BY <1>3 DEF SlotsExact
<1>4. ASSUME NEW s \in Sockets, ~AtCapacity, s \notin Holders, active' = active + 1,
             Holders' = Holders \cup {s}
      PROVE  SlotsExact'
  <2>1. Cardinality(Holders') = Cardinality(Holders) + 1
    BY <1>1, <1>4, FS_AddElement
  <2> QED BY <1>2, <1>4, <2>1, ServerConstants DEF SlotsExact, AtCapacity
<1>5. ASSUME NEW s \in Holders, active' = Release(active), Holders' = Holders \ {s}
      PROVE  SlotsExact'
  <2>1. Cardinality(Holders') = Cardinality(Holders) - 1 /\ Cardinality(Holders') \in Nat
    BY <1>1, <1>5, FS_RemoveElement, FS_CardinalityType
  <2> QED BY <1>2, <1>5, <2>1, ServerConstants DEF SlotsExact, Release
<1> QED
  BY <1>3, <1>4, <1>5, SlotMoves

\* Whatever the exit of a handler, each slot the limiter counts belongs to one
\* that has yet to give it back, and no more are served than the limit allows.
THEOREM SlotsAreExact == Spec => []SlotsExact
<1>1. Init => SlotsExact
  <2>1. Init => Holders = {} /\ active = 0
    BY DEF Init, Holders, Idle
  <2> QED BY <2>1, FS_EmptySet, ServerConstants DEF SlotsExact
<1>2. Sound /\ SlotsExact /\ [Next]_vars => SlotsExact'
  BY SlotsStep DEF Sound
<1> QED
  BY <1>1, <1>2, SoundAlways, PTL DEF Spec

-----------------------------------------------------------------------------
(* The agents *)

Running(s) == sock[s].agent = "running"

\* The registry finds every agent no other handler of its call hides, then the
\* shutdown's list does, and in the end there is none left to find.
Found ==
  /\ RegistryComplete
  /\ life = "ending" => \A s \in Sockets : Running(s) /\ ~Shadowed(s) => s \in doomed
  /\ life = "down" => \A s \in Sockets : Running(s) => Shadowed(s)

\* An agent that is hidden stays hidden, and none starts to run but by Starts.
LEMMA StaysShadowed ==
  ASSUME TypeOK, SocksOK, [Next]_vars, NEW s \in Sockets, Shadowed(s), sock[s].agent # "none"
  PROVE  Shadowed(s)'
<1>1. PICK o \in Sockets \ {s} : sock[o].agent # "none" /\ sock[o].call = sock[s].call
  BY DEF Shadowed
<1>2. sock'[o].agent # "none" /\ sock'[o].call = sock'[s].call
  BY <1>1, KeepsAgent
<1> QED
  BY <1>2 DEF Shadowed, Admitted

LEMMA FoundStep == Sound /\ Found /\ [Next]_vars => Found'
<1> SUFFICES ASSUME Sound, Found, [Next]_vars PROVE Found'
  OBVIOUS
<1>a. TypeOK /\ SocksOK /\ sock \in [Sockets -> SockRec] /\ agents \in [Calls -> Sockets \cup {0}]
      /\ \A s \in Sockets : RecOK(sock[s], Len(minted))
  BY DEF Sound, SocksOK, TypeOK
<1>b. ASSUME NEW s \in Sockets, sock[s].agent # "none"
      PROVE  /\ sock'[s].agent # "none" /\ sock'[s].call = sock[s].call /\ sock[s].call \in Calls
             /\ Shadowed(s) => Shadowed(s)'
  BY <1>a, <1>b, KeepsAgent, StaysShadowed DEF RecOK
<1>c. CASE agents' = agents /\ doomed' = doomed /\ life' = life
           /\ \A s \in Sockets : Running(s)' => Running(s)
  BY <1>b, <1>c DEF Found, RegistryComplete, Running
<1>1. ASSUME NEW s \in Sockets, Starts(s) PROVE Found'
  <2>1. /\ life = "up" /\ life' = life /\ Expected(s) \in Calls
        /\ agents' = [agents EXCEPT ![Expected(s)] = s]
    BY <1>a, <1>1, ExpectedCall DEF Starts, MayServe, AwaitsStart
  <2>2. /\ sock'[s].agent = "running" /\ sock'[s].call = Expected(s)
        /\ \A o \in Sockets \ {s} : sock'[o] = sock[o]
    BY <1>a, <1>1 DEF Starts, SockRec
  <2>3. ASSUME NEW o \in Sockets, sock'[o].agent = "running", ~Shadowed(o)'
        PROVE  agents'[sock'[o].call] = o
    <3>1. CASE o = s
      BY <1>a, <2>1, <2>2, <3>1
    <3>2. CASE o # s
      <4>1. sock'[o].call # Expected(s)
        BY <2>2, <2>3, <3>2 DEF Shadowed, Admitted
      <4>2. sock[o].agent = "running" /\ ~Shadowed(o) /\ sock[o].call = sock'[o].call
        BY <1>b, <2>2, <2>3, <3>2
      <4>3. agents[sock[o].call] = o
        BY <2>1, <4>2 DEF Found, RegistryComplete
      <4> QED BY <1>a, <1>b, <2>1, <4>1, <4>2, <4>3
    <3> QED BY <3>1, <3>2
  <2> QED BY <2>1, <2>3 DEF Found, RegistryComplete
<1>2. ASSUME NEW s \in Sockets, WoundUp(s) PROVE Found'
  <2>1. /\ sock[s].agent = "ended" /\ agents' = [agents EXCEPT ![sock[s].call] = 0]
        /\ life' = life /\ doomed' = doomed
    BY <1>2 DEF WoundUp
  <2>2. \A o \in Sockets : sock'[o].agent = sock[o].agent /\ sock'[o].call = sock[o].call
    BY <1>a, <1>2 DEF WoundUp, SockRec
  <2>3. ASSUME NEW o \in Sockets, sock'[o].agent = "running", ~Shadowed(o)'
        PROVE  /\ sock[o].agent = "running" /\ ~Shadowed(o)
               /\ agents[sock[o].call] = o => agents'[sock'[o].call] = o
    <3>1. sock[o].agent = "running" /\ ~Shadowed(o) /\ o # s
      BY <1>b, <2>1, <2>2, <2>3
    <3>2. sock[o].call # sock[s].call
      BY <2>1, <3>1 DEF Shadowed, Admitted
    <3> QED BY <1>a, <1>b, <2>1, <2>2, <3>1, <3>2
  <2>4. RegistryComplete'
    BY <2>1, <2>3 DEF Found, RegistryComplete
  <2>5. \A o \in Sockets : Running(o)' => Running(o) /\ (Shadowed(o) => Shadowed(o)')
    BY <1>b, <2>2 DEF Running
  <2> QED BY <2>1, <2>4, <2>5 DEF Found
<1>3. CASE ShutdownBegins
  <2>1. /\ life = "up" /\ life' = "ending" /\ doomed' = {agents[c] : c \in Calls} \ {0}
        /\ sock' = sock /\ agents' = agents
    BY <1>3 DEF ShutdownBegins
  <2>2. ASSUME NEW s \in Sockets, Running(s), ~Shadowed(s)
        PROVE  agents[sock[s].call] = s /\ s \in doomed'
    <3>1. agents[sock[s].call] = s /\ s # 0 /\ sock[s].call \in Calls
      BY <1>b, <2>1, <2>2, ServerConstants DEF Found, RegistryComplete, Running, Sockets
    <3> QED BY <2>1, <3>1
  <2>3. \A s \in Sockets : (Running(s)' <=> Running(s)) /\ (Shadowed(s)' <=> Shadowed(s))
    BY <2>1 DEF Running, Shadowed, Admitted
  <2> QED BY <2>1, <2>2, <2>3 DEF Found, RegistryComplete, Running
<1>4. CASE ShutdownEnds
  <2>1. life = "ending" /\ life' = "down" /\ doomed = {} /\ sock' = sock
    BY <1>4 DEF ShutdownEnds
  <2>2. \A s \in Sockets : Running(s)' => Shadowed(s)'
    BY <1>b, <2>1 DEF Found, Running
  <2> QED BY <2>1, <2>2 DEF Found, RegistryComplete
<1>5. ASSUME NEW s \in Sockets, ShutdownEndsAgent(s) PROVE Found'
  <2>1. /\ life = "ending" /\ life' = life /\ agents' = agents /\ doomed' = doomed \ {s}
        /\ ~Running(s)' /\ \A o \in Sockets : Running(o)' => Running(o)
    BY <1>a, <1>5 DEF ShutdownEndsAgent, Running, SockRec
  <2> QED BY <1>b, <2>1 DEF Found, RegistryComplete, Running
<1>6. ASSUME NEW s \in Sockets, Refused(s) \/ ReadEnds(s) \/ StartsOtherCall(s)
      PROVE  Found'
  <2>1. \A o \in Sockets : Running(o)' => Running(o)
    BY <1>a, <1>6, FinalKeeps DEF Refused, ReadEnds, StartsOtherCall, Running
  <2> QED BY <1>6, <1>c, <2>1 DEF Refused, ReadEnds, StartsOtherCall
<1>7. ASSUME NEW s \in Sockets, StartRaises(s) PROVE Found'
  <2> DEFINE r == [sock[s] EXCEPT !.call = Expected(s), !.acquired = TRUE]
  <2>1. r \in SockRec /\ r.agent = "none"
    <3>1. Expected(s) \in Calls /\ sock[s].agent = "none"
      BY <1>a, <1>7, ExpectedCall DEF StartRaises, MayServe
    <3> QED BY <1>a, <3>1 DEF SockRec
  <2>2. sock' = [sock EXCEPT ![s] = FinallyFrom(r)]
    BY <1>7 DEF StartRaises
  <2>3. \A o \in Sockets : Running(o)' => Running(o)
    BY <1>a, <2>1, <2>2, FinalKeeps DEF Running
  <2> QED BY <1>7, <1>c, <2>3 DEF StartRaises
<1>8. ASSUME NEW s \in Sockets,
             Closes(s) \/ AgentEnds(s) \/ StartsSecondBenchmark(s) \/ StartsAtCapacity(s)
      PROVE  Found'
  <2>1. \A o \in Sockets : Running(o)' => Running(o)
    <3>1. CASE Closes(s) BY <1>a, <3>1 DEF Closes, Running
    <3>2. CASE AgentEnds(s) BY <1>a, <3>2 DEF AgentEnds, Running
    <3>3. CASE StartsSecondBenchmark(s) BY <1>a, <3>3 DEF StartsSecondBenchmark, Running
    <3>4. CASE StartsAtCapacity(s) BY <1>a, <3>4 DEF StartsAtCapacity, Running
    <3> QED BY <1>8, <3>1, <3>2, <3>3, <3>4
  <2> QED BY <1>8, <1>c, <2>1 DEF Closes, AgentEnds, StartsSecondBenchmark, StartsAtCapacity
<1>9. ASSUME NEW s \in Sockets, NEW t \in 0..Len(minted), Dials(s, t) PROVE Found'
  <2>1. \A o \in Sockets : Running(o)' => Running(o)
    BY <1>a, <1>9 DEF Dials, Running, SockRec
  <2> QED BY <1>9, <1>c, <2>1 DEF Dials
<1>10. ASSUME NEW c \in Calls, Answered(c) PROVE Found'
  BY <1>10, <1>c DEF Answered, Running
<1>11. CASE UNCHANGED vars
  BY <1>11, <1>c DEF vars, Running
<1> QED
  BY <1>1, <1>2, <1>3, <1>4, <1>5, <1>6, <1>7, <1>8, <1>9, <1>10, <1>11 DEF Next, Handler

\* An agent that runs is in the registry, or another of the same call hides it;
\* after the shutdown none runs, and a handler that has returned left nothing.
THEOREM AgentsAreAccounted == Spec => []AgentsAccounted
<1>1. Init => Found
  BY DEF Init, Found, RegistryComplete, Running, Idle
<1>2. Sound /\ Found => AgentsAccounted
  BY DEF Sound, SocksOK, RecOK, Found, Running, AgentsAccounted, NothingLeftBehind,
         RegistryComplete
<1> QED
  BY <1>1, <1>2, FoundStep, SoundAlways, PTL DEF Spec

-----------------------------------------------------------------------------
(* The stream tokens *)

LEMMA EvictedBound ==
  ASSUME NEW T, T \subseteq Nat, IsFiniteSet(T)
  PROVE  Evicted(T) \subseteq T /\ IsFiniteSet(Evicted(T)) /\ Cardinality(Evicted(T)) <= MaxPending
<1> DEFINE Younger(t) == {u \in T : u > t}
           rank == [t \in Evicted(T) |-> Cardinality(Younger(t))]
           Ranks == 0..(MaxPending - 1)
<1>1. Evicted(T) \subseteq T
  BY DEF Evicted
<1>2. IsFiniteSet(Evicted(T)) /\ Cardinality(Evicted(T)) \in Nat
  BY <1>1, FS_Subset, FS_CardinalityType
<1>3. \A t \in T : IsFiniteSet(Younger(t)) /\ Cardinality(Younger(t)) \in Nat
  BY FS_Subset, FS_CardinalityType
<1>4. rank \in [Evicted(T) -> Ranks]
  <2>1. ASSUME NEW t \in Evicted(T) PROVE Cardinality(Younger(t)) \in Ranks
    <3>1. Cardinality(Younger(t)) < MaxPending /\ t \in T
      BY DEF Evicted
    <3>2. Cardinality(Younger(t)) \in Nat
      BY <1>3, <3>1
    <3> HIDE DEF Younger
    <3> QED BY <3>1, <3>2, ServerConstants
  <2> HIDE DEF Younger, Ranks
  <2> QED BY <2>1
<1>5. \A x, y \in Evicted(T) : x < y => rank[x] # rank[y]
  <2> SUFFICES ASSUME NEW x \in Evicted(T), NEW y \in Evicted(T), x < y PROVE rank[x] # rank[y]
    OBVIOUS
  <2>1. Younger(y) \subseteq Younger(x) /\ y \in Younger(x) /\ y \notin Younger(y)
    <3>1. x \in T /\ y \in T /\ T \subseteq Nat BY <1>1
    <3>2. ASSUME NEW u \in T, u > y PROVE u > x
      BY <3>1, <3>2
    <3>3. ~(y > y) /\ y > x BY <3>1
    <3> QED BY <3>1, <3>2, <3>3, Zenon
  <2>2. Cardinality(Younger(y)) # Cardinality(Younger(x))
    <3> HIDE DEF Younger
    <3> QED BY <2>1, <1>3, <1>1, FS_Subset
  <2> QED BY <2>2
<1>6. IsFiniteSet(Ranks) /\ Cardinality(Ranks) = MaxPending
  BY FS_Interval, FS_EmptySet, ServerConstants
<1>7. ~(Cardinality(Evicted(T)) > MaxPending)
  <2> SUFFICES ASSUME Cardinality(Ranks) < Cardinality(Evicted(T)) PROVE FALSE
    BY <1>6
  <2>1. PICK x, y \in Evicted(T) : x # y /\ rank[x] = rank[y]
    <3> HIDE DEF rank, Ranks
    <3> QED BY <1>2, <1>4, <1>6, FS_PigeonHole
  <2>2. x \in Nat /\ y \in Nat BY <1>1
  <2>3. x < y \/ y < x BY <2>1, <2>2
  <2> HIDE DEF rank
  <2> QED BY <2>1, <2>3, <1>5
<1> QED
  BY <1>1, <1>2, <1>7, ServerConstants

\* A token is dropped only with MaxPending younger ones of those minted.
LEMMA EvictedOld ==
  ASSUME NEW n \in Nat, NEW T, T \subseteq 1..n, NEW t \in T \ Evicted(T)
  PROVE  n - t >= MaxPending
<1> DEFINE Younger == {u \in T : u > t}
<1>1. IsFiniteSet((t+1)..n) /\ Cardinality((t+1)..n) = n - t
  BY FS_Interval
<1>2. Younger \subseteq (t+1)..n
  <2> SUFFICES ASSUME NEW u \in T, u > t PROVE u \in (t+1)..n
    OBVIOUS
  <2>1. u \in 1..n /\ t \in 1..n OBVIOUS
  <2> QED BY <2>1
<1>3. Cardinality(Younger) \in Nat /\ Cardinality(Younger) <= n - t
  BY <1>1, <1>2, FS_Subset, FS_CardinalityType
<1>4. ~(Cardinality(Younger) < MaxPending)
  BY DEF Evicted
<1> QED
  BY <1>3, <1>4, ServerConstants

\* TokenAdmitsOnce and DroppedOnlyWhenFull, one socket or token at a time.
LEMMA TokensStep == Sound /\ TokensExact /\ [Next]_vars => TokensExact'
<1> SUFFICES ASSUME Sound, TokensExact, [Next]_vars PROVE TokensExact'
  OBVIOUS
<1>a. /\ TypeOK /\ SocksOK /\ sock \in [Sockets -> SockRec] /\ tokens \subseteq 1..Len(minted)
      /\ Len(minted) \in Nat /\ minted \in Seq(Calls)
      /\ \A s \in Sockets : RecOK(sock[s], Len(minted))
  BY DEF Sound, SocksOK, TypeOK
<1>f. IsFiniteSet(tokens) /\ Cardinality(tokens) \in Nat
  <2>1. IsFiniteSet(1..Len(minted)) /\ tokens \in SUBSET (1..Len(minted))
    BY <1>a, FS_Interval
  <2> QED BY <2>1, FS_Subset, FS_CardinalityType
<1>b. ASSUME NEW s \in Sockets, Admitted(s) PROVE sock[s].token \in 1..Len(minted)
  BY <1>a, <1>b DEF Admitted, RecOK
<1>1. ASSUME NEW c \in Calls, Answered(c) PROVE TokensExact'
  <2>1. /\ minted' = Append(minted, c) /\ Len(minted') = Len(minted) + 1
        /\ tokens' = Evicted(tokens) \cup {Len(minted) + 1} /\ sock' = sock
        /\ \A t \in 1..Len(minted) : minted'[t] = minted[t]
    BY <1>a, <1>1 DEF Answered
  <2>2. IsFiniteSet(tokens) /\ tokens \subseteq Nat
    BY <1>a, <1>f
  <2>3. /\ Evicted(tokens) \subseteq tokens /\ IsFiniteSet(Evicted(tokens))
        /\ Cardinality(Evicted(tokens)) \in 0..MaxPending
    <3>1. /\ Evicted(tokens) \subseteq tokens /\ IsFiniteSet(Evicted(tokens))
          /\ Cardinality(Evicted(tokens)) <= MaxPending
      BY <2>2, EvictedBound
    <3>2. Cardinality(Evicted(tokens)) \in Nat
      BY <3>1, FS_CardinalityType
    <3> QED BY <3>1, <3>2, ServerConstants
  <2>4. TokenAdmitsOnce'
    <3>1. ASSUME NEW s \in Sockets, Admitted(s)
          PROVE  /\ sock[s].token \notin tokens'
                 /\ sock[s].agent # "none" => sock[s].call = minted'[sock[s].token]
      BY <1>a, <1>b, <2>1, <2>3, <3>1 DEF TokensExact, TokenAdmitsOnce
    <3> QED BY <2>1, <3>1 DEF TokensExact, TokenAdmitsOnce, Admitted
  <2>5. Cardinality(tokens') <= MaxPending + 1
    <3>1. Cardinality(tokens') \in {Cardinality(Evicted(tokens)), Cardinality(Evicted(tokens)) + 1}
      BY <2>1, <2>3, FS_AddElement
    <3> QED BY <2>3, <3>1, ServerConstants
  <2>6. ASSUME NEW t \in 1..(Len(minted) + 1)
        PROVE  \/ t \in tokens'
               \/ \E s \in Sockets : sock[s].token = t
               \/ Len(minted) + 1 - t > MaxPending
    <3>1. CASE t = Len(minted) + 1
      BY <2>1, <3>1
    <3>2. CASE t \in tokens \ Evicted(tokens)
      <4>1. Len(minted) - t >= MaxPending
        BY <1>a, <3>2, EvictedOld
      <4> QED BY <1>a, <4>1, ServerConstants
    <3>3. CASE t \in Evicted(tokens)
      BY <2>1, <3>3
    <3>4. CASE t \in 1..Len(minted) /\ t \notin tokens
      BY <1>a, <3>4, ServerConstants DEF TokensExact, DroppedOnlyWhenFull
    <3> QED BY <1>a, <3>1, <3>2, <3>3, <3>4
  <2>7. DroppedOnlyWhenFull'
    BY <2>1, <2>5, <2>6 DEF DroppedOnlyWhenFull
  <2> QED BY <2>4, <2>7 DEF TokensExact
<1>2. ASSUME NEW s \in Sockets, NEW t \in 0..Len(minted), Dials(s, t) PROVE TokensExact'
  <2>1. /\ minted' = minted /\ tokens' = tokens \ {t} /\ sock[s].pc = "idle"
        /\ sock'[s].token = t /\ sock'[s].agent = sock[s].agent
        /\ sock'[s].pc = IF t \in tokens THEN "reading" ELSE "closed"
        /\ \A o \in Sockets \ {s} : sock'[o] = sock[o]
    BY <1>a, <1>2 DEF Dials, SockRec, Sockets
  <2>2. sock[s].agent = "none"
    BY <1>a, <2>1 DEF RecOK
  <2>3. ASSUME NEW o \in Sockets, Admitted(o)'
        PROVE  \/ o = s /\ t \in tokens
               \/ o # s /\ Admitted(o) /\ sock'[o] = sock[o] /\ sock[o].token # t
               \/ o # s /\ Admitted(o) /\ sock'[o] = sock[o] /\ t \notin tokens
    BY <2>1, <2>2, <2>3 DEF Admitted, TokensExact, TokenAdmitsOnce
  <2>4. TokenAdmitsOnce'
    <3>1. ASSUME NEW s1 \in Sockets, NEW s2 \in Sockets, Admitted(s1)', Admitted(s2)',
                 sock'[s1].token = sock'[s2].token
          PROVE  s1 = s2
      BY <2>1, <2>3, <3>1 DEF TokensExact, TokenAdmitsOnce
    <3>2. ASSUME NEW o \in Sockets, Admitted(o)'
          PROVE  /\ sock'[o].token \notin tokens'
                 /\ sock'[o].agent # "none" => sock'[o].call = minted'[sock'[o].token]
      BY <2>1, <2>2, <2>3, <3>2 DEF TokensExact, TokenAdmitsOnce
    <3> QED BY <3>1, <3>2 DEF TokenAdmitsOnce
  <2>5. Cardinality(tokens') <= MaxPending + 1
    <3>2. Cardinality(tokens') <= Cardinality(tokens) /\ Cardinality(tokens') \in Nat
      BY <2>1, <1>f, FS_Subset, FS_CardinalityType
    <3> QED BY <1>f, <3>2, ServerConstants DEF TokensExact, DroppedOnlyWhenFull
  <2>6. ASSUME NEW u \in 1..Len(minted)
        PROVE  \/ u \in tokens'
               \/ \E o \in Sockets : sock'[o].token = u
               \/ Len(minted) - u > MaxPending
    <3>1. CASE u = t
      BY <2>1, <3>1
    <3>2. CASE u # t /\ \E o \in Sockets : sock[o].token = u
      <4>1. PICK o \in Sockets : sock[o].token = u
        BY <3>2
      <4>2. CASE o = s
        BY <1>a, <2>1, <4>1, <4>2 DEF RecOK
      <4>3. CASE o # s
        BY <2>1, <4>1, <4>3
      <4> QED BY <4>2, <4>3
    <3>3. CASE u # t /\ ~ \E o \in Sockets : sock[o].token = u
      BY <2>1, <3>3 DEF TokensExact, DroppedOnlyWhenFull
    <3> QED BY <3>1, <3>2, <3>3
  <2>7. DroppedOnlyWhenFull'
    BY <2>1, <2>5, <2>6 DEF DroppedOnlyWhenFull
  <2> QED BY <2>4, <2>7 DEF TokensExact
\* Every other step leaves the tokens alone, and admits nobody new.
<1>3. CASE /\ minted' = minted /\ tokens' = tokens
           /\ \A s \in Sockets :
                /\ Admitted(s)' => Admitted(s)
                /\ sock'[s].token = sock[s].token
                /\ sock'[s].agent # "none" =>
                     \/ sock[s].agent # "none" /\ sock'[s].call = sock[s].call
                     \/ sock'[s].call = minted[sock[s].token]
  BY <1>3 DEF TokensExact, TokenAdmitsOnce, DroppedOnlyWhenFull
<1>4. ASSUME NEW s \in Sockets, NEW r \in SockRec, sock' = [sock EXCEPT ![s] = r],
             minted' = minted, tokens' = tokens, Admitted(s),
             r.token = sock[s].token,
             r.agent # "none" =>
               \/ sock[s].agent # "none" /\ r.call = sock[s].call
               \/ r.call = minted[sock[s].token]
      PROVE  TokensExact'
  <2>1. sock'[s] = r /\ \A o \in Sockets \ {s} : sock'[o] = sock[o]
    BY <1>a, <1>4
  <2>2. \A o \in Sockets : Admitted(o)' => Admitted(o)
    BY <1>4, <2>1 DEF Admitted
  <2> QED BY <1>3, <1>4, <2>1, <2>2
<1>5. ASSUME NEW s \in Sockets, Starts(s) PROVE TokensExact'
  <2> DEFINE r == [sock[s] EXCEPT !.call = Expected(s), !.acquired = TRUE, !.agent = "running"]
  <2>1. Expected(s) \in Calls /\ Admitted(s) /\ minted' = minted /\ tokens' = tokens
        /\ sock' = [sock EXCEPT ![s] = r]
    BY <1>a, <1>5, ExpectedCall DEF Starts, MayServe, AwaitsStart, Admitted
  <2>2. r \in SockRec /\ r.token = sock[s].token /\ r.call = Expected(s)
    BY <1>a, <2>1 DEF SockRec
  <2> QED BY <1>4, <2>1, <2>2 DEF Expected
<1>6. ASSUME NEW s \in Sockets, StartRaises(s) PROVE TokensExact'
  <2> DEFINE r == [sock[s] EXCEPT !.call = Expected(s), !.acquired = TRUE]
  <2>1. Expected(s) \in Calls /\ sock[s].agent = "none" /\ Admitted(s)
        /\ minted' = minted /\ tokens' = tokens /\ sock' = [sock EXCEPT ![s] = FinallyFrom(r)]
    BY <1>a, <1>6, ExpectedCall DEF StartRaises, MayServe, AwaitsStart, Admitted
  <2>2. r \in SockRec /\ r.token = sock[s].token /\ r.agent = "none" /\ r.pc = sock[s].pc
    BY <1>a, <2>1 DEF SockRec
  <2>3. FinallyFrom(r) \in SockRec
    BY <2>2 DEF SockRec, FinallyFrom, Pcs
  <2> QED
    <3> HIDE DEF r
    <3> QED BY <1>4, <2>1, <2>2, <2>3, FinalKeeps
<1>7. ASSUME NEW s \in Sockets, Refused(s) \/ ReadEnds(s) \/ StartsOtherCall(s) PROVE TokensExact'
  <2>1. Admitted(s) /\ minted' = minted /\ tokens' = tokens
        /\ sock' = [sock EXCEPT ![s] = FinallyFrom(sock[s])]
    BY <1>7 DEF Refused, ReadEnds, StartsOtherCall, AwaitsStart, Admitted
  <2>2. sock[s] \in SockRec /\ FinallyFrom(sock[s]) \in SockRec
    BY <1>a DEF SockRec, FinallyFrom, Pcs
  <2> QED BY <1>4, <2>1, <2>2, FinalKeeps
<1>8. ASSUME NEW s \in Sockets, StartsSecondBenchmark(s) \/ StartsAtCapacity(s) PROVE TokensExact'
  <2>1. Admitted(s) /\ minted' = minted /\ tokens' = tokens
        /\ sock[s].agent = "none" /\ sock'[s].agent = "none" /\ sock'[s].token = sock[s].token
        /\ \A o \in Sockets \ {s} : sock'[o] = sock[o]
    <3>1. sock \in [Sockets -> SockRec] /\ sock[s] \in SockRec
      BY <1>a
    <3>2. CASE StartsSecondBenchmark(s)
      BY <3>1, <3>2 DEF StartsSecondBenchmark, AwaitsStart, Admitted, SockRec
    <3>3. CASE StartsAtCapacity(s)
      BY <3>1, <3>3 DEF StartsAtCapacity, AwaitsStart, Admitted, SockRec
    <3> QED BY <1>8, <3>2, <3>3
  <2>2. \A o \in Sockets : Admitted(o)' => Admitted(o)
    BY <2>1 DEF Admitted
  <2> QED BY <1>3, <2>1, <2>2
<1>9. ASSUME NEW s \in Sockets,
             WoundUp(s) \/ Closes(s) \/ AgentEnds(s) \/ ShutdownEndsAgent(s)
      PROVE  TokensExact'
  <2>1. minted' = minted /\ tokens' = tokens /\ Admitted(s)
    BY <1>9 DEF WoundUp, Closes, AgentEnds, ShutdownEndsAgent, Admitted, Sound, Registry
  <2>2. sock'[s].token = sock[s].token /\ \A o \in Sockets \ {s} : sock'[o] = sock[o]
    <3>1. CASE WoundUp(s) BY <1>a, <3>1 DEF WoundUp
    <3>2. CASE Closes(s) BY <1>a, <3>2 DEF Closes
    <3>3. CASE AgentEnds(s) BY <1>a, <3>3 DEF AgentEnds
    <3>4. CASE ShutdownEndsAgent(s) BY <1>a, <3>4 DEF ShutdownEndsAgent
    <3> QED BY <1>9, <3>1, <3>2, <3>3, <3>4
  <2>3. sock'[s].agent # "none" => sock[s].agent # "none" /\ sock'[s].call = sock[s].call
    <3>1. CASE WoundUp(s) BY <1>a, <3>1 DEF WoundUp
    <3>2. CASE Closes(s) BY <1>a, <3>2 DEF Closes
    <3>3. CASE AgentEnds(s) BY <1>a, <3>3 DEF AgentEnds
    <3>4. CASE ShutdownEndsAgent(s) BY <1>a, <3>4 DEF ShutdownEndsAgent, Sound, Registry
    <3> QED BY <1>9, <3>1, <3>2, <3>3, <3>4
  <2>4. \A o \in Sockets : Admitted(o)' => Admitted(o)
    BY <2>1, <2>2 DEF Admitted
  <2> QED BY <1>3, <2>1, <2>2, <2>3, <2>4
<1>10. CASE ShutdownBegins \/ ShutdownEnds \/ UNCHANGED vars
  <2>1. minted' = minted /\ tokens' = tokens /\ sock' = sock
    BY <1>10 DEF ShutdownBegins, ShutdownEnds, vars
  <2> QED BY <1>3, <2>1 DEF Admitted
<1> QED
  BY <1>1, <1>2, <1>5, <1>6, <1>7, <1>8, <1>9, <1>10 DEF Next, Handler

\* A stream token admits one socket, for the call it was minted for, and is good
\* until it is presented or MaxPending younger ones have pushed it out.
THEOREM TokensAreExact == Spec => []TokensExact
<1>1. Init => TokensExact
  <2>1. Init => tokens = {} /\ Len(minted) = 0 /\ \A s \in Sockets : ~Admitted(s)
    BY DEF Init, Idle, Admitted
  <2> QED
    BY <2>1, FS_EmptySet, ServerConstants
    DEF TokensExact, TokenAdmitsOnce, DroppedOnlyWhenFull
<1> QED
  BY <1>1, TokensStep, SoundAlways, PTL DEF Spec

=============================================================================
