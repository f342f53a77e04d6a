----------------------------- MODULE CallServer -----------------------------
(***************************************************************************)
(* The call server (onset/server.py) with the call limiter of limits.py:   *)
(* the webhook that answers a call and mints a stream token, the media     *)
(* socket that redeems it and runs an agent, the registry of agents, and   *)
(* the shutdown of the application, which ends whatever is registered.     *)
(*                                                                         *)
(* Every media socket is a task of its own; an action is what one task     *)
(* does between two awaits.  Telnyx is external: it may repeat a webhook,  *)
(* dial a stream before start_streaming has returned, dial one twice, or   *)
(* name another call in its start event.                                   *)
(***************************************************************************)
EXTENDS Integers, FiniteSets, Sequences

CONSTANTS
  Calls,           \* call_control_ids
  MaxSockets,      \* bound: connections to /ws/media
  MaxConcurrent,   \* settings.max_concurrent_calls; 0 disables the limit
  MaxPending,      \* stream tokens kept for calls that never connect (256)
  Benchmark,       \* whether a benchmark profile is configured: the choices
  MaxWebhooks      \* bound: call.answered webhooks

ASSUME ServerConstants ==
  /\ MaxConcurrent \in Nat /\ MaxPending \in Nat /\ MaxWebhooks \in Nat
  /\ Benchmark \subseteq BOOLEAN
  /\ MaxSockets \in Nat

NoCall == "none"
Sockets == 1..MaxSockets   \* in the order they connect

VARIABLES
  minted,    \* sequence: the call each token was minted for, in order
  tokens,    \* the pending ones (indexes of minted: the higher the younger)
  sock,      \* one record per media socket
  agents,    \* the registry: call -> the socket of its agent, 0 for no entry
  active,    \* CallLimiter._active
  claimed,   \* benchmark_call_claimed
  life,      \* "up", "ending" or "down": the application's lifespan
  doomed,    \* registered agents the shutdown loop has still to end
  measured   \* whether a benchmark profile is configured

vars == <<minted, tokens, sock, agents, active, claimed, life, doomed, measured>>

\* Where the handler of a media socket awaits.
Pcs == {"idle", "reading", "refusing", "winding", "closing", "closed"}

SockRec == [pc : Pcs, token : 0..MaxWebhooks, call : Calls \cup {NoCall},
            acquired : BOOLEAN, agent : {"none", "running", "ended"}]

Idle == [pc |-> "idle", token |-> 0, call |-> NoCall, acquired |-> FALSE,
         agent |-> "none"]

TypeOK ==
  /\ minted \in Seq(Calls) /\ Len(minted) <= MaxWebhooks
  /\ tokens \subseteq 1..Len(minted)
  /\ sock \in [Sockets -> SockRec]
  /\ agents \in [Calls -> Sockets \cup {0}]
  /\ active \in Nat /\ claimed \in BOOLEAN
  /\ life \in {"up", "ending", "down"}
  /\ doomed \subseteq Sockets
  /\ measured \in Benchmark

Init ==
  /\ minted = <<>> /\ tokens = {}
  /\ sock = [s \in Sockets |-> Idle]
  /\ agents = [c \in Calls |-> 0]
  /\ active = 0 /\ claimed = FALSE
  /\ life = "up" /\ doomed = {} /\ measured \in Benchmark

-----------------------------------------------------------------------------
(* Webhooks *)

\* `while len(tokens) > 256` drops the oldest before the new one is added: the
\* MaxPending youngest stay.
Evicted(ts) == {t \in ts : Cardinality({u \in ts : u > t}) < MaxPending}

\* call.answered, possibly repeated: mint a token, then await start_streaming.
\* That Telnyx may dial before it returns, or although it raised, is in Dials;
\* the hangup after it raised changes nothing here.
Answered(c) ==
  /\ life = "up" /\ Len(minted) < MaxWebhooks
  /\ minted' = Append(minted, c)
  /\ tokens' = Evicted(tokens) \cup {Len(minted')}
  /\ UNCHANGED <<sock, agents, active, claimed, life, doomed, measured>>

-----------------------------------------------------------------------------
(* The media socket *)

\* Mutant of Dials: the token is looked up, not popped.
DialsAgain(s, t) ==
  /\ life = "up"
  /\ \A o \in Sockets : (sock[o].pc = "idle") <=> (o >= s)
  /\ sock' = [sock EXCEPT ![s] = [@ EXCEPT !.pc = IF t \in tokens THEN "reading" ELSE "closed",
                                     !.token = t]]
  /\ UNCHANGED <<minted, tokens, agents, active, claimed, life, doomed, measured>>

\* Telnyx, or a stranger, dials with the token t, 0 for none of ours.  The
\* handler accepts and pops the token: only a pending one is served.
Dials(s, t) ==
  /\ life = "up"
  /\ \A o \in Sockets : (sock[o].pc = "idle") <=> (o >= s)
  /\ tokens' = tokens \ {t}
  /\ sock' = [sock EXCEPT ![s] = [@ EXCEPT !.pc = IF t \in tokens THEN "reading" ELSE "closed",
                                     !.token = t]]
  /\ UNCHANGED <<minted, agents, active, claimed, life, doomed, measured>>

Expected(s) == minted[sock[s].token]

\* A start event is handled only while the handler has no agent.
AwaitsStart(s) == life = "up" /\ sock[s].pc = "reading" /\ sock[s].agent = "none"

AtCapacity == MaxConcurrent > 0 /\ active >= MaxConcurrent

\* The finally block up to its first await.
FinallyFrom(rec) ==
  [rec EXCEPT !.pc = IF rec.agent # "none" THEN "winding" ELSE "closing"]

\* The start event names another call than the token.
StartsOtherCall(s) ==
  /\ AwaitsStart(s)
  /\ sock' = [sock EXCEPT ![s] = FinallyFrom(@)]
  /\ UNCHANGED <<minted, tokens, agents, active, claimed, life, doomed, measured>>

\* A second call under a benchmark is refused; the id it hangs up is the
\* recorded one, which is still empty.
StartsSecondBenchmark(s) ==
  /\ AwaitsStart(s) /\ measured /\ claimed
  /\ sock' = [sock EXCEPT ![s] = [@ EXCEPT !.pc = "refusing"]]
  /\ UNCHANGED <<minted, tokens, agents, active, claimed, life, doomed, measured>>

StartsAtCapacity(s) ==
  /\ AwaitsStart(s) /\ ~(measured /\ claimed) /\ AtCapacity
  /\ sock' = [sock EXCEPT ![s] = [@ EXCEPT !.pc = "refusing", !.call = Expected(s)]]
  /\ UNCHANGED <<minted, tokens, agents, active, claimed, life, doomed, measured>>

\* The hangup of a refused call returned or raised.
Refused(s) ==
  /\ sock[s].pc = "refusing"
  /\ sock' = [sock EXCEPT ![s] = FinallyFrom(@)]
  /\ UNCHANGED <<minted, tokens, agents, active, claimed, life, doomed, measured>>

MayServe(s) == AwaitsStart(s) /\ ~(measured /\ claimed) /\ ~AtCapacity

\* Served: a slot, the media stream, the agent, its entry and its run task.
Starts(s) ==
  /\ MayServe(s)
  /\ active' = active + 1
  /\ claimed' = (claimed \/ measured)
  /\ sock' = [sock EXCEPT ![s] = [@ EXCEPT !.call = Expected(s), !.acquired = TRUE,
                                     !.agent = "running"]]
  /\ agents' = [agents EXCEPT ![Expected(s)] = s]
  /\ UNCHANGED <<minted, tokens, life, doomed, measured>>

\* Mutant of StartRaises: the handler returns without its finally block.
StartRaisesOut(s) ==
  /\ MayServe(s)
  /\ active' = active + 1
  /\ claimed' = (claimed \/ measured)
  /\ sock' = [sock EXCEPT ![s] = [@ EXCEPT !.call = Expected(s), !.pc = "closed"]]
  /\ UNCHANGED <<minted, tokens, agents, life, doomed, measured>>

\* The milestone sink, the media stream or the agent cannot be built.
StartRaises(s) ==
  /\ MayServe(s)
  /\ active' = active + 1
  /\ claimed' = (claimed \/ measured)
  /\ sock' = [sock EXCEPT ![s] =
                 FinallyFrom([@ EXCEPT !.call = Expected(s), !.acquired = TRUE])]
  /\ UNCHANGED <<minted, tokens, agents, life, doomed, measured>>

\* A stop event, a disconnect, an error while reading or handling an event.
ReadEnds(s) ==
  /\ sock[s].pc = "reading"
  /\ sock' = [sock EXCEPT ![s] = FinallyFrom(@)]
  /\ UNCHANGED <<minted, tokens, agents, active, claimed, life, doomed, measured>>

\* The run task ends: hung up by its conversation, by submit_hangup, by the
\* shutdown, or cancelled by wait_for after ten seconds.
AgentEnds(s) ==
  /\ sock[s].agent = "running"
  /\ sock' = [sock EXCEPT ![s] = [@ EXCEPT !.agent = "ended"]]
  /\ UNCHANGED <<minted, tokens, agents, active, claimed, life, doomed, measured>>

\* Mutant of WoundUp: the entry goes before the task is awaited, and the task
\* is not awaited.
WoundUpEarly(s) ==
  /\ sock[s].pc = "winding"
  /\ agents' = [agents EXCEPT ![sock[s].call] = 0]
  /\ sock' = [sock EXCEPT ![s] = [@ EXCEPT !.pc = "closing"]]
  /\ UNCHANGED <<minted, tokens, active, claimed, life, doomed, measured>>

\* wait_for has returned, whatever the task's outcome: the call's entry goes,
\* whoever's it is by now.
WoundUp(s) ==
  /\ sock[s].pc = "winding" /\ sock[s].agent = "ended"
  /\ agents' = [agents EXCEPT ![sock[s].call] = 0]
  /\ sock' = [sock EXCEPT ![s] = [@ EXCEPT !.pc = "closing"]]
  /\ UNCHANGED <<minted, tokens, active, claimed, life, doomed, measured>>

Release(n) == IF n > 0 THEN n - 1 ELSE 0

\* Mutant of Closes: only a handler whose call was served gives a slot back.
ClosesServed(s) ==
  /\ sock[s].pc = "closing"
  /\ active' = IF sock[s].agent # "none" THEN Release(active) ELSE active
  /\ sock' = [sock EXCEPT ![s] = [@ EXCEPT !.pc = "closed",
                                     !.acquired = @ /\ sock[s].agent = "none"]]
  /\ UNCHANGED <<minted, tokens, agents, claimed, life, doomed, measured>>

\* media.aclose() returned: give the slot back and close the socket.
Closes(s) ==
  /\ sock[s].pc = "closing"
  /\ active' = IF sock[s].acquired THEN Release(active) ELSE active
  /\ sock' = [sock EXCEPT ![s] = [@ EXCEPT !.pc = "closed", !.acquired = FALSE]]
  /\ UNCHANGED <<minted, tokens, agents, claimed, life, doomed, measured>>

-----------------------------------------------------------------------------
(* Shutdown: list(agents.values()), then end them one after the other. *)

ShutdownBegins ==
  /\ life = "up"
  /\ life' = "ending"
  /\ doomed' = {agents[c] : c \in Calls} \ {0}
  /\ UNCHANGED <<minted, tokens, sock, agents, active, claimed, measured>>

\* cancel() and await the run task; aclose() for one that had ended.
ShutdownEndsAgent(s) ==
  /\ life = "ending" /\ s \in doomed
  /\ doomed' = doomed \ {s}
  /\ sock' = [sock EXCEPT ![s] = [@ EXCEPT !.agent = "ended"]]
  /\ UNCHANGED <<minted, tokens, agents, active, claimed, life, measured>>

ShutdownEnds ==
  /\ life = "ending" /\ doomed = {}
  /\ life' = "down"
  /\ agents' = [c \in Calls |-> 0]
  /\ UNCHANGED <<minted, tokens, sock, active, claimed, doomed, measured>>

Handler(s) ==
  \/ Refused(s) \/ WoundUp(s) \/ Closes(s)

Next ==
  \/ \E c \in Calls : Answered(c)
  \/ \E s \in Sockets :
       \/ \E t \in 0..Len(minted) : Dials(s, t)
       \/ Handler(s) \/ AgentEnds(s) \/ ReadEnds(s)
       \/ StartsOtherCall(s) \/ StartsSecondBenchmark(s) \/ StartsAtCapacity(s)
       \/ Starts(s) \/ StartRaises(s)
       \/ ShutdownEndsAgent(s)
  \/ ShutdownBegins \/ ShutdownEnds

\* The event loop runs ready tasks; wait_for bounds the wait for an agent that
\* was told to hang up; the shutdown loop runs to its end.
Fairness ==
  /\ \A s \in Sockets : WF_vars(Handler(s))
  /\ \A s \in Sockets : WF_vars(sock[s].pc = "winding" /\ AgentEnds(s))
  /\ \A s \in Sockets : WF_vars(ShutdownEndsAgent(s))
  /\ WF_vars(ShutdownEnds)

Spec == Init /\ [][Next]_vars /\ Fairness

-----------------------------------------------------------------------------
(* Properties *)

Holders == {s \in Sockets : sock[s].acquired}

\* Every slot of the limiter belongs to one handler that has yet to give it
\* back: none is leaked by a start that fails half way, none is given back
\* twice, and the limit holds.
SlotsExact ==
  /\ active = Cardinality(Holders)
  /\ MaxConcurrent > 0 => active <= MaxConcurrent

\* Past authentication.
Admitted(s) ==
  sock[s].pc \in {"reading", "refusing", "winding", "closing"} \/ sock[s].agent # "none"

\* A stream token admits one socket, however often it is presented, and a
\* call is served only on a token minted for it.
TokenAdmitsOnce ==
  /\ \A s1, s2 \in Sockets :
       Admitted(s1) /\ Admitted(s2) /\ sock[s1].token = sock[s2].token => s1 = s2
  /\ \A s \in Sockets : Admitted(s) =>
       /\ sock[s].token \notin tokens
       /\ sock[s].agent # "none" => sock[s].call = minted[sock[s].token]

\* A token that is neither pending nor presented was dropped, and that takes
\* MaxPending younger ones.
DroppedOnlyWhenFull ==
  /\ Cardinality(tokens) <= MaxPending + 1
  /\ \A t \in 1..Len(minted) :
       \/ t \in tokens
       \/ \E s \in Sockets : sock[s].token = t
       \/ Len(minted) - t > MaxPending

\* Every stream token minted for a call is good exactly once (server.py:259-266),
\* until it is presented or the memory bound drops it (server.py:180-183).
TokensExact == TokenAdmitsOnce /\ DroppedOnlyWhenFull

\* Another socket was admitted for the same call: its token was a second one.
Shadowed(s) ==
  \E o \in Sockets \ {s} : Admitted(o) /\ sock[o].agent # "none"
                           /\ sock[o].call = sock[s].call

\* The shutdown can find every agent that runs; only two tokens for one call
\* can hide one from it.
RegistryComplete ==
  life # "down" => \A s \in Sockets :
    sock[s].agent = "running" /\ ~Shadowed(s) => agents[sock[s].call] = s

\* When the application is down no agent runs, and a handler that has
\* returned has left neither a run task nor a slot behind.
NothingLeftBehind ==
  \A s \in Sockets :
    /\ life = "down" /\ ~Shadowed(s) => sock[s].agent # "running"
    /\ sock[s].pc = "closed" => sock[s].agent # "running" /\ ~sock[s].acquired

\* No exit of a media socket and no shutdown leaves an agent running: each is in
\* the registry until its handler is done, and is ended by one or the other
\* (server.py:85-98 and 346-366).
AgentsAccounted == RegistryComplete /\ NothingLeftBehind

\* The README's limit on concurrent calls must not wear out: a handler that is
\* past reading gives its slot back.
SlotReturned ==
  \A s \in Sockets :
    (sock[s].acquired /\ sock[s].pc # "reading") ~> ~sock[s].acquired

=============================================================================
