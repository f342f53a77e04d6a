---------------------------- MODULE Conversation ----------------------------
(***************************************************************************)
(* The history of a call as the language model sees it                     *)
(* (onset/conversation.py): user turns, assistant turns that may carry     *)
(* tool calls, and tool results, trimmed from the front to MaxTurns user   *)
(* turns.  What a message says is abstracted away; `calls' is the set of   *)
(* call ids an assistant message makes, or the one a tool message answers. *)
(***************************************************************************)
EXTENDS Integers, Sequences, FiniteSets

CONSTANT MaxTurns   \* max_turns, 20 in the code

ASSUME MaxTurnsAssumption == MaxTurns \in Nat \ {0}

UserTurn == [role |-> "user", calls |-> {}]
AssistantTurn(calls) == [role |-> "assistant", calls |-> calls]
ToolResult(call) == [role |-> "tool", calls |-> {call}]

UserCount(h) == Cardinality({i \in DOMAIN h : h[i].role = "user"})

\* h without its first k messages.
DropFirst(h, k) == SubSeq(h, k + 1, Len(h))

\* Mutant of TrimStops: one turn too many is dropped.
TrimStopsLate(h) == UserCount(h) < MaxTurns \/ Len(h) <= 2

\* The loop of _trim stops at a history of this kind.
TrimStops(h) == UserCount(h) <= MaxTurns \/ Len(h) <= 2

\* _trim pops the oldest message until it may stop.
Trim(h) ==
  LET k == CHOOSE k \in 0..Len(h) : /\ TrimStops(DropFirst(h, k))
                                    /\ \A j \in 0..(k-1) : ~TrimStops(DropFirst(h, j))
  IN DropFirst(h, k)

AddUserTurn(h) == Trim(Append(h, UserTurn))
AddAssistantTurn(h, calls) == Trim(Append(h, AssistantTurn(calls)))
AddToolResult(h, call) == Append(h, ToolResult(call))

\* Messages i+1..j of h are all tool results.
AllResults(h, i, j) == \A k \in (i+1)..j : h[k].role = "tool"

\* A history the API accepts (agent.py:643-647): every call of an assistant
\* message is answered exactly once in the run of tool results right after it,
\* and there is no other tool result.
WellFormed(h) ==
  /\ \A i \in DOMAIN h : \A c \in h[i].calls :
       h[i].role = "assistant" =>
         Cardinality({j \in (i+1)..Len(h) : h[j] = ToolResult(c) /\ AllResults(h, i, j)}) = 1
  /\ \A j \in DOMAIN h : h[j].role = "tool" =>
       \E i \in 1..(j-1) : /\ h[i].role = "assistant"
                           /\ h[j].calls \subseteq h[i].calls
                           /\ AllResults(h, i, j)
=============================================================================
