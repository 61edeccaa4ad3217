----------------------------- MODULE Transcript -----------------------------
(***************************************************************************)
(* The messages of a conversation with a model (model.Message in           *)
(* src/model/model.go) as far as the run loop of package agent tells them  *)
(* apart: who speaks, in which run and turn, and which call a tool result  *)
(* answers.  The text of a message is left out.                            *)
(***************************************************************************)
EXTENDS Integers, Sequences

CONSTANTS
  Runs,         \* the runs of the runner, one user input each
  Agents,
  MaxTurns      \* model calls a run may make

(* What a model may call: the regular tool Tool, or the handoff tool of an *)
(* agent, which carries that agent's name.                                 *)
Tool  == "tool"
Names == Agents \cup {Tool}

(* The outcome a tool result carries: a regular one, an error text, or the *)
(* agent a handoff call transferred to.                                    *)
Outputs == {"ok", "error"} \cup Agents

System(a) == [role |-> "system", of |-> a]
User(r)   == [role |-> "user", run |-> r]
Assistant(r, turn, calls) ==
  [role |-> "assistant", run |-> r, turn |-> turn, calls |-> calls]
Result(r, turn, i, output) ==
  [role |-> "tool", run |-> r, turn |-> turn, call |-> i, output |-> output]

Turns == 0 .. MaxTurns - 1

Message ==
  [role : {"system"}, of : Agents]
  \cup [role : {"user"}, run : Runs]
  \cup [role : {"assistant"}, run : Runs, turn : Turns, calls : Seq(Names)]
  \cup [role : {"tool"}, run : Runs, turn : Turns, call : Nat, output : Outputs]

-----------------------------------------------------------------------------
(* s is what run r adds to a conversation: the user input, then by turn    *)
(* one assistant message followed by the result of each of its calls, in   *)
(* order.                                                                  *)
TurnOf(r, s) ==
  /\ s # <<>>
  /\ s[1] = User(r)
  /\ \A i \in 2 .. Len(s) :
       LET prior == s[i - 1]
       IN  /\ s[i].role \in {"assistant", "tool"}
           /\ s[i].run = r
           /\ s[i].role = "assistant" =>
                s[i].turn = IF prior.role = "user" THEN 0 ELSE prior.turn + 1
           /\ s[i].role = "tool" =>
                /\ prior.role \in {"assistant", "tool"}
                /\ s[i].turn = prior.turn
                /\ s[i].call = IF prior.role = "tool" THEN prior.call + 1 ELSE 1

(* Each assistant message in s is followed by as many results as it has    *)
(* calls.                                                                  *)
Answered(s) ==
  \A i \in 1 .. Len(s) :
    s[i].role = "assistant" =>
      LET n == Len(s[i].calls)
      IN  /\ i + n <= Len(s)
          /\ \A j \in i + 1 .. i + n : s[j].role = "tool"
          /\ i + n < Len(s) => s[i + n + 1].role = "assistant"

(* Providers refuse a request in which a call has no result ...            *)
IsResultOf(result, m, k) ==
  result.role = "tool" /\ result.run = m.run /\ result.turn = m.turn /\ result.call = k
CallsHaveResults(s, i) ==
  s[i].role = "assistant" =>
    LET n == Len(s[i].calls)
    IN  i + n <= Len(s) /\ \A k \in 1 .. n : IsResultOf(s[i + k], s[i], k)

(* ... or a result stands where no message asked for one.                  *)
ResultHasCall(s, j) ==
  s[j].role = "tool" =>
    \E i \in 1 .. j - 1 : s[i].role = "assistant" /\ j <= i + Len(s[i].calls)

(* The turn ends in the model's final answer; or the run gave up before    *)
(* it, with every call answered.                                           *)
FinalAnswer(m) == m.role = "assistant" /\ m.calls = <<>>
CompleteTurn(r, s) ==
  /\ TurnOf(r, s) /\ Answered(s)
  /\ \A i \in 1 .. Len(s) : FinalAnswer(s[i]) <=> i = Len(s)
OpenTurn(r, s) ==
  /\ TurnOf(r, s) /\ Answered(s)
  /\ \A i \in 1 .. Len(s) : ~FinalAnswer(s[i])
=============================================================================
