--------------------------- MODULE AgentRunProofs ---------------------------
(***************************************************************************)
(* Theorems about AgentRun, for any number of runs over one session, any   *)
(* agents, handoffs, guardrails, compressor window and answers:            *)
(*   Invariance            IInv is an invariant,                           *)
(*   TypeCorrect           and with it TypeOK,                             *)
(*   GuardrailsGateHolds   and GuardrailsGate;                             *)
(*   ResultTellsHolds      a result agrees with the messages produced;     *)
(* and when no handoff changes whether there is a system prompt:           *)
(*   TurnInvariance        TurnsInv is an invariant too,                   *)
(*   PairedInvariance      and so is PairedInv, of calls and results,      *)
(*   RequestsValidHolds    the requests sent to the model are valid, up to *)
(*                         the results a compressor's window cut off,      *)
(*   KeepsPromisesHolds    and the runs implement Conversation.            *)
(* The invariants are said of one run at a time, as predicates of its      *)
(* state me == run[r]: a step changes the state of one run, and what the   *)
(* runs share, the session, is related to them by SessionInv alone.        *)
(***************************************************************************)
EXTENDS AgentRun, FiniteSetTheorems, TLAPS

RunState ==
  [ pc : Locations, ctxDone : BOOLEAN, cur : Agents, msgs : Seq(Message),
    base : Nat, turn : 0 .. MaxTurns, calls : Seq(Names),
    next : Agents \cup {NoAgent}, input : Seq(Verdicts \cup {"pending"}),
    output : Seq(Verdicts \cup {"pending"}), toolErrs : Nat,
    transfers : Seq(Agents), outcome : Outcomes ]

(* The runs in the middle of their turn, and those that have its answer.   *)
Open(me)  == me.pc \in {"input", "turn", "chat", "tools"}
Final(me) == me.pc \in {"output", "persist"}

(* What a run is about to do is in step with what it did.                  *)
StageInv(r, me) ==
  /\ (me.outcome = "running") <=> (me.pc # "ended")
  /\ me.pc \in {"new", "compress", "input"} =>
       me.cur = StartAgent[r] /\ me.turn = 0 /\ me.output = <<>>
  /\ me.pc \in {"new", "compress"} => me.input = <<>>
  /\ me.pc # "tools" => me.calls = <<>>
  /\ me.pc \notin {"tools", "ended"} \/ me.outcome = "done" =>
       me.next = NoAgent
  /\ me.pc # "ended" => me.next \in HandoffTo[me.cur] \cup {NoAgent}
  /\ me.pc \in {"chat", "tools"} => me.turn < MaxTurns
  /\ me.pc = "tools" => me.msgs # <<>>

(* A run that has not started its turn has heard nothing of its own.       *)
FreshInv(r, me) ==
  me.pc \in {"new", "compress"} =>
    \A i \in 1 .. Len(me.msgs) : ~IsOwn(r, me.msgs[i])

Passed(verdicts, n) ==
  Len(verdicts) = n /\ \A i \in 1 .. Len(verdicts) : verdicts[i] = "pass"

Given(verdicts, v) == \E i \in 1 .. Len(verdicts) : verdicts[i] = v
Seen(me, v) == Given(me.input, v) \/ Given(me.output, v)

HeardModel(r, me) ==
  \E i \in 1 .. Len(me.msgs) :
    IsOwn(r, me.msgs[i]) /\ me.msgs[i].role = "assistant"

(* The verdicts of the stages a run is past.                               *)
GateInv(r, me) ==
  /\ me.pc = "input" => Len(me.input) = InputGuards[StartAgent[r]]
  /\ me.pc \in {"turn", "chat", "tools", "output", "persist"}
       \/ HeardModel(r, me) => Passed(me.input, InputGuards[StartAgent[r]])
  /\ me.pc = "output" => Len(me.output) = OutputGuards[me.cur]
  /\ me.pc = "persist" \/ me.outcome = "done" =>
       Passed(me.output, OutputGuards[me.cur])
  /\ me.outcome = "guard_error" => Seen(me, "error") /\ ~Seen(me, "pending")
  /\ me.outcome = "tripwire" =>
       Seen(me, "trip") /\ ~Seen(me, "error") /\ ~Seen(me, "pending")

Types == session \in Seq(Message) /\ run \in [Runs -> RunState]

(* What is said in a session, and what a run hears there, comes from runs  *)
(* that are over.                                                          *)
Over(r) == run[r].outcome \in {"done", "carried"}
SessionInv ==
  /\ \A i \in 1 .. Len(session) :
       IsSystem(session[i]) \/ Over(session[i].run)
  /\ \A r \in Runs : \A i \in 1 .. Len(run[r].msgs) :
       LET m == run[r].msgs[i]
       IN  IsSystem(m) \/ IsOwn(r, m) \/ Over(m.run)

RunInv(r, me) == StageInv(r, me) /\ FreshInv(r, me) /\ GateInv(r, me)

IInv == Types /\ SessionInv /\ \A r \in Runs : RunInv(r, run[r])

-----------------------------------------------------------------------------
(* What holds when the prompt of an agent and the one of an agent it hands *)
(* over to take the same place.                                            *)

HandoffsKeepPrompt ==
  \A a \in Agents : \A b \in HandoffTo[a] \ Misconfigured :
    a \in Instructed <=> b \in Instructed

(* The conversation s has the system prompt of agent a, and no other.      *)
Headed(a, s) ==
  /\ Len(Prompt(a)) <= Len(s)
  /\ \A i \in 1 .. Len(s) : IF i <= Len(Prompt(a)) THEN s[i] = System(a)
                                                   ELSE ~IsSystem(s[i])

(* In the turn t every call has its result, but for those of calls, which  *)
(* are the last ones.                                                      *)
AnsweredBut(t, calls) ==
  \A i \in 1 .. Len(t) : t[i].role = "assistant" =>
    LET end == i + Len(t[i].calls)
    IN  /\ \A j \in i + 1 .. Len(t) : j <= end => t[j].role = "tool"
        /\ IF end < Len(t) THEN t[end + 1].role = "assistant"
                           ELSE end = Len(t) + Len(calls)

Turn(me) == SubSeq(me.msgs, me.base + 1, Len(me.msgs))

(* The conversation is the prompt of the current agent, a history in which *)
(* the run does not occur, and, from the input stage on, the turn.         *)
LayoutInv(r, me) ==
  /\ Len(Prompt(me.cur)) = Len(Prompt(StartAgent[r]))
  /\ me.pc \notin {"new", "ended"} \/ me.outcome = "max_turns" =>
       Headed(me.cur, me.msgs)
  /\ Open(me) \/ Final(me) \/ me.outcome = "max_turns" =>
       /\ me.base \in Len(Prompt(me.cur)) .. Len(me.msgs) - 1
       /\ \A i \in 1 .. me.base : ~IsOwn(r, me.msgs[i])

(* The turn is one that Conversation allows, up to the calls in progress;  *)
(* it is numbered as the loop counts; and only its last message can be a   *)
(* final answer.                                                           *)
TurnInv(r, me) ==
  Open(me) \/ Final(me) \/ me.outcome = "max_turns" =>
    LET t == Turn(me)
        last == t[Len(t)]
    IN  /\ TurnOf(r, t)
        /\ AnsweredBut(t, me.calls)
        /\ me.pc = "input" => Len(t) = 1
        /\ me.pc \in {"turn", "chat"} =>
             me.turn = IF last.role = "user" THEN 0 ELSE last.turn + 1
        /\ me.pc = "tools" => last.role # "user" /\ last.turn = me.turn
        /\ IF Final(me)
             THEN \A i \in 1 .. Len(t) : FinalAnswer(t[i]) <=> i = Len(t)
             ELSE \A i \in 1 .. Len(t) : ~FinalAnswer(t[i])

(* No system prompt gets into the session.                                 *)
SessionPlain == \A i \in 1 .. Len(session) : ~IsSystem(session[i])

TurnsInv ==
  /\ IInv /\ SessionPlain
  /\ \A r \in Runs : LayoutInv(r, run[r]) /\ TurnInv(r, run[r])

-----------------------------------------------------------------------------
(* A set of naturals has a least element: the form in which the proofs use *)
(* induction.                                                              *)
LEMMA LeastNatural ==
  ASSUME NEW T, T \subseteq Nat, T # {}
  PROVE  \E n \in T : \A k \in T : n <= k
<1> DEFINE R == OpToRel(<, Nat)
<1>1. \A n, k \in Nat : k < n => <<k, n>> \in R
  BY DEF OpToRel
<1>2. IsWellFoundedOn(R, Nat)
  BY NatLessThanWellFounded
<1> HIDE DEF R
<1>3. PICK n \in T : \A k \in T : <<k, n>> \notin R
  BY <1>2, WFMin
<1>4. ASSUME NEW k \in T PROVE n <= k
  <2>1. n \in Nat /\ k \in Nat /\ ~(k < n)
    BY <1>1, <1>3
  <2> QED  BY <2>1
<1> QED  BY <1>4

-----------------------------------------------------------------------------
(* Facts about conversations.                                              *)

LEMMA PromptFacts ==
  ASSUME NEW a \in Agents
  PROVE  /\ Prompt(a) \in Seq(Message)
         /\ Len(Prompt(a)) \in {0, 1}
         /\ \A i \in 1 .. Len(Prompt(a)) : Prompt(a)[i] = System(a)
         /\ IsSystem(System(a))
<1>1. System(a) \in Message /\ IsSystem(System(a))
  BY DEF System, Message, IsSystem
<1>2. CASE a \in Instructed
  <2>1. Prompt(a) = <<System(a)>>
    BY <1>2 DEF Prompt
  <2> QED  BY <1>1, <2>1
<1>3. CASE a \notin Instructed
  <2>1. Prompt(a) = <<>>
    BY <1>3 DEF Prompt
  <2> QED  BY <1>1, <2>1
<1> QED  BY <1>2, <1>3

LEMMA MessageFacts ==
  ASSUME NEW m \in Message
  PROVE  /\ m.role \in {"system", "user", "assistant", "tool"}
         /\ ~IsSystem(m) => m.run \in Runs
         /\ m.role = "tool" => m.call \in Nat
         /\ m.role \in {"assistant", "tool"} => m.turn \in Turns
         /\ m.role = "assistant" => m.calls \in Seq(Names)
  BY DEF Message, IsSystem

LEMMA MessageKinds ==
  ASSUME NEW r \in Runs
  PROVE  /\ User(r) \in Message /\ IsOwn(r, User(r))
         /\ User(r).role = "user"
         /\ \A turn \in Turns : \A calls \in Seq(Names) :
              /\ Assistant(r, turn, calls) \in Message
              /\ IsOwn(r, Assistant(r, turn, calls))
         /\ \A turn \in Turns : \A i \in Nat : \A output \in Outputs :
              /\ Result(r, turn, i, output) \in Message
              /\ IsOwn(r, Result(r, turn, i, output))
  BY DEF User, Assistant, Result, Message, IsOwn, IsSystem

LEMMA AppendFacts ==
  ASSUME NEW s \in Seq(Message), NEW m \in Message
  PROVE  /\ Append(s, m) \in Seq(Message)
         /\ Len(Append(s, m)) = Len(s) + 1 /\ Append(s, m) # <<>>
         /\ \A i \in 1 .. Len(s) : Append(s, m)[i] = s[i]
         /\ Append(s, m)[Len(s) + 1] = m
         /\ \A i \in 1 .. Len(Append(s, m)) :
              Append(s, m)[i] = m \/ (i \in 1 .. Len(s) /\ Append(s, m)[i] = s[i])
<1> DEFINE t == Append(s, m)
<1>1. t \in Seq(Message) /\ Len(t) = Len(s) + 1
  OBVIOUS
<1>2. (\A i \in 1 .. Len(s) : t[i] = s[i]) /\ t[Len(s) + 1] = m
  OBVIOUS
<1>3. \A i \in 1 .. Len(s) + 1 : i \in 1 .. Len(s) \/ i = Len(s) + 1
  OBVIOUS
<1> HIDE DEF t
<1>4. t # <<>>
  BY <1>1
<1>5. \A i \in 1 .. Len(t) : t[i] = m \/ (i \in 1 .. Len(s) /\ t[i] = s[i])
  <2> TAKE i \in 1 .. Len(t)
  <2>1. CASE i = Len(s) + 1
    <3>1. t[i] = m
      BY <1>2, <2>1
    <3> QED  BY <3>1
  <2>2. CASE i # Len(s) + 1
    BY <1>1, <1>2, <1>3, <2>2
  <2> QED  BY <2>1, <2>2
<1> QED  BY <1>1, <1>2, <1>4, <1>5 DEF t

(* What withInstructions, the compressor and the switch of the system      *)
(* prompt make of a conversation: other system messages in front, and      *)
(* otherwise messages that were in it.                                     *)
LEMMA LeadingFacts ==
  ASSUME NEW s \in Seq(Message)
  PROVE  /\ Leading(s) \in 0 .. Len(s)
         /\ \A i \in 1 .. Leading(s) : IsSystem(s[i])
         /\ Leading(s) < Len(s) => ~IsSystem(s[Leading(s) + 1])
<1> DEFINE P(n) == /\ \A i \in 1 .. n : IsSystem(s[i])
                   /\ n < Len(s) => ~IsSystem(s[n + 1])
           S == {n \in 0 .. Len(s) : P(n)}
           N == {n \in 0 .. Len(s) : n < Len(s) => ~IsSystem(s[n + 1])}
<1>1. N \subseteq Nat /\ Len(s) \in N
  OBVIOUS
<1>2. PICK n \in N : \A k \in N : n <= k
  <2> HIDE DEF N
  <2> QED  BY <1>1, LeastNatural
<1>3. \A i \in 1 .. n : IsSystem(s[i])
  <2> SUFFICES ASSUME NEW i \in 1 .. n, ~IsSystem(s[i]) PROVE FALSE
    OBVIOUS
  <2>1. i - 1 \in N
    OBVIOUS
  <2> HIDE DEF N
  <2> QED  BY <2>1, <1>1, <1>2
<1>4. P(n) /\ n \in 0 .. Len(s)
  BY <1>2, <1>3
<1>5. Leading(s) = CHOOSE k \in 0 .. Len(s) : P(k)
  BY DEF Leading
<1> HIDE DEF P
<1>6. Leading(s) \in 0 .. Len(s) /\ P(Leading(s))
  BY <1>4, <1>5
<1> QED  BY <1>6 DEF P

(* s is made of messages of t and of system messages.                      *)
Within(s, t) ==
  \A i \in 1 .. Len(s) : IsSystem(s[i]) \/ \E j \in 1 .. Len(t) : s[i] = t[j]

LEMMA WithinFacts ==
  ASSUME NEW s \in Seq(Message)
  PROVE  /\ Within(s, s)
         /\ \A m \in 1 .. Len(s) + 1 : \A n \in 0 .. Len(s) :
              SubSeq(s, m, n) \in Seq(Message) /\ Within(SubSeq(s, m, n), s)
<1>1. ASSUME NEW m \in 1 .. Len(s) + 1, NEW n \in 0 .. Len(s)
      PROVE  SubSeq(s, m, n) \in Seq(Message) /\ Within(SubSeq(s, m, n), s)
  <2> DEFINE sub == SubSeq(s, m, n)
  <2>1. CASE m <= n
    <3>1. sub \in Seq(Message) /\ Len(sub) = n - m + 1
      BY <2>1
    <3>2. ASSUME NEW i \in 1 .. Len(sub) PROVE sub[i] = s[m + i - 1]
      BY <2>1, <3>1
    <3>3. \A i \in 1 .. Len(sub) : m + i - 1 \in 1 .. Len(s)
      BY <2>1, <3>1
    <3> QED  BY <3>1, <3>2, <3>3 DEF Within
  <2>2. CASE ~(m <= n)
    <3>1. sub = <<>>
      BY <2>2
    <3> QED  BY <3>1 DEF Within
  <2> QED  BY <2>1, <2>2
<1>2. Within(s, s)
  BY DEF Within
<1> QED  BY <1>1, <1>2

LEMMA ConcatElements ==
  ASSUME NEW s \in Seq(Message), NEW t \in Seq(Message)
  PROVE  /\ s \o t \in Seq(Message)
         /\ \A i \in 1 .. Len(s \o t) :
              \/ \E j \in 1 .. Len(s) : (s \o t)[i] = s[j]
              \/ \E j \in 1 .. Len(t) : (s \o t)[i] = t[j]
<1> SUFFICES \A i \in 1 .. Len(s \o t) :
               \/ \E j \in 1 .. Len(s) : (s \o t)[i] = s[j]
               \/ \E j \in 1 .. Len(t) : (s \o t)[i] = t[j]
  OBVIOUS
<1> TAKE i \in 1 .. Len(s \o t)
<1>1. CASE i <= Len(s)
  BY <1>1
<1>2. CASE i > Len(s)
  <2>1. i - Len(s) \in 1 .. Len(t) /\ (s \o t)[i] = t[i - Len(s)]
    BY <1>2
  <2> QED  BY <2>1
<1> QED  BY <1>1, <1>2

LEMMA WithinConcat ==
  ASSUME NEW s \in Seq(Message), NEW t \in Seq(Message),
         NEW u \in Seq(Message), Within(s, u), Within(t, u)
  PROVE  s \o t \in Seq(Message) /\ Within(s \o t, u)
<1>1. s \o t \in Seq(Message) /\ Len(s \o t) = Len(s) + Len(t)
  OBVIOUS
<1>2. ASSUME NEW i \in 1 .. Len(s \o t)
      PROVE  IF i <= Len(s) THEN i \in 1 .. Len(s) /\ (s \o t)[i] = s[i]
                            ELSE /\ i - Len(s) \in 1 .. Len(t)
                                 /\ (s \o t)[i] = t[i - Len(s)]
  BY <1>1
<1>3. ASSUME NEW i \in 1 .. Len(s \o t)
      PROVE  IsSystem((s \o t)[i]) \/ \E j \in 1 .. Len(u) : (s \o t)[i] = u[j]
  BY <1>2, <1>3, SMTT(30) DEF Within
<1> QED  BY <1>1, <1>3 DEF Within

LEMMA WithinTransitive ==
  ASSUME NEW s \in Seq(Message), NEW t \in Seq(Message),
         NEW u \in Seq(Message), Within(s, t), Within(t, u)
  PROVE  Within(s, u)
  BY DEF Within

LEMMA PromptWithin ==
  ASSUME NEW a \in Agents, NEW s \in Seq(Message)
  PROVE  Prompt(a) \in Seq(Message) /\ Within(Prompt(a), s)
  BY PromptFacts DEF Within

LEMMA RestFacts ==
  ASSUME NEW s \in Seq(Message)
  PROVE  /\ Rest(s) \in Seq(Message) /\ Within(Rest(s), s)
         /\ Systems(s) \in Seq(Message) /\ Within(Systems(s), s)
<1>1. Leading(s) \in 0 .. Len(s)
  BY LeadingFacts
<1>2. Leading(s) + 1 \in 1 .. Len(s) + 1 /\ 1 \in 1 .. Len(s) + 1
      /\ Len(s) \in 0 .. Len(s)
  BY <1>1
<1> QED  BY <1>1, <1>2, WithinFacts DEF Rest, Systems

LEMMA WithInstructionsFacts ==
  ASSUME NEW a \in Agents, NEW s \in Seq(Message)
  PROVE  /\ withInstructions(a, s) \in Seq(Message)
         /\ Within(withInstructions(a, s), s)
  BY PromptWithin, WithinFacts, WithinConcat DEF withInstructions

LEMMA CompressedFacts ==
  ASSUME NEW s \in Seq(Message)
  PROVE  Compressed(s) \in Seq(Message) /\ Within(Compressed(s), s)
<1> DEFINE rest == Rest(s)
           tail == SubSeq(rest, Len(rest) - Keep + 1, Len(rest))
<1>1. /\ rest \in Seq(Message) /\ Within(rest, s)
      /\ Systems(s) \in Seq(Message) /\ Within(Systems(s), s)
  BY RestFacts
<1>2. Compressed(s) = IF Keep = 0 \/ Len(rest) <= Keep THEN s
                                                      ELSE Systems(s) \o tail
  BY DEF Compressed
<1> HIDE DEF rest
<1>3. CASE ~(Keep = 0 \/ Len(rest) <= Keep)
  <2>1. /\ Len(rest) - Keep + 1 \in 1 .. Len(rest) + 1
        /\ Len(rest) \in 0 .. Len(rest)
    BY <1>1, <1>3, AgentRunAssumption
  <2>2. tail \in Seq(Message) /\ Within(tail, rest)
    BY <1>1, <2>1, WithinFacts
  <2> HIDE DEF tail
  <2>3. Within(tail, s)
    BY <1>1, <2>2, WithinTransitive
  <2> QED  BY <1>1, <1>2, <1>3, <2>2, <2>3, WithinConcat
<1> QED  BY <1>2, <1>3, WithinFacts

LEMMA SwitchFacts ==
  ASSUME NEW a \in Agents, NEW s \in Seq(Message)
  PROVE  /\ switchSystemMessage(s, a) \in Seq(Message)
         /\ Within(switchSystemMessage(s, a), s)
  BY PromptWithin, RestFacts, WithinConcat DEF switchSystemMessage

-----------------------------------------------------------------------------
(* What a step makes of the state me of run r.                             *)

Ended(me, outcome) == [me EXCEPT !.pc = "ended", !.outcome = outcome]
Loaded(r, me, history) ==
  [me EXCEPT !.pc = "compress",
             !.msgs = withInstructions(StartAgent[r], history)]
Prepared(r, me) ==
  [me EXCEPT !.pc = "input",
             !.msgs = Append(Compressed(me.msgs), User(r)),
             !.base = Len(Compressed(me.msgs)),
             !.input = Pending(InputGuards[me.cur])]
InputVerdict(me, i, v) == [me EXCEPT !.input[i] = v]
OutputVerdict(me, i, v) == [me EXCEPT !.output[i] = v]
AtChat(me) == [me EXCEPT !.pc = "chat"]
FinalGiven(r, me) ==
  [me EXCEPT !.pc = "output",
             !.msgs = Append(@, Assistant(r, me.turn, <<>>)),
             !.output = Pending(OutputGuards[me.cur])]
CallsAsked(r, me, calls) ==
  [me EXCEPT !.pc = "tools",
             !.msgs = Append(@, Assistant(r, me.turn, calls)),
             !.calls = calls]
NextCall(me) ==
  IF Last(me.msgs).role = "tool" THEN Last(me.msgs).call + 1 ELSE 1
CallDone(r, me, answer) ==
  [me EXCEPT !.msgs = Append(@, Result(r, me.turn, NextCall(me), answer)),
             !.calls = Tail(@),
             !.next = IF answer \in HandoffTo[me.cur] THEN answer ELSE @,
             !.transfers = IF answer \in HandoffTo[me.cur]
                             THEN Append(@, answer) ELSE @,
             !.toolErrs = IF answer = "error" THEN @ + 1 ELSE @]
NextTurn(me, cur, msgs) ==
  [me EXCEPT !.pc = "turn", !.turn = @ + 1, !.next = NoAgent,
             !.cur = cur, !.msgs = msgs]
Past(me) ==
  [me EXCEPT !.pc = IF me.pc = "input" THEN "turn" ELSE "persist"]
Cancelled(me) == [me EXCEPT !.ctxDone = TRUE]

Moves(r, me, st) ==
  \/ me.pc = "new" /\ st = Loaded(r, me, session)
  \/ me.pc = "compress" /\ st = Prepared(r, me)
  \/ \E i \in DOMAIN me.input, v \in Verdicts :
       /\ me.pc = "input" /\ me.input[i] = "pending"
       /\ st = InputVerdict(me, i, v)
  \/ \E i \in DOMAIN me.output, v \in Verdicts :
       /\ me.pc = "output" /\ me.output[i] = "pending"
       /\ st = OutputVerdict(me, i, v)
  \/ \E verdicts \in {me.input, me.output} :
       /\ \/ me.pc = "input" /\ verdicts = me.input
          \/ me.pc = "output" /\ verdicts = me.output
       /\ ~Contains(verdicts, "pending")
       /\ st = IF Judged(verdicts) # "pass" THEN Ended(me, Judged(verdicts))
                                            ELSE Past(me)
  \/ me.pc = "turn" /\ me.turn < MaxTurns /\ st = AtChat(me)
  \/ me.pc = "chat" /\ st = FinalGiven(r, me)
  \/ \E calls \in Answers \ {<<>>} :
       me.pc = "chat" /\ st = CallsAsked(r, me, calls)
  \/ \E answer \in HandoffTo[me.cur] \cup {"ok", "error"} :
       me.pc = "tools" /\ me.calls # <<>> /\ st = CallDone(r, me, answer)
  \/ /\ me.pc = "tools" /\ me.calls = <<>> /\ me.next = NoAgent
     /\ st = NextTurn(me, me.cur, me.msgs)
  \/ /\ me.pc = "tools" /\ me.calls = <<>>
     /\ me.next \in Agents \ Misconfigured
     /\ st = NextTurn(me, me.next, switchSystemMessage(me.msgs, me.next))
  \/ \E outcome \in {"failed", "max_turns"} :
       /\ me.pc # "ended" /\ me.calls = <<>>
       /\ outcome = "max_turns" => me.pc = "turn"
       /\ st = Ended(me, outcome)
  \/ me.pc = "persist" /\ st = Ended(me, "done")
  \/ me.outcome = "max_turns" /\ st = Ended(me, "carried")
  \/ me.pc # "ended" /\ st = Cancelled(me)

(* One lemma per outcome of a step says that the new state is one of IInv, *)
(* and that the run heard nothing but what it had heard, or heard in the   *)
(* session, and what is its own.                                           *)

Learns(r, s, t) ==
  \A i \in 1 .. Len(t) :
    IsSystem(t[i]) \/ IsOwn(r, t[i]) \/ \E j \in 1 .. Len(s) : t[i] = s[j]

Kept(r, heard, st) ==
  st \in RunState /\ RunInv(r, st) /\ Learns(r, heard, st.msgs)

LEMMA FailKept ==
  ASSUME NEW r \in Runs, NEW me \in RunState, RunInv(r, me),
         me.pc # "ended", me.calls = <<>>,
         NEW outcome \in {"failed", "max_turns"}
  PROVE  Kept(r, me.msgs, Ended(me, outcome))
<1> DEFINE st == Ended(me, outcome)
<1>1. /\ st \in RunState /\ st.pc = "ended" /\ st.outcome = outcome
      /\ st.msgs = me.msgs /\ st.input = me.input /\ st.output = me.output
      /\ st.calls = <<>>
  BY DEF Ended, RunState, Locations, Outcomes
<1> HIDE DEF st
<1>2. StageInv(r, st)
  BY <1>1 DEF StageInv
<1>3. FreshInv(r, st)
  BY <1>1 DEF FreshInv
<1>4. GateInv(r, st)
  BY <1>1 DEF GateInv, RunInv, HeardModel
<1>5. Learns(r, me.msgs, st.msgs)
  BY <1>1 DEF Learns
<1> QED  BY <1>1, <1>2, <1>3, <1>4, <1>5 DEF Kept, RunInv, st

LEMMA BeginKept ==
  ASSUME NEW r \in Runs, NEW me \in RunState, RunInv(r, me), me.pc = "new",
         NEW heard \in Seq(Message),
         \A i \in 1 .. Len(heard) : ~IsOwn(r, heard[i])
  PROVE  Kept(r, heard, Loaded(r, me, heard))
<1> DEFINE msgs == withInstructions(StartAgent[r], heard)
           st == Loaded(r, me, heard)
<1>1. msgs \in Seq(Message) /\ Within(msgs, heard)
  BY WithInstructionsFacts, AgentRunAssumption
<1> HIDE DEF msgs
<1>0. st = [me EXCEPT !.pc = "compress", !.msgs = msgs]
  BY DEF Loaded, msgs
<1> HIDE DEF st
<1>2. /\ st \in RunState /\ st.pc = "compress" /\ st.msgs = msgs
      /\ st.input = me.input /\ st.output = me.output /\ st.calls = me.calls
      /\ st.cur = me.cur /\ st.turn = me.turn /\ st.next = me.next
      /\ st.outcome = me.outcome
  BY <1>0, <1>1 DEF RunState, Locations
<1>3. StageInv(r, st)
  BY <1>2 DEF StageInv, RunInv
<1>4. \A i \in 1 .. Len(msgs) : ~IsOwn(r, msgs[i])
  BY <1>1 DEF Within, IsOwn
<1>5. FreshInv(r, st)
  BY <1>2, <1>4 DEF FreshInv
<1>6. GateInv(r, st)
  BY <1>2, <1>4 DEF GateInv, RunInv, StageInv, HeardModel
<1>7. Learns(r, heard, st.msgs)
  BY <1>1, <1>2 DEF Learns, Within
<1> QED  BY <1>2, <1>3, <1>5, <1>6, <1>7 DEF Kept, RunInv, st, msgs

LEMMA PrepareKept ==
  ASSUME NEW r \in Runs, NEW me \in RunState, RunInv(r, me),
         me.pc = "compress"
  PROVE  Kept(r, me.msgs, Prepared(r, me))
<1> DEFINE history == Compressed(me.msgs)
           msgs == Append(history, User(r))
           base == Len(history)
           input == Pending(InputGuards[me.cur])
           st == Prepared(r, me)
<1>0. st = [me EXCEPT !.pc = "input", !.msgs = msgs, !.base = base,
                      !.input = input]
  BY DEF Prepared
<1> HIDE DEF st
<1>1. me.msgs \in Seq(Message) /\ me.cur = StartAgent[r] /\ me.cur \in Agents
  BY DEF RunState, RunInv, StageInv
<1>2. history \in Seq(Message) /\ Within(history, me.msgs)
  BY <1>1, CompressedFacts
<1> HIDE DEF history
<1>3. /\ msgs \in Seq(Message)
      /\ \A i \in 1 .. Len(msgs) :
           msgs[i] = User(r) \/ (i \in 1 .. Len(history) /\ msgs[i] = history[i])
  <2>1. User(r) \in Message
    BY MessageKinds
  <2> QED  BY <1>2, <2>1, AppendFacts
<1>4. base \in Nat
  BY <1>2
<1> HIDE DEF msgs, base
<1>5. InputGuards[me.cur] \in Nat
  BY <1>1, AgentRunAssumption
<1>6. input \in Seq(Verdicts \cup {"pending"}) /\ Len(input) = InputGuards[me.cur]
  BY <1>5 DEF Pending
<1> HIDE DEF input
<1>7. /\ st \in RunState /\ st.pc = "input" /\ st.msgs = msgs
      /\ st.input = input /\ st.output = me.output /\ st.calls = me.calls
      /\ st.cur = me.cur /\ st.turn = me.turn /\ st.next = me.next
      /\ st.outcome = me.outcome
  BY <1>0, <1>3, <1>4, <1>6 DEF RunState, Locations, Stages
<1>8. StageInv(r, st)
  BY <1>7 DEF StageInv, RunInv
<1>9. FreshInv(r, st)
  BY <1>7 DEF FreshInv
<1>10. Learns(r, me.msgs, st.msgs)
  BY <1>2, <1>3, <1>7, MessageKinds DEF Learns, Within
<1>11. ~HeardModel(r, st)
  <2>1. \A i \in 1 .. Len(me.msgs) : ~IsOwn(r, me.msgs[i])
    BY DEF RunInv, FreshInv
  <2> QED  BY <1>2, <1>3, <1>7, <2>1, MessageKinds DEF HeardModel, Within, IsOwn
<1>12. GateInv(r, st)
  BY <1>1, <1>6, <1>7, <1>11 DEF GateInv, RunInv, StageInv
<1> QED  BY <1>7, <1>8, <1>9, <1>10, <1>12
     DEF Kept, RunInv, st, msgs, history, input, base

LEMMA InputVerdictKept ==
  ASSUME NEW r \in Runs, NEW me \in RunState, RunInv(r, me),
         me.pc = "input", NEW i \in DOMAIN me.input,
         me.input[i] = "pending", NEW v \in Verdicts
  PROVE  Kept(r, me.msgs, InputVerdict(me, i, v))
<1> DEFINE input == [me.input EXCEPT ![i] = v]
           st == InputVerdict(me, i, v)
<1>1. input \in Seq(Verdicts \cup {"pending"}) /\ Len(input) = Len(me.input)
  BY DEF RunState
<1>2. st = [me EXCEPT !.input = input]
  BY DEF InputVerdict
<1> HIDE DEF input, st
<1>3. /\ st \in RunState /\ st.pc = me.pc /\ st.msgs = me.msgs
      /\ st.input = input /\ st.output = me.output /\ st.calls = me.calls
      /\ st.cur = me.cur /\ st.turn = me.turn /\ st.next = me.next
      /\ st.outcome = me.outcome
  BY <1>1, <1>2 DEF RunState
<1>4. StageInv(r, st)
  BY <1>3 DEF StageInv, RunInv
<1>5. FreshInv(r, st)
  BY <1>3 DEF FreshInv
<1>6. ~HeardModel(r, me)
  <2>1. i \in 1 .. Len(me.input) /\ me.input[i] # "pass"
    BY DEF RunState
  <2> QED  BY <2>1 DEF RunInv, GateInv, Passed
<1>7. GateInv(r, st)
  <2>1. ~HeardModel(r, st)
    BY <1>3, <1>6 DEF HeardModel
  <2>2. me.outcome = "running"
    BY DEF RunInv, StageInv
  <2> QED  BY <1>1, <1>3, <2>1, <2>2 DEF GateInv, RunInv
<1>8. Learns(r, me.msgs, st.msgs)
  BY <1>3 DEF Learns
<1> QED  BY <1>3, <1>4, <1>5, <1>7, <1>8 DEF Kept, RunInv, st

LEMMA OutputVerdictKept ==
  ASSUME NEW r \in Runs, NEW me \in RunState, RunInv(r, me),
         me.pc = "output", NEW i \in DOMAIN me.output,
         me.output[i] = "pending", NEW v \in Verdicts
  PROVE  Kept(r, me.msgs, OutputVerdict(me, i, v))
<1> DEFINE output == [me.output EXCEPT ![i] = v]
           st == OutputVerdict(me, i, v)
<1>1. /\ output \in Seq(Verdicts \cup {"pending"})
      /\ Len(output) = Len(me.output)
  BY DEF RunState
<1>2. st = [me EXCEPT !.output = output]
  BY DEF OutputVerdict
<1> HIDE DEF output, st
<1>3. /\ st \in RunState /\ st.pc = me.pc /\ st.msgs = me.msgs
      /\ st.output = output /\ st.input = me.input /\ st.calls = me.calls
      /\ st.cur = me.cur /\ st.turn = me.turn /\ st.next = me.next
      /\ st.outcome = me.outcome
  BY <1>1, <1>2 DEF RunState
<1>4. StageInv(r, st)
  BY <1>3 DEF StageInv, RunInv
<1>5. FreshInv(r, st)
  BY <1>3 DEF FreshInv
<1>6. GateInv(r, st)
  <2>1. HeardModel(r, st) <=> HeardModel(r, me)
    BY <1>3 DEF HeardModel
  <2>2. me.outcome = "running"
    BY DEF RunInv, StageInv
  <2> QED  BY <1>1, <1>3, <2>1, <2>2 DEF GateInv, RunInv
<1>7. Learns(r, me.msgs, st.msgs)
  BY <1>3 DEF Learns
<1> QED  BY <1>3, <1>4, <1>5, <1>6, <1>7 DEF Kept, RunInv, st

LEMMA JudgedFacts ==
  ASSUME NEW verdicts \in Seq(Verdicts \cup {"pending"}),
         ~Contains(verdicts, "pending")
  PROVE  /\ Judged(verdicts) \in {"guard_error", "tripwire", "pass"}
         /\ ~Given(verdicts, "pending")
         /\ Judged(verdicts) = "guard_error" => Given(verdicts, "error")
         /\ Judged(verdicts) = "tripwire" =>
              Given(verdicts, "trip") /\ ~Given(verdicts, "error")
         /\ Judged(verdicts) = "pass" => Passed(verdicts, Len(verdicts))
<1>1. \A v \in {"pending", "error", "trip"} :
        Contains(verdicts, v) <=> Given(verdicts, v)
  BY DEF Contains, Given
<1>2. CASE Contains(verdicts, "error")
  <2>1. Judged(verdicts) = "guard_error"
    BY <1>2 DEF Judged
  <2> QED  BY <1>1, <1>2, <2>1
<1>3. CASE ~Contains(verdicts, "error") /\ Contains(verdicts, "trip")
  <2>1. Judged(verdicts) = "tripwire"
    BY <1>3 DEF Judged
  <2> QED  BY <1>1, <1>3, <2>1
<1>4. CASE ~Contains(verdicts, "error") /\ ~Contains(verdicts, "trip")
  <2>1. Judged(verdicts) = "pass"
    BY <1>4 DEF Judged
  <2>2. Passed(verdicts, Len(verdicts))
    BY <1>1, <1>4 DEF Passed, Given, Verdicts
  <2> QED  BY <1>1, <2>1, <2>2
<1> QED  BY <1>2, <1>3, <1>4

LEMMA JudgeKept ==
  ASSUME NEW r \in Runs, NEW me \in RunState, RunInv(r, me),
         NEW verdicts,
         \/ me.pc = "input" /\ verdicts = me.input
         \/ me.pc = "output" /\ verdicts = me.output,
         ~Contains(verdicts, "pending")
  PROVE  Kept(r, me.msgs,
           IF Judged(verdicts) # "pass" THEN Ended(me, Judged(verdicts))
           ELSE Past(me))
<1>1. verdicts \in Seq(Verdicts \cup {"pending"})
  BY DEF RunState
<1>2. me.outcome = "running" /\ me.calls = <<>> /\ me.next = NoAgent
  BY DEF RunInv, StageInv
<1>3. CASE Judged(verdicts) # "pass"
  <2> DEFINE judgement == Judged(verdicts)
             st == Ended(me, judgement)
  <2>1. judgement \in {"guard_error", "tripwire"}
    BY <1>1, <1>3, JudgedFacts
  <2>2. /\ ~Given(verdicts, "pending")
        /\ judgement = "guard_error" => Given(verdicts, "error")
        /\ judgement = "tripwire" =>
             Given(verdicts, "trip") /\ ~Given(verdicts, "error")
    BY <1>1, JudgedFacts
  <2> HIDE DEF judgement
  <2>3. /\ st \in RunState /\ st.pc = "ended" /\ st.outcome = judgement
        /\ st.msgs = me.msgs /\ st.input = me.input /\ st.output = me.output
        /\ st.calls = <<>>
    BY <1>2, <2>1 DEF Ended, RunState, Locations, Outcomes
  <2> HIDE DEF st
  <2>4. StageInv(r, st)
    BY <2>1, <2>3 DEF StageInv
  <2>5. FreshInv(r, st)
    BY <2>3 DEF FreshInv
  <2>6. HeardModel(r, st) <=> HeardModel(r, me)
    BY <2>3 DEF HeardModel
  <2>7. CASE me.pc = "input" /\ verdicts = me.input
    <3>1. me.output = <<>>
      BY <2>7 DEF RunInv, StageInv
    <3>2. \A x : Seen(st, x) <=> Given(verdicts, x)
      BY <2>3, <2>7, <3>1 DEF Seen, Given
    <3>3. GateInv(r, st)
      BY <2>1, <2>2, <2>3, <2>6, <3>2 DEF GateInv, RunInv
    <3> QED  BY <1>3, <2>3, <2>4, <2>5, <3>3
             DEF Kept, RunInv, Learns, st, judgement
  <2>8. CASE me.pc = "output" /\ verdicts = me.output
    <3>1. ~Given(me.input, "pending") /\ ~Given(me.input, "error")
      BY <2>8 DEF RunInv, GateInv, Passed, Given
    <3>2. \A x : Given(verdicts, x) => Seen(st, x)
      BY <2>3, <2>8 DEF Seen
    <3>3. \A x \in {"pending", "error"} : Seen(st, x) => Given(verdicts, x)
      BY <2>3, <2>8, <3>1 DEF Seen
    <3>4. GateInv(r, st)
      BY <2>1, <2>2, <2>3, <2>6, <3>2, <3>3 DEF GateInv, RunInv
    <3> QED  BY <1>3, <2>3, <2>4, <2>5, <3>4
             DEF Kept, RunInv, Learns, st, judgement
  <2> QED  BY <2>7, <2>8
<1>4. CASE Judged(verdicts) = "pass"
  <2> DEFINE pc == IF me.pc = "input" THEN "turn" ELSE "persist"
             st == Past(me)
  <2>1. Passed(verdicts, Len(verdicts))
    BY <1>1, <1>4, JudgedFacts
  <2>2. pc \in {"turn", "persist"}
    OBVIOUS
  <2>3. /\ st \in RunState /\ st.pc = pc
        /\ st.msgs = me.msgs /\ st.input = me.input /\ st.output = me.output
        /\ st.calls = <<>> /\ st.next = NoAgent /\ st.outcome = "running"
        /\ st.cur = me.cur
    BY <1>2, <2>2 DEF Past, RunState, Locations
  <2> HIDE DEF st
  <2>4. StageInv(r, st)
    BY <2>2, <2>3 DEF StageInv
  <2>5. FreshInv(r, st)
    BY <2>2, <2>3 DEF FreshInv
  <2>6. GateInv(r, st)
    <3>1. HeardModel(r, st) <=> HeardModel(r, me)
      BY <2>3 DEF HeardModel
    <3>2. CASE me.pc = "input" /\ verdicts = me.input
      BY <2>1, <2>3, <3>1, <3>2 DEF GateInv, RunInv
    <3>3. CASE me.pc = "output" /\ verdicts = me.output
      BY <2>1, <2>3, <3>1, <3>3 DEF GateInv, RunInv
    <3> QED  BY <3>2, <3>3
  <2> QED  BY <1>4, <2>3, <2>4, <2>5, <2>6 DEF Kept, RunInv, Learns, st
<1>5. Judged(verdicts) \in {"guard_error", "tripwire", "pass"}
  BY <1>1, JudgedFacts
<1> QED  BY <1>3, <1>4

LEMMA StartTurnKept ==
  ASSUME NEW r \in Runs, NEW me \in RunState, RunInv(r, me),
         me.pc = "turn", me.turn < MaxTurns
  PROVE  Kept(r, me.msgs, AtChat(me))
<1> DEFINE st == AtChat(me)
<1>1. /\ st \in RunState /\ st.pc = "chat" /\ st.msgs = me.msgs
      /\ st.input = me.input /\ st.output = me.output /\ st.calls = me.calls
      /\ st.cur = me.cur /\ st.turn = me.turn /\ st.next = me.next
      /\ st.outcome = me.outcome
  BY DEF AtChat, RunState, Locations
<1> HIDE DEF st
<1>2. StageInv(r, st)
  BY <1>1 DEF StageInv, RunInv
<1>3. FreshInv(r, st)
  BY <1>1 DEF FreshInv
<1>4. GateInv(r, st)
  BY <1>1 DEF GateInv, RunInv, StageInv, HeardModel
<1> QED  BY <1>1, <1>2, <1>3, <1>4 DEF Kept, RunInv, Learns, st

LEMMA AnswerKept ==
  ASSUME NEW r \in Runs, NEW me \in RunState, RunInv(r, me),
         me.pc = "chat"
  PROVE  Kept(r, me.msgs, FinalGiven(r, me))
<1> DEFINE m == Assistant(r, me.turn, <<>>)
           msgs == Append(me.msgs, m)
           output == Pending(OutputGuards[me.cur])
           st == FinalGiven(r, me)
<1>0. st = [me EXCEPT !.pc = "output", !.msgs = msgs, !.output = output]
  BY DEF FinalGiven
<1> HIDE DEF st
<1>1. me.turn \in Turns
  BY AgentRunAssumption DEF RunInv, StageInv, RunState, Turns
<1>2. m \in Message /\ IsOwn(r, m)
  <2>1. <<>> \in Seq(Names)
    OBVIOUS
  <2> QED  BY <1>1, <2>1, MessageKinds
<1> HIDE DEF m
<1>3. /\ msgs \in Seq(Message)
      /\ \A i \in 1 .. Len(msgs) :
           msgs[i] = m \/ (i \in 1 .. Len(me.msgs) /\ msgs[i] = me.msgs[i])
  BY <1>2, AppendFacts DEF RunState
<1> HIDE DEF msgs
<1>4. OutputGuards[me.cur] \in Nat
  BY AgentRunAssumption DEF RunState
<1>5. /\ output \in Seq(Verdicts \cup {"pending"})
      /\ Len(output) = OutputGuards[me.cur]
  BY <1>4 DEF Pending
<1> HIDE DEF output
<1>6. /\ st \in RunState /\ st.pc = "output" /\ st.msgs = msgs
      /\ st.input = me.input /\ st.output = output /\ st.calls = me.calls
      /\ st.cur = me.cur /\ st.turn = me.turn /\ st.next = me.next
      /\ st.outcome = me.outcome
  BY <1>0, <1>3, <1>5 DEF RunState, Locations, Stages
<1>7. StageInv(r, st)
  BY <1>6 DEF StageInv, RunInv
<1>8. FreshInv(r, st)
  BY <1>6 DEF FreshInv
<1>9. GateInv(r, st)
  BY <1>5, <1>6 DEF GateInv, RunInv, StageInv
<1>10. Learns(r, me.msgs, st.msgs)
  BY <1>2, <1>3, <1>6 DEF Learns
<1> QED  BY <1>6, <1>7, <1>8, <1>9, <1>10
     DEF Kept, RunInv, st, msgs, m, output

LEMMA AskForCallsKept ==
  ASSUME NEW r \in Runs, NEW me \in RunState, RunInv(r, me),
         me.pc = "chat", NEW calls \in Answers
  PROVE  Kept(r, me.msgs, CallsAsked(r, me, calls))
<1> DEFINE m == Assistant(r, me.turn, calls)
           msgs == Append(me.msgs, m)
           st == CallsAsked(r, me, calls)
<1>0. st = [me EXCEPT !.pc = "tools", !.msgs = msgs, !.calls = calls]
  BY DEF CallsAsked
<1> HIDE DEF st
<1>1. me.turn \in Turns
  BY AgentRunAssumption DEF RunInv, StageInv, RunState, Turns
<1>2. calls \in Seq(Names)
  BY AgentRunAssumption
<1>3. m \in Message /\ IsOwn(r, m)
  BY <1>1, <1>2, MessageKinds
<1> HIDE DEF m
<1>4. /\ msgs \in Seq(Message) /\ msgs # <<>>
      /\ \A i \in 1 .. Len(msgs) :
           msgs[i] = m \/ (i \in 1 .. Len(me.msgs) /\ msgs[i] = me.msgs[i])
  BY <1>3, AppendFacts DEF RunState
<1> HIDE DEF msgs
<1>5. /\ st \in RunState /\ st.pc = "tools" /\ st.msgs = msgs
      /\ st.input = me.input /\ st.output = me.output /\ st.calls = calls
      /\ st.cur = me.cur /\ st.turn = me.turn /\ st.next = me.next
      /\ st.outcome = me.outcome
  BY <1>0, <1>2, <1>4 DEF RunState, Locations
<1>6. StageInv(r, st)
  BY <1>4, <1>5 DEF StageInv, RunInv
<1>7. FreshInv(r, st)
  BY <1>5 DEF FreshInv
<1>8. GateInv(r, st)
  BY <1>5 DEF GateInv, RunInv, StageInv
<1>9. Learns(r, me.msgs, st.msgs)
  BY <1>3, <1>4, <1>5 DEF Learns
<1> QED  BY <1>5, <1>6, <1>7, <1>8, <1>9 DEF Kept, RunInv, st, msgs, m

(* The answer to a call, with what the run remembers of it.                *)
LEMMA CallKept ==
  ASSUME NEW r \in Runs, NEW me \in RunState, RunInv(r, me),
         me.pc = "tools", me.calls # <<>>,
         NEW answer \in HandoffTo[me.cur] \cup {"ok", "error"}
  PROVE  Kept(r, me.msgs, CallDone(r, me, answer))
<1> DEFINE m == Result(r, me.turn, NextCall(me), answer)
           msgs == Append(me.msgs, m)
           calls == Tail(me.calls)
           handoff == answer \in HandoffTo[me.cur]
           next == IF handoff THEN answer ELSE me.next
           transfers == IF handoff THEN Append(me.transfers, answer)
                                   ELSE me.transfers
           toolErrs == IF answer = "error" THEN me.toolErrs + 1
                                           ELSE me.toolErrs
           st == CallDone(r, me, answer)
<1>1. st = [me EXCEPT !.msgs = msgs, !.calls = calls, !.next = next,
                      !.transfers = transfers, !.toolErrs = toolErrs]
  BY DEF CallDone
<1> HIDE DEF st
<1>2. /\ me.cur \in Agents /\ me.msgs \in Seq(Message) /\ me.msgs # <<>>
      /\ me.calls \in Seq(Names) /\ me.transfers \in Seq(Agents)
      /\ me.next \in HandoffTo[me.cur] \cup {NoAgent} /\ me.toolErrs \in Nat
      /\ HandoffTo[me.cur] \subseteq Agents
  BY AgentRunAssumption DEF RunState, RunInv, StageInv
<1>3. me.turn \in Turns
  BY AgentRunAssumption DEF RunInv, StageInv, RunState, Turns
<1>4. NextCall(me) \in Nat
  <2>1. Last(me.msgs) \in Message
    BY <1>2 DEF Last
  <2> QED  BY <2>1, MessageFacts DEF NextCall
<1>5. m \in Message /\ IsOwn(r, m)
  <2>1. answer \in Outputs
    BY <1>2 DEF Outputs
  <2> QED  BY <1>3, <1>4, <2>1, MessageKinds
<1>6. /\ calls \in Seq(Names) /\ next \in HandoffTo[me.cur] \cup {NoAgent}
      /\ next \in Agents \cup {NoAgent} /\ transfers \in Seq(Agents)
      /\ toolErrs \in Nat
  BY <1>2
<1> HIDE DEF m, calls, next, transfers, toolErrs, handoff
<1>7. /\ msgs \in Seq(Message) /\ msgs # <<>>
      /\ \A k \in 1 .. Len(msgs) :
           msgs[k] = m \/ (k \in 1 .. Len(me.msgs) /\ msgs[k] = me.msgs[k])
  BY <1>2, <1>5, AppendFacts
<1> HIDE DEF msgs
<1>8. /\ st \in RunState /\ st.pc = "tools" /\ st.msgs = msgs
      /\ st.input = me.input /\ st.output = me.output
      /\ st.cur = me.cur /\ st.turn = me.turn /\ st.next = next
      /\ st.outcome = me.outcome
  BY <1>1, <1>6, <1>7 DEF RunState
<1>9. StageInv(r, st)
  BY <1>6, <1>7, <1>8 DEF StageInv, RunInv
<1>10. FreshInv(r, st)
  BY <1>8 DEF FreshInv
<1>11. GateInv(r, st)
  BY <1>8 DEF GateInv, RunInv, StageInv
<1>12. Learns(r, me.msgs, st.msgs)
  BY <1>5, <1>7, <1>8 DEF Learns
<1> QED  BY <1>8, <1>9, <1>10, <1>11, <1>12 DEF Kept, RunInv, st, msgs, m

LEMMA EndTurnKept ==
  ASSUME NEW r \in Runs, NEW me \in RunState, RunInv(r, me),
         me.pc = "tools", me.calls = <<>>, NEW cur \in Agents,
         NEW msgs \in Seq(Message), Within(msgs, me.msgs)
  PROVE  Kept(r, me.msgs, NextTurn(me, cur, msgs))
<1> DEFINE turn == me.turn + 1
           st == NextTurn(me, cur, msgs)
<1>0. st = [me EXCEPT !.pc = "turn", !.turn = turn, !.next = NoAgent,
                      !.cur = cur, !.msgs = msgs]
  BY DEF NextTurn
<1> HIDE DEF st
<1>1. turn \in 0 .. MaxTurns
  <2>1. me.turn < MaxTurns
    BY DEF RunInv, StageInv
  <2>2. me.turn \in 0 .. MaxTurns
    BY DEF RunState
  <2>3. MaxTurns \in Nat
    BY AgentRunAssumption
  <2> QED  BY <2>1, <2>2, <2>3
<1> HIDE DEF turn
<1>2. /\ st \in RunState /\ st.pc = "turn" /\ st.msgs = msgs
      /\ st.input = me.input /\ st.output = me.output /\ st.calls = <<>>
      /\ st.next = NoAgent /\ st.outcome = me.outcome
  BY <1>0, <1>1 DEF RunState, Locations
<1>3. StageInv(r, st)
  BY <1>2 DEF StageInv, RunInv
<1>4. FreshInv(r, st)
  BY <1>2 DEF FreshInv
<1>5. GateInv(r, st)
  BY <1>2 DEF GateInv, RunInv, StageInv
<1>6. Learns(r, me.msgs, st.msgs)
  BY <1>2 DEF Learns, Within
<1> QED  BY <1>2, <1>3, <1>4, <1>5, <1>6 DEF Kept, RunInv, st, turn

LEMMA WrittenKept ==
  ASSUME NEW r \in Runs, NEW me \in RunState, RunInv(r, me),
         NEW outcome,
         \/ me.pc = "persist" /\ outcome = "done"
         \/ me.outcome = "max_turns" /\ outcome = "carried"
  PROVE  Kept(r, me.msgs, Ended(me, outcome))
<1> DEFINE st == Ended(me, outcome)
<1>1. outcome \in {"done", "carried"} /\ me.calls = <<>>
  BY DEF RunInv, StageInv
<1>2. /\ st \in RunState /\ st.pc = "ended" /\ st.outcome = outcome
      /\ st.msgs = me.msgs /\ st.input = me.input /\ st.output = me.output
      /\ st.calls = <<>> /\ st.cur = me.cur /\ st.next = me.next
  BY <1>1 DEF Ended, RunState, Locations, Outcomes
<1> HIDE DEF st
<1>3. StageInv(r, st)
  BY <1>1, <1>2 DEF RunInv, StageInv
<1>4. FreshInv(r, st)
  BY <1>2 DEF FreshInv
<1>5. HeardModel(r, st) <=> HeardModel(r, me)
  BY <1>2 DEF HeardModel
<1>6. GateInv(r, st)
  BY <1>1, <1>2, <1>5 DEF GateInv, RunInv
<1> QED  BY <1>2, <1>3, <1>4, <1>6 DEF Kept, RunInv, Learns, st

LEMMA CancelKept ==
  ASSUME NEW r \in Runs, NEW me \in RunState, RunInv(r, me)
  PROVE  Kept(r, me.msgs, Cancelled(me))
<1> DEFINE st == Cancelled(me)
<1>1. /\ st \in RunState /\ st.pc = me.pc /\ st.msgs = me.msgs
      /\ st.input = me.input /\ st.output = me.output /\ st.calls = me.calls
      /\ st.cur = me.cur /\ st.turn = me.turn /\ st.next = me.next
      /\ st.outcome = me.outcome
  BY DEF Cancelled, RunState
<1> HIDE DEF st
<1>2. StageInv(r, st)
  BY <1>1 DEF StageInv, RunInv
<1>3. FreshInv(r, st)
  BY <1>1 DEF FreshInv, RunInv
<1>4. HeardModel(r, st) <=> HeardModel(r, me)
  BY <1>1 DEF HeardModel
<1>5. \A v : Seen(st, v) <=> Seen(me, v)
  BY <1>1 DEF Seen
<1>6. GateInv(r, st)
  BY <1>1, <1>4, <1>5 DEF GateInv, RunInv
<1> QED  BY <1>1, <1>2, <1>3, <1>6 DEF Kept, RunInv, Learns, st

LEMMA MovesKept ==
  ASSUME NEW r \in Runs, NEW me \in RunState, RunInv(r, me), NEW st,
         Moves(r, me, st), session \in Seq(Message),
         me.pc = "new" =>
           \A i \in 1 .. Len(session) : ~IsOwn(r, session[i])
  PROVE  \E heard \in {session, me.msgs} : Kept(r, heard, st)
<1>1. CASE me.pc = "new" /\ st = Loaded(r, me, session)
  BY <1>1, BeginKept
<1>2. CASE me.pc = "compress" /\ st = Prepared(r, me)
  BY <1>2, PrepareKept
<1>3. ASSUME NEW i \in DOMAIN me.input, NEW v \in Verdicts,
             me.pc = "input", me.input[i] = "pending",
             st = InputVerdict(me, i, v)
      PROVE  Kept(r, me.msgs, st)
  BY <1>3, InputVerdictKept
<1>4. ASSUME NEW i \in DOMAIN me.output, NEW v \in Verdicts,
             me.pc = "output", me.output[i] = "pending",
             st = OutputVerdict(me, i, v)
      PROVE  Kept(r, me.msgs, st)
  BY <1>4, OutputVerdictKept
<1>5. ASSUME NEW verdicts \in {me.input, me.output},
             \/ me.pc = "input" /\ verdicts = me.input
             \/ me.pc = "output" /\ verdicts = me.output,
             ~Contains(verdicts, "pending"),
             st = IF Judged(verdicts) # "pass"
                    THEN Ended(me, Judged(verdicts)) ELSE Past(me)
      PROVE  Kept(r, me.msgs, st)
  BY <1>5, JudgeKept
<1>6. CASE me.pc = "turn" /\ me.turn < MaxTurns /\ st = AtChat(me)
  BY <1>6, StartTurnKept
<1>7. CASE me.pc = "chat" /\ st = FinalGiven(r, me)
  BY <1>7, AnswerKept
<1>8. ASSUME NEW calls \in Answers \ {<<>>}, me.pc = "chat",
             st = CallsAsked(r, me, calls)
      PROVE  Kept(r, me.msgs, st)
  BY <1>8, AskForCallsKept
<1>9. ASSUME NEW answer \in HandoffTo[me.cur] \cup {"ok", "error"},
             me.pc = "tools", me.calls # <<>>, st = CallDone(r, me, answer)
      PROVE  Kept(r, me.msgs, st)
  BY <1>9, CallKept
<1>10. CASE /\ me.pc = "tools" /\ me.calls = <<>> /\ me.next = NoAgent
            /\ st = NextTurn(me, me.cur, me.msgs)
  <2>1. me.cur \in Agents /\ me.msgs \in Seq(Message)
    BY DEF RunState
  <2>2. Within(me.msgs, me.msgs)
    BY <2>1, WithinFacts
  <2> QED  BY <1>10, <2>1, <2>2, EndTurnKept
<1>11. CASE /\ me.pc = "tools" /\ me.calls = <<>>
            /\ me.next \in Agents \ Misconfigured
            /\ st = NextTurn(me, me.next,
                             switchSystemMessage(me.msgs, me.next))
  <2> DEFINE msgs == switchSystemMessage(me.msgs, me.next)
  <2>1. me.msgs \in Seq(Message)
    BY DEF RunState
  <2>2. msgs \in Seq(Message) /\ Within(msgs, me.msgs)
    BY <1>11, <2>1, SwitchFacts
  <2> HIDE DEF msgs
  <2>3. Kept(r, me.msgs, NextTurn(me, me.next, msgs))
    BY <1>11, <2>2, EndTurnKept
  <2> QED  BY <1>11, <2>3 DEF msgs
<1>12. ASSUME NEW outcome \in {"failed", "max_turns"},
              me.pc # "ended", me.calls = <<>>, st = Ended(me, outcome)
       PROVE  Kept(r, me.msgs, st)
  BY <1>12, FailKept
<1>13. CASE \/ me.pc = "persist" /\ st = Ended(me, "done")
            \/ me.outcome = "max_turns" /\ st = Ended(me, "carried")
  BY <1>13, WrittenKept
<1>14. CASE me.pc # "ended" /\ st = Cancelled(me)
  BY <1>14, CancelKept
<1> QED
  BY <1>1, <1>2, <1>3, <1>4, <1>5, <1>6, <1>7, <1>8, <1>9, <1>10, <1>11,
     <1>12, <1>13, <1>14 DEF Moves

-----------------------------------------------------------------------------
(* Every step is one of these moves.                                       *)

StepOf(r) == Step(r) \/ Cancel(r) \/ CarryForward(r)

(* What every step of run r does.                                          *)
Advances(r) ==
  /\ run' = [run EXCEPT ![r] = run'[r]]
  /\ ~Over(r)
  /\ Moves(r, run[r], run'[r])
  /\ \/ session' = session /\ run'[r].outcome \notin {"done", "carried"}
     \/ /\ session' = session \o Produced(r)
        /\ run'[r].outcome \in {"done", "carried"}

LEMMA SetFacts ==
  ASSUME NEW r \in Runs, Types, NEW state, Set(r, state)
  PROVE  run'[r] = state /\ run' = [run EXCEPT ![r] = run'[r]]
  BY DEF Set, Types

LEMMA StateFacts ==
  ASSUME NEW r \in Runs, Types
  PROVE  /\ run[r] \in RunState
         /\ run[r].cur \in Agents /\ run[r].msgs \in Seq(Message)
         /\ run[r].input \in Seq(Verdicts \cup {"pending"})
         /\ run[r].output \in Seq(Verdicts \cup {"pending"})
         /\ run[r].calls \in Seq(Names)
         /\ run[r].transfers \in Seq(Agents) /\ run[r].toolErrs \in Nat
  BY DEF Types, RunState

LEMMA EndedFacts ==
  ASSUME NEW me \in RunState, NEW outcome
  PROVE  /\ Ended(me, outcome).pc = "ended"
         /\ Ended(me, outcome).outcome = outcome
         /\ Ended(me, outcome).msgs = me.msgs
         /\ Ended(me, outcome).base = me.base
         /\ Ended(me, outcome).calls = me.calls
         /\ Ended(me, outcome).cur = me.cur
         /\ Ended(me, outcome).transfers = me.transfers
         /\ Ended(me, outcome).toolErrs = me.toolErrs
  BY DEF Ended, RunState

LEMMA SameOutcome ==
  ASSUME NEW r \in Runs, NEW me \in RunState
  PROVE  /\ \A h : Loaded(r, me, h).outcome = me.outcome
         /\ Prepared(r, me).outcome = me.outcome
         /\ \A i, v : /\ InputVerdict(me, i, v).outcome = me.outcome
                      /\ OutputVerdict(me, i, v).outcome = me.outcome
         /\ Past(me).outcome = me.outcome
         /\ AtChat(me).outcome = me.outcome
         /\ FinalGiven(r, me).outcome = me.outcome
         /\ \A calls : CallsAsked(r, me, calls).outcome = me.outcome
         /\ \A answer : CallDone(r, me, answer).outcome = me.outcome
         /\ \A cur, msgs : NextTurn(me, cur, msgs).outcome = me.outcome
         /\ Cancelled(me).outcome = me.outcome
<1>1. Prepared(r, me).outcome = me.outcome
  BY DEF Prepared, RunState
<1>2. FinalGiven(r, me).outcome = me.outcome
  BY DEF FinalGiven, RunState
<1>3. \A h : Loaded(r, me, h).outcome = me.outcome
  BY DEF Loaded, RunState
<1>4. \A i, v : /\ InputVerdict(me, i, v).outcome = me.outcome
                /\ OutputVerdict(me, i, v).outcome = me.outcome
  BY DEF InputVerdict, OutputVerdict, RunState
<1>5. /\ Past(me).outcome = me.outcome /\ AtChat(me).outcome = me.outcome
      /\ Cancelled(me).outcome = me.outcome
  BY DEF Past, AtChat, Cancelled, RunState
<1>6. \A calls : CallsAsked(r, me, calls).outcome = me.outcome
  BY DEF CallsAsked, RunState
<1>7. \A answer : CallDone(r, me, answer).outcome = me.outcome
  BY DEF CallDone, RunState
<1>8. \A cur, msgs : NextTurn(me, cur, msgs).outcome = me.outcome
  BY DEF NextTurn, RunState
<1> QED  BY <1>1, <1>2, <1>3, <1>4, <1>5, <1>6, <1>7, <1>8

(* The two ways to answer a call, and to end a turn, as updates of me.     *)
LEMMA CallAnswered ==
  ASSUME NEW r \in Runs, NEW me, me = run[r], IInv, HandoffCall(r) \/ ToolCall(r)
  PROVE  \E answer \in HandoffTo[me.cur] \cup {"ok", "error"} :
           Set(r, CallDone(r, me, answer))
<1> DEFINE i == NextCall(me)
           After(answer) ==
             [me EXCEPT !.msgs = Append(@, Result(r, me.turn, i, answer)),
                        !.calls = Tail(@)]
<1>1. /\ me \in RunState /\ me.cur \in Agents
      /\ {"ok", "error"} \cap HandoffTo[me.cur] = {}
  BY StateFacts, AgentRunAssumption DEF IInv
<1>2. \A answer : Answering(r, answer) = After(answer)
  BY DEF Answering, NextCall
<1> HIDE DEF i
<1>3. CASE HandoffCall(r)
  <2>1. PICK answer \in HandoffTo[me.cur] :
          Set(r, [Answering(r, answer) EXCEPT
                    !.transfers = Append(@, answer), !.next = answer])
    BY <1>3 DEF HandoffCall
  <2>2. [After(answer) EXCEPT
           !.transfers = Append(@, answer), !.next = answer]
        = CallDone(r, me, answer)
    BY <1>1 DEF RunState, CallDone, i
  <2>3. Set(r, CallDone(r, me, answer))
    BY <1>2, <2>1, <2>2
  <2> QED  BY <2>3
<1>4. CASE ToolCall(r)
  <2>1. PICK answer \in {"ok", "error"} :
          Set(r, [Answering(r, answer) EXCEPT
                    !.toolErrs = IF answer = "error" THEN @ + 1 ELSE @])
    BY <1>4 DEF ToolCall
  <2>2. answer \notin HandoffTo[me.cur]
    BY <1>1
  <2>3. [After(answer) EXCEPT
           !.toolErrs = IF answer = "error" THEN @ + 1 ELSE @]
        = CallDone(r, me, answer)
    BY <1>1, <2>2 DEF RunState, CallDone, i
  <2>4. Set(r, CallDone(r, me, answer))
    BY <1>2, <2>1, <2>3
  <2> QED  BY <2>4
<1> QED  BY <1>3, <1>4

LEMMA TurnEnded ==
  ASSUME NEW r \in Runs, NEW me, me = run[r], IInv, EndTurn(r)
  PROVE  \/ me.next = NoAgent /\ Set(r, NextTurn(me, me.cur, me.msgs))
         \/ me.next \in Misconfigured /\ Set(r, Return(r, "failed"))
         \/ /\ me.next \in Agents \ Misconfigured
            /\ Set(r, NextTurn(me, me.next,
                              switchSystemMessage(me.msgs, me.next)))
<1> DEFINE nextTurn ==
             [me EXCEPT !.pc = "turn", !.turn = @ + 1, !.next = NoAgent]
<1>1. me \in RunState /\ me.next \in Agents \cup {NoAgent}
  BY StateFacts DEF IInv, RunState
<1>2. NoAgent \notin Misconfigured /\ NoAgent \notin Agents
  BY AgentRunAssumption
<1>3. CASE me.next = NoAgent
  <2>1. Set(r, nextTurn)
    BY <1>2, <1>3 DEF EndTurn
  <2>2. nextTurn = NextTurn(me, me.cur, me.msgs)
    BY <1>1 DEF RunState, NextTurn
  <2> QED  BY <1>3, <2>1, <2>2
<1>4. CASE me.next \in Misconfigured
  BY <1>2, <1>4 DEF EndTurn
<1>5. CASE me.next \in Agents \ Misconfigured
  <2>1. Set(r, [nextTurn EXCEPT
                  !.cur = me.next,
                  !.msgs = switchSystemMessage(@, me.next)])
    BY <1>2, <1>5 DEF EndTurn
  <2>2. [nextTurn EXCEPT
           !.cur = me.next, !.msgs = switchSystemMessage(@, me.next)]
        = NextTurn(me, me.next, switchSystemMessage(me.msgs, me.next))
    BY <1>1 DEF RunState, NextTurn
  <2> QED  BY <1>5, <2>1, <2>2
<1> QED  BY <1>1, <1>3, <1>4, <1>5

(* The failures and the turn limit.                                        *)
LEMMA EndAdvances ==
  ASSUME NEW r \in Runs, IInv, run[r].pc # "ended", run[r].calls = <<>>,
         NEW outcome \in {"failed", "max_turns"},
         outcome = "max_turns" => run[r].pc = "turn",
         Set(r, Return(r, outcome)), UNCHANGED session
  PROVE  Advances(r)
<1>1. run'[r] = Ended(run[r], outcome) /\ run' = [run EXCEPT ![r] = run'[r]]
  BY SetFacts DEF Return, IInv, Ended
<1>2. run'[r].outcome = outcome
  BY <1>1, StateFacts, EndedFacts DEF IInv
<1>3. ~Over(r)
  BY DEF Over, IInv, RunInv, StageInv
<1> QED  BY <1>1, <1>2, <1>3 DEF Advances, Moves

LEMMA StepAdvances ==
  ASSUME NEW r \in Runs, IInv, StepOf(r)
  PROVE  Advances(r)
<1> DEFINE me == run[r]
           st == run'[r]
<1>1. /\ Types /\ me \in RunState /\ RunInv(r, me)
      /\ me.calls \in Seq(Names)
  BY StateFacts DEF IInv
<1>2. ASSUME me.pc # "ended", session' = session, Moves(r, me, st),
             st.outcome \in {me.outcome, "guard_error", "tripwire"},
             run' = [run EXCEPT ![r] = st]
      PROVE  Advances(r)
  BY <1>1, <1>2 DEF Advances, Over, RunInv, StageInv
<1>3. me.pc # "tools" => me.calls = <<>>
  BY <1>1 DEF RunInv, StageInv
<1> HIDE DEF me, st
<1>4. CASE Begin(r)
  <2>1. me.pc = "new" /\ session' = session
    BY <1>4 DEF me, Begin, At
  <2>2. st = Loaded(r, me, session) /\ run' = [run EXCEPT ![r] = st]
    BY <1>1, <1>4, SetFacts DEF me, st, Begin, Loaded
  <2>3. Moves(r, me, st)
    BY <2>1, <2>2 DEF Moves
  <2> QED  BY <1>1, <1>2, <2>1, <2>2, <2>3, SameOutcome
<1>5. CASE Prepare(r)
  <2>1. me.pc = "compress" /\ session' = session
    BY <1>5 DEF me, Prepare, At
  <2>2. CASE me.cur \in Misconfigured
    <3>1. Set(r, Return(r, "failed"))
      BY <1>5, <2>2 DEF me, Prepare
    <3> QED  BY <1>3, <2>1, <3>1, EndAdvances DEF me
  <2>3. CASE me.cur \notin Misconfigured
    <3>1. st = Prepared(r, me) /\ run' = [run EXCEPT ![r] = st]
      BY <1>1, <1>5, <2>3, SetFacts DEF me, st, Prepare, Prepared
    <3>2. Moves(r, me, st)
      BY <2>1, <3>1 DEF Moves
    <3> QED  BY <1>1, <1>2, <2>1, <3>1, <3>2, SameOutcome
  <2> QED  BY <2>2, <2>3
<1>6. CASE \E i \in DOMAIN run[r].input \cup DOMAIN run[r].output :
             GuardrailReturns(r, i)
  <2>1. PICK i \in DOMAIN me.input \cup DOMAIN me.output, v \in Verdicts :
          /\ me.pc \in Stages /\ session' = session
          /\ i \in DOMAIN me[me.pc] /\ me[me.pc][i] = "pending"
          /\ Set(r, IF me.pc = "input" THEN InputVerdict(me, i, v)
                                       ELSE OutputVerdict(me, i, v))
    BY <1>6 DEF me, GuardrailReturns, InputVerdict, OutputVerdict, At
  <2>2. /\ st = IF me.pc = "input" THEN InputVerdict(me, i, v)
                                   ELSE OutputVerdict(me, i, v)
        /\ run' = [run EXCEPT ![r] = st]
    BY <1>1, <2>1, SetFacts DEF st
  <2>3. Moves(r, me, st)
    <3>1. CASE me.pc = "input"
      BY <2>1, <2>2, <3>1 DEF Moves
    <3>2. CASE me.pc = "output"
      BY <2>1, <2>2, <3>2 DEF Moves
    <3> QED  BY <2>1, <3>1, <3>2 DEF Stages
  <2>4. me.pc # "ended" /\ st.outcome = me.outcome
    BY <1>1, <2>1, <2>2, SameOutcome DEF Stages
  <2> QED  BY <1>2, <2>1, <2>2, <2>3, <2>4
<1>7. CASE Judge(r)
  <2> DEFINE verdicts == me[me.pc]
  <2>1. /\ me.pc \in {"input", "output"} /\ session' = session
        /\ ~Contains(verdicts, "pending")
    BY <1>7 DEF me, Judge, Stages
  <2>2. /\ st = IF Judged(verdicts) # "pass"
                  THEN Ended(me, Judged(verdicts)) ELSE Past(me)
        /\ run' = [run EXCEPT ![r] = st]
    BY <1>1, <1>7, SetFacts DEF me, st, Judge, Return, At, Ended, Past
  <2>3. \/ me.pc = "input" /\ verdicts = me.input
        \/ me.pc = "output" /\ verdicts = me.output
    BY <2>1
  <2> HIDE DEF verdicts
  <2>4. Moves(r, me, st)
    BY <2>1, <2>2, <2>3 DEF Moves
  <2>5. Judged(verdicts) \in {"guard_error", "tripwire", "pass"}
    BY DEF Judged
  <2>6. st.outcome \in {me.outcome, "guard_error", "tripwire"}
    BY <1>1, <2>2, <2>5, SameOutcome, EndedFacts
  <2> QED  BY <1>2, <2>1, <2>2, <2>4, <2>6
<1>8. CASE StartTurn(r)
  <2>1. me.pc = "turn" /\ me.turn < MaxTurns /\ session' = session
    BY <1>8 DEF me, StartTurn, At
  <2>2. CASE me.ctxDone
    <3>1. Set(r, Return(r, "failed"))
      BY <1>8, <2>2 DEF me, StartTurn
    <3> QED  BY <1>3, <2>1, <3>1, EndAdvances DEF me
  <2>3. CASE ~me.ctxDone
    <3>1. st = AtChat(me) /\ run' = [run EXCEPT ![r] = st]
      BY <1>1, <1>8, <2>3, SetFacts DEF me, st, StartTurn, AtChat
    <3>2. Moves(r, me, st)
      BY <2>1, <3>1 DEF Moves
    <3> QED  BY <1>1, <1>2, <2>1, <3>1, <3>2, SameOutcome
  <2> QED  BY <2>2, <2>3
<1>9. CASE MaxTurnsExceeded(r)
  <2>1. /\ me.pc = "turn" /\ UNCHANGED session
        /\ Set(r, Return(r, "max_turns"))
    BY <1>9 DEF me, MaxTurnsExceeded, At
  <2> QED  BY <1>3, <2>1, EndAdvances DEF me
<1>10. CASE Answer(r)
  <2>1. me.pc = "chat" /\ session' = session
    BY <1>10 DEF me, Answer, At
  <2>2. st = FinalGiven(r, me) /\ run' = [run EXCEPT ![r] = st]
    BY <1>1, <1>10, SetFacts DEF me, st, Answer, FinalGiven
  <2>3. Moves(r, me, st)
    BY <2>1, <2>2 DEF Moves
  <2> QED  BY <1>1, <1>2, <2>1, <2>2, <2>3, SameOutcome
<1>11. CASE AskForCalls(r)
  <2>1. PICK calls \in Answers \ {<<>>} : Set(r, CallsAsked(r, me, calls))
    BY <1>11 DEF me, AskForCalls, CallsAsked
  <2>2. me.pc = "chat" /\ session' = session
    BY <1>11 DEF me, AskForCalls, At
  <2>3. st = CallsAsked(r, me, calls) /\ run' = [run EXCEPT ![r] = st]
    BY <1>1, <2>1, SetFacts DEF st
  <2>4. Moves(r, me, st)
    BY <2>2, <2>3 DEF Moves
  <2> QED  BY <1>1, <1>2, <2>2, <2>3, <2>4, SameOutcome
<1>12. CASE HandoffCall(r) \/ ToolCall(r)
  <2>1. PICK answer \in HandoffTo[me.cur] \cup {"ok", "error"} :
          Set(r, CallDone(r, me, answer))
    BY <1>12, CallAnswered DEF me
  <2>2. me.pc = "tools" /\ me.calls # <<>> /\ session' = session
    BY <1>12 DEF me, HandoffCall, ToolCall, At
  <2>3. st = CallDone(r, me, answer) /\ run' = [run EXCEPT ![r] = st]
    BY <1>1, <2>1, SetFacts DEF st
  <2>4. Moves(r, me, st)
    BY <2>2, <2>3 DEF Moves
  <2> QED  BY <1>1, <1>2, <2>2, <2>3, <2>4, SameOutcome
<1>13. CASE EndTurn(r)
  <2>1. me.pc = "tools" /\ me.calls = <<>> /\ session' = session
    BY <1>13 DEF me, EndTurn, At
  <2>2. CASE Set(r, Return(r, "failed"))
    BY <2>1, <2>2, EndAdvances DEF me
  <2>3. CASE /\ me.next = NoAgent
             /\ Set(r, NextTurn(me, me.cur, me.msgs))
    <3>1. st = NextTurn(me, me.cur, me.msgs) /\ run' = [run EXCEPT ![r] = st]
      BY <1>1, <2>3, SetFacts DEF st
    <3>2. Moves(r, me, st)
      BY <2>1, <2>3, <3>1 DEF Moves
    <3> QED  BY <1>1, <1>2, <2>1, <3>1, <3>2, SameOutcome
  <2>4. CASE /\ me.next \in Agents \ Misconfigured
             /\ Set(r, NextTurn(me, me.next,
                               switchSystemMessage(me.msgs, me.next)))
    <3>1. /\ st = NextTurn(me, me.next, switchSystemMessage(me.msgs, me.next))
          /\ run' = [run EXCEPT ![r] = st]
      BY <1>1, <2>4, SetFacts DEF st
    <3>2. Moves(r, me, st)
      BY <2>1, <2>4, <3>1 DEF Moves
    <3> QED  BY <1>1, <1>2, <2>1, <3>1, <3>2, SameOutcome
  <2> QED  BY <1>13, <2>2, <2>3, <2>4, TurnEnded DEF me
<1>14. CASE Persist(r) \/ CarryForward(r)
  <2>1. PICK outcome \in {"done", "carried"} :
          /\ \/ me.pc = "persist" /\ outcome = "done"
             \/ me.outcome = "max_turns" /\ outcome = "carried"
          /\ Set(r, Return(r, outcome)) /\ session' = session \o Produced(r)
    BY <1>14 DEF me, Persist, CarryForward, At
  <2>2. st = Ended(me, outcome) /\ run' = [run EXCEPT ![r] = st]
    BY <1>1, <2>1, SetFacts DEF me, st, Return, Ended
  <2>3. st.outcome = outcome
    BY <1>1, <2>2, EndedFacts
  <2>4. Moves(r, me, st)
    BY <2>1, <2>2 DEF Moves
  <2>5. ~Over(r)
    BY <1>1, <2>1 DEF me, Over, RunInv, StageInv
  <2> QED  BY <2>1, <2>2, <2>3, <2>4, <2>5 DEF me, st, Advances
<1>15. CASE CallFails(r)
  <2>1. /\ me.pc \notin {"ended", "tools"} /\ UNCHANGED session
        /\ Set(r, Return(r, "failed"))
    BY <1>15 DEF me, CallFails, At
  <2> QED  BY <1>3, <2>1, EndAdvances DEF me
<1>16. CASE Cancel(r)
  <2>1. me.pc # "ended" /\ session' = session
    BY <1>16 DEF me, Cancel, At
  <2>2. st = Cancelled(me) /\ run' = [run EXCEPT ![r] = st]
    BY <1>1, <1>16, SetFacts DEF me, st, Cancel, Cancelled
  <2>3. Moves(r, me, st)
    BY <2>1, <2>2 DEF Moves
  <2> QED  BY <1>1, <1>2, <2>1, <2>2, <2>3, SameOutcome
<1> QED
  BY <1>4, <1>5, <1>6, <1>7, <1>8, <1>9, <1>10, <1>11, <1>12, <1>13, <1>14,
     <1>15, <1>16 DEF StepOf, Step

LEMMA ProducedFacts ==
  ASSUME NEW r \in Runs, run[r].msgs \in Seq(Message), run[r].base \in Nat
  PROVE  Produced(r) \in Seq(Message) /\ Within(Produced(r), run[r].msgs)
<1> DEFINE s == run[r].msgs
           n == run[r].base
<1>1. CASE n < Len(s)
  <2>1. n + 1 \in 1 .. Len(s) + 1 /\ Len(s) \in 0 .. Len(s)
    BY <1>1
  <2> QED  BY <2>1, WithinFacts DEF Produced
<1>2. CASE n >= Len(s)
  <2>1. Produced(r) = <<>>
    BY <1>2 DEF Produced
  <2> QED  BY <2>1 DEF Within
<1> QED  BY <1>1, <1>2

LEMMA AdvancesKeepsIInv ==
  ASSUME NEW r \in Runs, IInv, Advances(r)
  PROVE  IInv'
<1> DEFINE Known(m) == \/ IsSystem(m)
                       \/ run'[m.run].outcome \in {"done", "carried"}
<1>0. PICK heard \in {session, run[r].msgs} : Kept(r, heard, run'[r])
  <2>1. /\ run[r] \in RunState /\ RunInv(r, run[r])
        /\ session \in Seq(Message) /\ Moves(r, run[r], run'[r])
    BY StateFacts DEF IInv, Types, Advances
  <2>2. \A i \in 1 .. Len(session) : ~IsOwn(r, session[i])
    BY DEF IInv, SessionInv, Advances, IsOwn
  <2> QED  BY <2>1, <2>2, MovesKept
<1>1. /\ run \in [Runs -> RunState] /\ run'[r] \in RunState
      /\ session \in Seq(Message) /\ run[r].msgs \in Seq(Message)
      /\ RunInv(r, run'[r])
  BY <1>0, StateFacts DEF IInv, Types, Kept
<1>2. /\ run' \in [Runs -> RunState]
      /\ \A q \in Runs \ {r} : run'[q] = run[q]
  <2>1. run' = [run EXCEPT ![r] = run'[r]]
    BY DEF Advances
  <2>2. \A x \in RunState :
          /\ [run EXCEPT ![r] = x] \in [Runs -> RunState]
          /\ \A q \in Runs \ {r} : [run EXCEPT ![r] = x][q] = run[q]
    BY <1>1
  <2> QED  BY <1>1, <2>1, <2>2
<1>3. \A q \in Runs : Over(q) => run'[q].outcome \in {"done", "carried"}
  BY <1>2 DEF Advances, Over
<1>4. \A i \in 1 .. Len(run[r].msgs) :
        LET m == run[r].msgs[i]
        IN  IsSystem(m) \/ IsOwn(r, m) \/ Over(m.run)
  BY DEF IInv, SessionInv
<1>5. run[r].base \in Nat
  BY <1>1 DEF RunState
<1>6. Produced(r) \in Seq(Message) /\ Within(Produced(r), run[r].msgs)
  BY <1>1, <1>5, ProducedFacts
<1>7. Types'
  <2>1. session' \in Seq(Message)
    <3>1. session' = session \/ session' = session \o Produced(r)
      BY DEF Advances
    <3>2. session \o Produced(r) \in Seq(Message)
      BY <1>1, <1>6, ConcatElements
    <3> QED  BY <1>1, <3>1, <3>2
  <2> QED  BY <1>2, <2>1 DEF Types
<1>8. ASSUME NEW m \in Message, IsSystem(m) \/ Over(m.run) PROVE Known(m)
  BY <1>3, <1>8, MessageFacts
<1>9. \A i \in 1 .. Len(session) : Known(session[i])
  <2> TAKE i \in 1 .. Len(session)
  <2>1. session[i] \in Message
    BY <1>1
  <2> HIDE DEF Known
  <2> QED  BY <1>8, <2>1 DEF IInv, SessionInv
<1>10. SessionInv'
  <2>1. \A i \in 1 .. Len(session') : Known(session'[i])
    <3>1. CASE session' = session
      BY <1>9, <3>1
    <3>2. CASE /\ session' = session \o Produced(r)
               /\ run'[r].outcome \in {"done", "carried"}
      <4>1. \A i \in 1 .. Len(run[r].msgs) : Known(run[r].msgs[i])
        <5> TAKE i \in 1 .. Len(run[r].msgs)
        <5>1. run[r].msgs[i] \in Message
          BY <1>1
        <5>2. CASE IsOwn(r, run[r].msgs[i])
          BY <3>2, <5>2 DEF IsOwn
        <5>3. CASE ~IsOwn(r, run[r].msgs[i])
          BY <1>4, <1>8, <5>1, <5>3
        <5> QED  BY <5>2, <5>3
      <4>2. \A m : IsSystem(m) => Known(m)
        OBVIOUS
      <4> HIDE DEF Known
      <4>3. \A i \in 1 .. Len(Produced(r)) : Known(Produced(r)[i])
        BY <1>6, <4>1, <4>2 DEF Within
      <4> QED  BY <1>1, <1>6, <1>9, <3>2, <4>3, ConcatElements
    <3> QED  BY <3>1, <3>2 DEF Advances
  <2>2. ASSUME NEW q \in Runs, NEW i \in 1 .. Len(run'[q].msgs)
        PROVE  Known(run'[q].msgs[i]) \/ IsOwn(q, run'[q].msgs[i])
    <3>1. CASE q # r
      <4>1. run'[q] = run[q] /\ run[q].msgs \in Seq(Message)
        BY <1>2, <3>1, StateFacts DEF IInv
      <4>2. run[q].msgs[i] \in Message
        BY <4>1
      <4> HIDE DEF Known
      <4> QED  BY <1>8, <4>1, <4>2 DEF IInv, SessionInv
    <3>2. CASE q = r
      <4>1. CASE Kept(r, session, run'[r])
        BY <1>9, <3>2, <4>1 DEF Kept, Learns
      <4>2. CASE Kept(r, run[r].msgs, run'[r])
        <5>1. \A j \in 1 .. Len(run[r].msgs) :
                Known(run[r].msgs[j]) \/ IsOwn(r, run[r].msgs[j])
          <6> TAKE j \in 1 .. Len(run[r].msgs)
          <6>1. run[r].msgs[j] \in Message
            BY <1>1
          <6> HIDE DEF Known
          <6> QED  BY <1>4, <1>8, <6>1
        <5> QED  BY <3>2, <4>2, <5>1 DEF Kept, Learns
      <4> QED  BY <1>0, <4>1, <4>2
    <3> QED  BY <3>1, <3>2
  <2> QED  BY <2>1, <2>2 DEF SessionInv, Over
<1>11. \A q \in Runs : RunInv(q, run'[q])
  BY <1>1, <1>2 DEF IInv
<1> QED  BY <1>7, <1>10, <1>11 DEF IInv

LEMMA InitHolds == Init => IInv
<1> SUFFICES ASSUME Init PROVE IInv
  OBVIOUS
<1>1. ASSUME NEW r \in Runs
      PROVE  run[r] = NewRun(r) /\ NewRun(r) \in RunState
  BY AgentRunAssumption
     DEF Init, NewRun, RunState, Locations, Outcomes
<1>2. ASSUME NEW r \in Runs PROVE RunInv(r, run[r])
  <2> DEFINE me == NewRun(r)
  <2>1. /\ me.pc = "new" /\ me.outcome = "running" /\ me.turn = 0
        /\ me.cur = StartAgent[r] /\ me.input = <<>> /\ me.output = <<>>
        /\ me.calls = <<>> /\ me.next = NoAgent /\ me.msgs = <<>>
    BY DEF NewRun
  <2> HIDE DEF me
  <2>2. StageInv(r, me)
    BY <2>1 DEF StageInv
  <2>3. FreshInv(r, me) /\ ~HeardModel(r, me)
    BY <2>1 DEF FreshInv, HeardModel
  <2>4. GateInv(r, me)
    BY <2>1, <2>3 DEF GateInv
  <2> QED  BY <1>1, <2>2, <2>3, <2>4 DEF RunInv, me
<1>3. Types
  BY <1>1 DEF Types, Init
<1>4. SessionInv
  BY <1>1 DEF SessionInv, Init, NewRun
<1> QED  BY <1>2, <1>3, <1>4 DEF IInv

LEMMA StepKeepsIInv == IInv /\ [Next]_vars => IInv'
<1> SUFFICES ASSUME IInv, [Next]_vars PROVE IInv'
  OBVIOUS
<1>1. ASSUME NEW r \in Runs, StepOf(r) PROVE IInv'
  BY <1>1, StepAdvances, AdvancesKeepsIInv
<1>2. CASE UNCHANGED vars
  BY <1>2 DEF vars, IInv, Types, SessionInv, Over
<1> QED  BY <1>1, <1>2 DEF Next, StepOf, Terminated

THEOREM Invariance == Spec => []IInv
<1>1. Init => IInv
  BY InitHolds
<1>2. IInv /\ [Next]_vars => IInv'
  BY StepKeepsIInv
<1> QED  BY <1>1, <1>2, PTL DEF Spec

(* A run's state, and the session, hold values of their kinds whatever the *)
(* model answers, the guardrails return and the handoffs do.               *)
THEOREM TypeCorrect == Spec => []TypeOK
<1>1. IInv => TypeOK
  BY DEF IInv, Types, RunState, TypeOK
<1> QED  BY <1>1, Invariance, PTL

(* No model is called before every input guardrail passed, no result is    *)
(* published before every output guardrail did, and errors go first.       *)
THEOREM GuardrailsGateHolds == Spec => []GuardrailsGate
<1>1. IInv => GuardrailsGate
  <2> SUFFICES ASSUME IInv, NEW r \in Runs
               PROVE  LET me == run[r]
                          All(verdicts, v) ==
                            \A i \in DOMAIN verdicts : verdicts[i] = v
                          seen == Range(me.input) \cup Range(me.output)
                      IN  /\ (\E i \in OwnAt(r) : me.msgs[i].role = "assistant")
                               => /\ Len(me.input) = InputGuards[StartAgent[r]]
                                  /\ All(me.input, "pass")
                          /\ me.outcome = "done" =>
                               /\ Len(me.output) = OutputGuards[me.cur]
                               /\ All(me.output, "pass")
                          /\ me.outcome = "guard_error" =>
                               "error" \in seen /\ "pending" \notin seen
                          /\ me.outcome = "tripwire" =>
                               /\ "trip" \in seen
                               /\ {"error", "pending"} \cap seen = {}
    BY DEF GuardrailsGate
  <2> DEFINE me == run[r]
  <2>1. /\ GateInv(r, me) /\ DOMAIN me.msgs = 1 .. Len(me.msgs)
        /\ DOMAIN me.input = 1 .. Len(me.input)
        /\ DOMAIN me.output = 1 .. Len(me.output)
    BY StateFacts DEF IInv, RunInv
  <2>2. (\E i \in OwnAt(r) : me.msgs[i].role = "assistant") => HeardModel(r, me)
    BY <2>1 DEF OwnAt, HeardModel
  <2>3. \A v : v \in Range(me.input) \cup Range(me.output) <=> Seen(me, v)
    BY <2>1 DEF Range, Seen, Given
  <2> QED  BY <2>1, <2>2, <2>3 DEF GateInv, Passed
<1> QED  BY <1>1, Invariance, PTL

-----------------------------------------------------------------------------
(* A conversation with the prompt of an agent in front.                    *)

Plain(s) == \A i \in 1 .. Len(s) : ~IsSystem(s[i])

LEMMA PromptLength ==
  ASSUME NEW a \in Agents
  PROVE  /\ Prompt(a) \in Seq(Message) /\ Len(Prompt(a)) \in {0, 1}
         /\ a \in Instructed => Prompt(a) = <<System(a)>> /\ Len(Prompt(a)) = 1
         /\ a \notin Instructed => Prompt(a) = <<>> /\ Len(Prompt(a)) = 0
  BY PromptFacts DEF Prompt

LEMMA HeadedLeading ==
  ASSUME NEW a \in Agents, NEW s \in Seq(Message), Headed(a, s)
  PROVE  Leading(s) = Len(Prompt(a)) /\ Systems(s) = Prompt(a)
<1> DEFINE n == Leading(s)
           p == Len(Prompt(a))
<1>1. /\ n \in 0 .. Len(s) /\ \A i \in 1 .. n : IsSystem(s[i])
      /\ n < Len(s) => ~IsSystem(s[n + 1])
  BY LeadingFacts
<1>2. /\ p \in {0, 1} /\ p <= Len(s)
      /\ \A i \in 1 .. Len(s) : IsSystem(s[i]) <=> i <= p
  BY PromptFacts DEF Headed
<1> HIDE DEF n, p
<1>3. n = p
  <2>1. CASE n < p
    BY <1>1, <1>2, <2>1
  <2>2. CASE n > p
    <3>1. p + 1 \in 1 .. n /\ p + 1 \in 1 .. Len(s) /\ ~(p + 1 <= p)
      BY <1>1, <1>2, <2>2
    <3> QED  BY <1>1, <1>2, <3>1
  <2> QED  BY <1>1, <1>2, <2>1, <2>2
<1>4. SubSeq(s, 1, p) = Prompt(a)
  <2>1. CASE a \in Instructed
    <3>1. p = 1 /\ Prompt(a) = <<System(a)>>
      BY <2>1, PromptLength DEF p
    <3>2. Len(s) >= 1 /\ s[1] = System(a)
      BY <1>2, <3>1 DEF Headed, p
    <3>3. SubSeq(s, 1, 1) = <<s[1]>>
      <4> DEFINE h == SubSeq(s, 1, 1)
      <4>1. h \in Seq(Message) /\ Len(h) = 1 /\ h[1] = s[1]
        BY <3>2
      <4>2. \A q \in Seq(Message) : Len(q) = 1 => q = <<q[1]>>
        OBVIOUS
      <4> HIDE DEF h
      <4>3. h = <<s[1]>>
        BY <4>1, <4>2
      <4> QED  BY <4>3 DEF h
    <3> QED  BY <3>1, <3>2, <3>3
  <2>2. CASE a \notin Instructed
    <3>1. p = 0 /\ Prompt(a) = <<>>
      BY <2>2, PromptLength DEF p
    <3> QED  BY <3>1
  <2> QED  BY <2>1, <2>2
<1> QED  BY <1>3, <1>4 DEF Systems, n, p

LEMMA HeadedConcat ==
  ASSUME NEW a \in Agents, NEW t \in Seq(Message), Plain(t)
  PROVE  Headed(a, Prompt(a) \o t)
<1>1. CASE a \in Instructed
  <2> DEFINE s == <<System(a)>> \o t
  <2>0. System(a) \in Message
    BY DEF System, Message
  <2>1. s \in Seq(Message) /\ Len(s) = Len(t) + 1 /\ s[1] = System(a)
    BY <2>0
  <2>2. \A i \in 2 .. Len(s) : i - 1 \in 1 .. Len(t) /\ s[i] = t[i - 1]
    BY <1>1, PromptLength
  <2>3. Prompt(a) = <<System(a)>> /\ Len(Prompt(a)) = 1
    BY <1>1, PromptLength
  <2>4. \A i \in 1 .. Len(s) : IF i <= 1 THEN s[i] = System(a)
                                         ELSE ~IsSystem(s[i])
    <3> HIDE DEF s
    <3> QED  BY <2>1, <2>2 DEF Plain
  <2> HIDE DEF s
  <2>5. Headed(a, s)
    BY <2>1, <2>3, <2>4 DEF Headed
  <2> QED  BY <2>3, <2>5 DEF s
<1>2. CASE a \notin Instructed
  <2>1. Prompt(a) \o t = t /\ Len(Prompt(a)) = 0
    BY <1>2, PromptLength
  <2> QED  BY <2>1 DEF Headed, Plain
<1> QED  BY <1>1, <1>2

LEMMA HeadedAppend ==
  ASSUME NEW a \in Agents, NEW s \in Seq(Message), Headed(a, s),
         NEW m \in Message, ~IsSystem(m)
  PROVE  Headed(a, Append(s, m))
<1>1. /\ Append(s, m) \in Seq(Message) /\ Len(Append(s, m)) = Len(s) + 1
      /\ \A i \in 1 .. Len(s) : Append(s, m)[i] = s[i]
      /\ Append(s, m)[Len(s) + 1] = m
  BY AppendFacts
<1>2. Len(Prompt(a)) \in {0, 1} /\ Len(Prompt(a)) <= Len(s)
  BY PromptFacts DEF Headed
<1>3. ASSUME NEW i \in 1 .. Len(s) + 1
      PROVE  IF i <= Len(Prompt(a)) THEN Append(s, m)[i] = System(a)
                                    ELSE ~IsSystem(Append(s, m)[i])
  <2>1. CASE i = Len(s) + 1
    <3>1. Append(s, m)[i] = m /\ ~(i <= Len(Prompt(a)))
      BY <1>1, <1>2, <2>1
    <3> QED  BY <3>1
  <2>2. CASE i \in 1 .. Len(s)
    BY <1>1, <2>2 DEF Headed
  <2> QED  BY <2>1, <2>2
<1> QED  BY <1>1, <1>2, <1>3 DEF Headed

LEMMA SubSeqElements ==
  ASSUME NEW s \in Seq(Message), NEW m \in 1 .. Len(s) + 1
  PROVE  /\ SubSeq(s, m, Len(s)) \in Seq(Message)
         /\ Len(SubSeq(s, m, Len(s))) = Len(s) - m + 1
         /\ \A i \in 1 .. Len(s) - m + 1 :
              /\ m + i - 1 \in 1 .. Len(s)
              /\ SubSeq(s, m, Len(s))[i] = s[m + i - 1]
<1>1. CASE m <= Len(s)
  BY <1>1
<1>2. CASE m = Len(s) + 1
  <2>1. SubSeq(s, m, Len(s)) = <<>>
    BY <1>2
  <2> QED  BY <1>2, <2>1
<1> QED  BY <1>1, <1>2

LEMMA HeadedRest ==
  ASSUME NEW a \in Agents, NEW s \in Seq(Message), Headed(a, s)
  PROVE  /\ Rest(s) \in Seq(Message) /\ Plain(Rest(s))
         /\ Len(Rest(s)) = Len(s) - Len(Prompt(a))
         /\ \A i \in Len(Prompt(a)) + 1 .. Len(s) :
              /\ i - Len(Prompt(a)) \in 1 .. Len(Rest(s))
              /\ Rest(s)[i - Len(Prompt(a))] = s[i]
<1> DEFINE p == Len(Prompt(a))
<1>1. p \in {0, 1} /\ p <= Len(s) /\ Leading(s) = p
  BY PromptFacts, HeadedLeading DEF Headed
<1>2. \A i \in 1 .. Len(s) : i > p => ~IsSystem(s[i])
  BY <1>1 DEF Headed
<1> HIDE DEF p
<1>3. /\ Rest(s) \in Seq(Message) /\ Len(Rest(s)) = Len(s) - p
      /\ \A i \in 1 .. Len(s) - p : p + i \in 1 .. Len(s) /\ Rest(s)[i] = s[p + i]
  <2>1. p + 1 \in 1 .. Len(s) + 1
    BY <1>1
  <2>2. Rest(s) = SubSeq(s, p + 1, Len(s))
    BY <1>1 DEF Rest
  <2> QED  BY <1>1, <2>1, <2>2, SubSeqElements
<1>4. Plain(Rest(s))
  BY <1>1, <1>2, <1>3 DEF Plain
<1>5. \A i \in p + 1 .. Len(s) :
        i - p \in 1 .. Len(Rest(s)) /\ Rest(s)[i - p] = s[i]
  BY <1>1, <1>3
<1> QED  BY <1>3, <1>4, <1>5 DEF p

LEMMA HeadedWithInstructions ==
  ASSUME NEW a \in Agents, NEW s \in Seq(Message), Plain(s)
  PROVE  Headed(a, withInstructions(a, s))
<1>1. Leading(s) = 0
  BY LeadingFacts DEF Plain
<1> QED  BY <1>1, HeadedConcat DEF withInstructions

LEMMA HeadedCompressed ==
  ASSUME NEW a \in Agents, NEW s \in Seq(Message), Headed(a, s)
  PROVE  Headed(a, Compressed(s))
<1> DEFINE rest == Rest(s)
           tail == SubSeq(rest, Len(rest) - Keep + 1, Len(rest))
<1>1. rest \in Seq(Message) /\ Plain(rest) /\ Systems(s) = Prompt(a)
  BY HeadedRest, HeadedLeading
<1>2. Compressed(s) = IF Keep = 0 \/ Len(rest) <= Keep THEN s
                                                      ELSE Prompt(a) \o tail
  BY <1>1 DEF Compressed
<1> HIDE DEF rest
<1>3. CASE ~(Keep = 0 \/ Len(rest) <= Keep)
  <2>1. Len(rest) - Keep + 1 \in 1 .. Len(rest) + 1
    BY <1>1, <1>3, AgentRunAssumption
  <2>2. tail \in Seq(Message) /\ Plain(tail)
    BY <1>1, <2>1, SubSeqElements DEF Plain
  <2> HIDE DEF tail
  <2> QED  BY <1>2, <1>3, <2>2, HeadedConcat
<1> QED  BY <1>2, <1>3

(* The switch to an agent whose prompt takes the same place changes that   *)
(* prompt only.                                                            *)
LEMMA HeadedSwitch ==
  ASSUME NEW a \in Agents, NEW b \in Agents, NEW s \in Seq(Message),
         Headed(a, s), Len(Prompt(b)) = Len(Prompt(a))
  PROVE  /\ switchSystemMessage(s, b) \in Seq(Message)
         /\ Headed(b, switchSystemMessage(s, b))
         /\ Len(switchSystemMessage(s, b)) = Len(s)
         /\ \A i \in Len(Prompt(a)) + 1 .. Len(s) :
              switchSystemMessage(s, b)[i] = s[i]
         /\ \A i \in 1 .. Len(Prompt(a)) : IsSystem(switchSystemMessage(s, b)[i])
<1> DEFINE p == Len(Prompt(a))
           rest == Rest(s)
           t == Prompt(b) \o rest
<1>1. /\ rest \in Seq(Message) /\ Plain(rest) /\ Len(rest) = Len(s) - p
      /\ \A i \in p + 1 .. Len(s) :
           i - p \in 1 .. Len(rest) /\ rest[i - p] = s[i]
  BY HeadedRest
<1>2. p \in {0, 1} /\ p <= Len(s) /\ Prompt(b) \in Seq(Message)
  BY PromptFacts DEF Headed
<1> HIDE DEF rest, p
<1>3. t \in Seq(Message) /\ Len(t) = Len(s) /\ Headed(b, t)
  <2>1. Headed(b, t)
    BY <1>1, HeadedConcat
  <2>2. Len(Prompt(b)) = p
    BY DEF p
  <2>3. t \in Seq(Message) /\ Len(t) = p + Len(rest)
    BY <1>1, <1>2, <2>2
  <2> QED  BY <1>1, <1>2, <2>1, <2>3
<1>4. \A i \in p + 1 .. Len(s) : t[i] = rest[i - p]
  BY <1>1, <1>2 DEF p
<1>5. t = switchSystemMessage(s, b)
  BY DEF switchSystemMessage, rest
<1> HIDE DEF t
<1>6. \A i \in 1 .. p : IsSystem(t[i])
  BY <1>2, <1>3, PromptFacts DEF Headed, p
<1> QED  BY <1>1, <1>3, <1>4, <1>5, <1>6 DEF p

-----------------------------------------------------------------------------
(* Turns.                                                                  *)

LEMMA TurnOfUser ==
  ASSUME NEW r \in Runs
  PROVE  /\ TurnOf(r, <<User(r)>>) /\ AnsweredBut(<<User(r)>>, <<>>)
         /\ ~FinalAnswer(User(r))
<1> DEFINE t == <<User(r)>>
<1>1. Len(t) = 1 /\ t[1] = User(r) /\ t # <<>> /\ User(r).role = "user"
  BY DEF User
<1> HIDE DEF t
<1>2. TurnOf(r, t)
  BY <1>1 DEF TurnOf
<1>3. AnsweredBut(t, <<>>)
  BY <1>1 DEF AnsweredBut
<1> QED  BY <1>1, <1>2, <1>3 DEF FinalAnswer, t

LEMMA TurnOfAppend ==
  ASSUME NEW r \in Runs, NEW t \in Seq(Message), TurnOf(r, t),
         NEW m \in Message, m.role \in {"assistant", "tool"}, m.run = r,
         m.role = "assistant" =>
           m.turn = IF t[Len(t)].role = "user" THEN 0 ELSE t[Len(t)].turn + 1,
         m.role = "tool" =>
           /\ t[Len(t)].role \in {"assistant", "tool"}
           /\ m.turn = t[Len(t)].turn
           /\ m.call = IF t[Len(t)].role = "tool" THEN t[Len(t)].call + 1 ELSE 1
  PROVE  TurnOf(r, Append(t, m))
<1> DEFINE u == Append(t, m)
<1>1. /\ u \in Seq(Message) /\ Len(u) = Len(t) + 1 /\ u # <<>>
      /\ \A i \in 1 .. Len(t) : u[i] = t[i]
      /\ u[Len(t) + 1] = m
  BY AppendFacts
<1>2. Len(t) \in Nat \ {0} /\ t[1] = User(r)
  BY DEF TurnOf
<1> HIDE DEF u
<1>3. ASSUME NEW i \in 2 .. Len(u)
      PROVE  LET prior == u[i - 1]
             IN  /\ u[i].role \in {"assistant", "tool"}
                 /\ u[i].run = r
                 /\ u[i].role = "assistant" =>
                      u[i].turn = IF prior.role = "user" THEN 0
                                                         ELSE prior.turn + 1
                 /\ u[i].role = "tool" =>
                      /\ prior.role \in {"assistant", "tool"}
                      /\ u[i].turn = prior.turn
                      /\ u[i].call = IF prior.role = "tool"
                                       THEN prior.call + 1 ELSE 1
  <2>1. CASE i = Len(t) + 1
    <3>1. u[i] = m /\ u[i - 1] = t[Len(t)]
      BY <1>1, <1>2, <2>1
    <3> QED  BY <3>1
  <2>2. CASE i \in 2 .. Len(t)
    <3>1. u[i] = t[i] /\ u[i - 1] = t[i - 1]
      BY <1>1, <2>2
    <3> QED  BY <2>2, <3>1 DEF TurnOf
  <2> QED  BY <1>1, <1>2, <2>1, <2>2
<1>4. u[1] = User(r)
  BY <1>1, <1>2
<1> QED  BY <1>1, <1>3, <1>4 DEF TurnOf, u

LEMMA CallsOf ==
  ASSUME NEW t \in Seq(Message), NEW i \in 1 .. Len(t), t[i].role = "assistant"
  PROVE  Len(t[i].calls) \in Nat
<1>1. t[i] \in Message
  OBVIOUS
<1>2. t[i].calls \in Seq(Names)
  BY <1>1, MessageFacts
<1> QED  BY <1>2

LEMMA AnsweredButAnswer ==
  ASSUME NEW t \in Seq(Message), AnsweredBut(t, <<>>), NEW m \in Message,
         m.role = "assistant"
  PROVE  AnsweredBut(Append(t, m), m.calls)
<1> DEFINE u == Append(t, m)
<1>1. /\ u \in Seq(Message) /\ Len(u) = Len(t) + 1
      /\ \A i \in 1 .. Len(t) : u[i] = t[i]
      /\ u[Len(t) + 1] = m
  BY AppendFacts
<1> HIDE DEF u
<1>2. ASSUME NEW i \in 1 .. Len(u), u[i].role = "assistant",
             NEW end, end = i + Len(u[i].calls)
      PROVE  /\ \A j \in i + 1 .. Len(u) : j <= end => u[j].role = "tool"
             /\ IF end < Len(u) THEN u[end + 1].role = "assistant"
                                ELSE end = Len(u) + Len(m.calls)
  <2>0. Len(u[i].calls) \in Nat
    BY <1>1, <1>2, CallsOf
  <2>1. CASE i = Len(t) + 1
    <3>1. u[i] = m /\ end = Len(u) + Len(m.calls)
      BY <1>1, <1>2, <2>1
    <3>2. Len(m.calls) \in Nat
      BY <2>0, <3>1
    <3>3. ~(end < Len(u)) /\ \A j \in i + 1 .. Len(u) : FALSE
      <4>1. Len(u) \in Nat /\ i = Len(u)
        BY <1>1, <2>1
      <4> QED  BY <3>1, <3>2, <4>1
    <3> QED  BY <3>1, <3>3
  <2>2. CASE i \in 1 .. Len(t)
    <3>1. u[i] = t[i] /\ Len(t[i].calls) \in Nat
      BY <1>1, <1>2, <2>2, CallsOf
    <3>2. /\ \A j \in i + 1 .. Len(t) : j <= end => t[j].role = "tool"
          /\ IF end < Len(t) THEN t[end + 1].role = "assistant"
                             ELSE end = Len(t)
      <4>1. Len(t) + Len(<<>>) = Len(t)
        OBVIOUS
      <4> QED  BY <1>2, <2>2, <3>1, <4>1 DEF AnsweredBut
    <3>3. end \in 1 .. Len(t)
      BY <1>2, <2>2, <3>1, <3>2
    <3>4. end < Len(u) /\ u[end + 1].role = "assistant"
      BY <1>1, <3>2, <3>3
    <3>5. \A j \in i + 1 .. Len(u) : j <= end => u[j].role = "tool"
      BY <1>1, <2>2, <3>2, <3>3
    <3> QED  BY <3>4, <3>5
  <2>3. i \in 1 .. Len(t) + 1
    BY <1>1
  <2> QED  BY <2>1, <2>2, <2>3
<1> QED  BY <1>2 DEF AnsweredBut, u

LEMMA AnsweredButResult ==
  ASSUME NEW t \in Seq(Message), NEW calls \in Seq(Names), calls # <<>>,
         AnsweredBut(t, calls), NEW m \in Message, m.role = "tool"
  PROVE  AnsweredBut(Append(t, m), Tail(calls))
<1> DEFINE u == Append(t, m)
<1>1. /\ u \in Seq(Message) /\ Len(u) = Len(t) + 1
      /\ \A i \in 1 .. Len(t) : u[i] = t[i]
      /\ u[Len(t) + 1] = m
  BY AppendFacts
<1>2. Len(calls) \in Nat \ {0} /\ Len(Tail(calls)) = Len(calls) - 1
  OBVIOUS
<1> HIDE DEF u
<1>3. ASSUME NEW i \in 1 .. Len(u), u[i].role = "assistant",
             NEW end, end = i + Len(u[i].calls)
      PROVE  /\ \A j \in i + 1 .. Len(u) : j <= end => u[j].role = "tool"
             /\ IF end < Len(u) THEN u[end + 1].role = "assistant"
                                ELSE end = Len(u) + Len(Tail(calls))
  <2>1. i \in 1 .. Len(t)
    BY <1>1, <1>3
  <2>2. u[i] = t[i] /\ Len(t[i].calls) \in Nat
    BY <1>1, <1>3, <2>1, CallsOf
  <2>3. /\ \A j \in i + 1 .. Len(t) : j <= end => t[j].role = "tool"
        /\ IF end < Len(t) THEN t[end + 1].role = "assistant"
                           ELSE end = Len(t) + Len(calls)
    BY <1>3, <2>1, <2>2 DEF AnsweredBut
  <2>4. end \in Nat /\ end >= i
    BY <1>3, <2>1, <2>2
  <2>5. \A j \in i + 1 .. Len(u) : j <= end => u[j].role = "tool"
    <3> SUFFICES ASSUME NEW j \in i + 1 .. Len(u), j <= end
                 PROVE  u[j].role = "tool"
      OBVIOUS
    <3>1. CASE j = Len(t) + 1
      BY <1>1, <3>1
    <3>2. CASE j \in i + 1 .. Len(t)
      BY <1>1, <2>1, <2>3, <3>2
    <3> QED  BY <1>1, <2>1, <3>1, <3>2, SMTT(30)
  <2>6. IF end < Len(u) THEN u[end + 1].role = "assistant"
                        ELSE end = Len(u) + Len(Tail(calls))
    BY <1>1, <1>2, <2>3, <2>4, SMTT(30)
  <2> QED  BY <2>5, <2>6
<1> QED  BY <1>3 DEF AnsweredBut, u

LEMMA AnsweredButNone ==
  ASSUME NEW t \in Seq(Message), AnsweredBut(t, <<>>)
  PROVE  Answered(t)
<1> SUFFICES ASSUME NEW i \in 1 .. Len(t), t[i].role = "assistant",
                    NEW n, n = Len(t[i].calls)
             PROVE  /\ i + n <= Len(t)
                    /\ \A j \in i + 1 .. i + n : t[j].role = "tool"
                    /\ i + n < Len(t) => t[i + n + 1].role = "assistant"
  BY DEF Answered
<1>1. n \in Nat
  BY CallsOf
<1>2. /\ \A j \in i + 1 .. Len(t) : j <= i + n => t[j].role = "tool"
      /\ IF i + n < Len(t) THEN t[i + n + 1].role = "assistant"
                           ELSE i + n = Len(t) + Len(<<>>)
  BY DEF AnsweredBut
<1> QED  BY <1>1, <1>2, SMTT(30)

-----------------------------------------------------------------------------
(* What the moves make of a turn.                                          *)

TurnsKept(r, st) == LayoutInv(r, st) /\ TurnInv(r, st)

InTurn(me) == Open(me) \/ Final(me) \/ me.outcome = "max_turns"

(* The turn as a sequence of its own.                                      *)
LEMMA TurnFacts ==
  ASSUME NEW r \in Runs, NEW me \in RunState, LayoutInv(r, me), InTurn(me)
  PROVE  /\ me.base \in 0 .. Len(me.msgs) - 1
         /\ me.msgs \in Seq(Message) /\ me.cur \in Agents
         /\ Turn(me) \in Seq(Message)
         /\ Len(Turn(me)) = Len(me.msgs) - me.base
         /\ \A i \in 1 .. Len(me.msgs) - me.base : Turn(me)[i] = me.msgs[me.base + i]
         /\ Turn(me)[Len(Turn(me))] = Last(me.msgs)
<1>1. me.msgs \in Seq(Message) /\ me.cur \in Agents
  BY DEF RunState
<1>2. me.base \in 0 .. Len(me.msgs) - 1
  <2>1. Len(Prompt(me.cur)) \in {0, 1}
    BY <1>1, PromptFacts
  <2>2. me.base \in Len(Prompt(me.cur)) .. Len(me.msgs) - 1
    BY DEF LayoutInv, InTurn
  <2> QED  BY <1>1, <2>1, <2>2
<1>3. me.base + 1 \in 1 .. Len(me.msgs) + 1
  BY <1>1, <1>2
<1>4. /\ Turn(me) \in Seq(Message)
      /\ Len(Turn(me)) = Len(me.msgs) - me.base
      /\ \A i \in 1 .. Len(me.msgs) - me.base : Turn(me)[i] = me.msgs[me.base + i]
  <2> DEFINE s == me.msgs
             b == me.base
  <2>1. s \in Seq(Message) /\ b \in 0 .. Len(s) - 1 /\ b + 1 \in 1 .. Len(s) + 1
    BY <1>1, <1>2, <1>3
  <2>2. Turn(me) = SubSeq(s, b + 1, Len(s))
    BY DEF Turn
  <2> HIDE DEF s, b
  <2>3. /\ Turn(me) \in Seq(Message)
        /\ Len(Turn(me)) = Len(s) - (b + 1) + 1
        /\ \A i \in 1 .. Len(s) - (b + 1) + 1 : Turn(me)[i] = s[b + 1 + i - 1]
    BY <2>1, <2>2, SubSeqElements
  <2>4. /\ Len(Turn(me)) = Len(s) - b
        /\ \A i \in 1 .. Len(s) - b : Turn(me)[i] = s[b + i]
    BY <2>1, <2>3
  <2> QED  BY <2>3, <2>4 DEF s, b
<1> QED  BY <1>1, <1>2, <1>4 DEF Last

LEMMA TurnAppend ==
  ASSUME NEW s \in Seq(Message), NEW m \in Message, NEW base \in 0 .. Len(s)
  PROVE  SubSeq(Append(s, m), base + 1, Len(Append(s, m)))
         = Append(SubSeq(s, base + 1, Len(s)), m)
<1> DEFINE u == Append(s, m)
           t == SubSeq(s, base + 1, Len(s))
           v == SubSeq(u, base + 1, Len(u))
           w == Append(t, m)
<1>1. /\ u \in Seq(Message) /\ Len(u) = Len(s) + 1
      /\ \A i \in 1 .. Len(s) : u[i] = s[i]
      /\ u[Len(s) + 1] = m
  BY AppendFacts
<1>2. /\ t \in Seq(Message) /\ Len(t) = Len(s) - base
      /\ \A i \in 1 .. Len(s) - base : t[i] = s[base + i]
  <2>1. base + 1 \in 1 .. Len(s) + 1
    OBVIOUS
  <2> QED  BY <2>1, SubSeqElements
<1> HIDE DEF u, t
<1>3. /\ v \in Seq(Message) /\ Len(v) = Len(s) - base + 1
      /\ \A i \in 1 .. Len(s) - base + 1 : v[i] = u[base + i]
  <2>1. base + 1 \in 1 .. Len(u) + 1
    BY <1>1
  <2> QED  BY <1>1, <2>1, SubSeqElements
<1>4. /\ w \in Seq(Message) /\ Len(w) = Len(s) - base + 1
      /\ \A i \in 1 .. Len(s) - base : w[i] = t[i]
      /\ w[Len(s) - base + 1] = m
  BY <1>2, AppendFacts
<1> HIDE DEF v, w
<1>5. ASSUME NEW i \in 1 .. Len(s) - base + 1 PROVE v[i] = w[i]
  <2>1. CASE i = Len(s) - base + 1
    <3>1. v[i] = u[Len(s) + 1]
      BY <1>3, <2>1
    <3> QED  BY <1>1, <1>4, <2>1, <3>1
  <2>2. CASE i \in 1 .. Len(s) - base
    <3>1. i \in 1 .. Len(s) - base + 1 /\ base + i \in 1 .. Len(s)
      BY <2>2
    <3>2. v[i] = u[base + i]
      BY <1>3, <3>1
    <3>3. v[i] = s[base + i] /\ w[i] = t[i] /\ t[i] = s[base + i]
      BY <1>1, <1>2, <1>4, <2>2, <3>1, <3>2
    <3> QED  BY <3>3
  <2> QED  BY <2>1, <2>2
<1>6. v = w
  BY <1>3, <1>4, <1>5, SMTT(30)
<1> QED  BY <1>6 DEF u, t, v, w

(* The moves that say nothing.                                             *)
LEMMA SilentKept ==
  ASSUME NEW r \in Runs, NEW me \in RunState, LayoutInv(r, me), TurnInv(r, me),
         NEW st, st.cur = me.cur, st.msgs = me.msgs, st.base = me.base,
         st.turn = me.turn, st.calls = me.calls,
         InTurn(st) => InTurn(me) /\ (Final(st) <=> Final(me)),
         st.pc \notin {"new", "ended"} \/ st.outcome = "max_turns" =>
           me.pc \notin {"new", "ended"} \/ me.outcome = "max_turns",
         st.pc \in {"turn", "chat"} => me.pc \in {"input", "turn", "chat"},
         st.pc = "input" => me.pc = "input",
         st.pc = "tools" => me.pc = "tools",
         me.pc = "input" => me.turn = 0
  PROVE  TurnsKept(r, st)
<1>1. LayoutInv(r, st)
  BY DEF LayoutInv, InTurn
<1>2. TurnInv(r, st)
  <2>1. CASE ~InTurn(st)
    BY <2>1 DEF TurnInv, InTurn
  <2>2. CASE InTurn(st)
    <3> DEFINE t == Turn(me)
               last == t[Len(t)]
    <3>1. InTurn(me) /\ Turn(st) = t /\ (Final(st) <=> Final(me))
      BY <2>2 DEF Turn
    <3>2. /\ TurnOf(r, t) /\ AnsweredBut(t, me.calls)
          /\ me.pc = "input" => Len(t) = 1
          /\ me.pc \in {"turn", "chat"} =>
               me.turn = IF last.role = "user" THEN 0 ELSE last.turn + 1
          /\ me.pc = "tools" => last.role # "user" /\ last.turn = me.turn
          /\ IF Final(me)
               THEN \A i \in 1 .. Len(t) : FinalAnswer(t[i]) <=> i = Len(t)
               ELSE \A i \in 1 .. Len(t) : ~FinalAnswer(t[i])
      BY <3>1 DEF TurnInv, InTurn
    <3>3. me.pc = "input" => last.role = "user"
      <4>1. t[1] = User(r) /\ User(r).role = "user"
        BY <3>2, MessageKinds DEF TurnOf
      <4>2. Len(t) = 1 => last = t[1]
        OBVIOUS
      <4> QED  BY <3>2, <4>1, <4>2
    <3> HIDE DEF t, last
    <3> QED  BY <3>1, <3>2, <3>3 DEF TurnInv, t, last
  <2> QED  BY <2>1, <2>2
<1> QED  BY <1>1, <1>2 DEF TurnsKept

LEMMA TurnSpeakers ==
  ASSUME NEW r \in Runs, NEW t \in Seq(Message), TurnOf(r, t),
         NEW i \in 1 .. Len(t)
  PROVE  t[i].role \in {"user", "assistant", "tool"} /\ IsOwn(r, t[i])
<1>1. CASE i = 1
  <2>1. t[i] = User(r)
    BY <1>1 DEF TurnOf
  <2> QED  BY <2>1, MessageKinds
<1>2. CASE i \in 2 .. Len(t)
  <2>1. t[i].role \in {"assistant", "tool"} /\ t[i].run = r
    BY <1>2 DEF TurnOf
  <2> QED  BY <2>1 DEF IsOwn, IsSystem
<1> QED  BY <1>1, <1>2

(* What is known of the turn of a run that is in one.                      *)
LEMMA TurnSoFar ==
  ASSUME NEW r \in Runs, NEW me \in RunState, LayoutInv(r, me),
         TurnInv(r, me), InTurn(me), NEW t, t = Turn(me)
  PROVE  /\ t \in Seq(Message) /\ t # <<>> /\ t[Len(t)] = Last(me.msgs)
         /\ t[Len(t)].role \in {"user", "assistant", "tool"}
         /\ TurnOf(r, t) /\ AnsweredBut(t, me.calls)
         /\ me.pc \in {"turn", "chat"} =>
              me.turn = IF t[Len(t)].role = "user" THEN 0
                                                   ELSE t[Len(t)].turn + 1
         /\ me.pc = "tools" =>
              t[Len(t)].role # "user" /\ t[Len(t)].turn = me.turn
         /\ IF Final(me)
              THEN \A i \in 1 .. Len(t) : FinalAnswer(t[i]) <=> i = Len(t)
              ELSE \A i \in 1 .. Len(t) : ~FinalAnswer(t[i])
<1>1. t \in Seq(Message) /\ t[Len(t)] = Last(me.msgs)
  BY TurnFacts
<1>2. /\ TurnOf(r, t) /\ AnsweredBut(t, me.calls)
      /\ me.pc \in {"turn", "chat"} =>
           me.turn = IF t[Len(t)].role = "user" THEN 0
                                                ELSE t[Len(t)].turn + 1
      /\ me.pc = "tools" =>
           t[Len(t)].role # "user" /\ t[Len(t)].turn = me.turn
      /\ IF Final(me)
           THEN \A i \in 1 .. Len(t) : FinalAnswer(t[i]) <=> i = Len(t)
           ELSE \A i \in 1 .. Len(t) : ~FinalAnswer(t[i])
  BY DEF TurnInv, InTurn
<1>3. t # <<>> /\ Len(t) \in 1 .. Len(t)
  BY <1>1, <1>2 DEF TurnOf
<1>4. t[Len(t)].role \in {"user", "assistant", "tool"}
  BY <1>1, <1>2, <1>3, TurnSpeakers
<1> QED  BY <1>1, <1>2, <1>3, <1>4

(* The moves that add the message m to the turn.                           *)
LEMMA SaysKept ==
  ASSUME NEW r \in Runs, NEW me \in RunState, LayoutInv(r, me),
         me.pc \in {"chat", "tools"}, NEW m \in Message, IsOwn(r, m),
         NEW st, st.cur = me.cur, st.base = me.base,
         st.msgs = Append(me.msgs, m)
  PROVE  LayoutInv(r, st) /\ Turn(st) = Append(Turn(me), m)
<1> DEFINE s == me.msgs
           u == Append(s, m)
           p == Len(Prompt(me.cur))
<1>1. InTurn(me) /\ Headed(me.cur, s)
  BY DEF InTurn, Open, LayoutInv
<1>2. s \in Seq(Message) /\ me.base \in 0 .. Len(s) - 1 /\ me.cur \in Agents
  BY <1>1, TurnFacts
<1>3. /\ p = Len(Prompt(StartAgent[r])) /\ me.base \in p .. Len(s) - 1
      /\ \A i \in 1 .. me.base : ~IsOwn(r, s[i])
  BY <1>1 DEF LayoutInv, InTurn
<1>4. Headed(me.cur, u)
  BY <1>1, <1>2, HeadedAppend DEF IsOwn
<1>5. Turn(st) = Append(Turn(me), m)
  <2>1. me.base \in 0 .. Len(s)
    BY <1>2
  <2> QED  BY <1>2, <2>1, TurnAppend DEF Turn
<1>6. Len(u) = Len(s) + 1 /\ \A i \in 1 .. Len(s) : u[i] = s[i]
  BY <1>2, AppendFacts
<1> HIDE DEF u
<1>7. p \in {0, 1}
  BY <1>2, PromptFacts
<1> HIDE DEF p, s
<1>8. me.base \in p .. Len(u) - 1 /\ \A i \in 1 .. me.base : ~IsOwn(r, u[i])
  <2>1. Len(s) \in Nat /\ me.base \in Nat /\ me.base <= Len(s) - 1 /\ p <= me.base
    BY <1>2, <1>3, <1>7
  <2>2. \A i \in 1 .. me.base : i \in 1 .. Len(s)
    BY <2>1
  <2> QED  BY <1>3, <1>6, <1>7, <2>1, <2>2
<1>9. st.msgs = u /\ st.cur = me.cur /\ st.base = me.base
  BY DEF u, s
<1>10. LayoutInv(r, st)
  BY <1>3, <1>4, <1>8, <1>9 DEF LayoutInv, p
<1> QED  BY <1>5, <1>10

LEMMA AnswerTurn ==
  ASSUME NEW r \in Runs, NEW me \in RunState, RunInv(r, me),
         LayoutInv(r, me), TurnInv(r, me), me.pc = "chat"
  PROVE  TurnsKept(r, FinalGiven(r, me))
<1> DEFINE m == Assistant(r, me.turn, <<>>)
           st == FinalGiven(r, me)
           t == Turn(me)
           u == Append(t, m)
<1>1. /\ st.cur = me.cur /\ st.base = me.base /\ st.pc = "output"
      /\ st.msgs = Append(me.msgs, m) /\ st.calls = me.calls
  BY DEF FinalGiven, RunState
<1> HIDE DEF st
<1>2. me.turn \in Turns /\ me.calls = <<>>
  BY AgentRunAssumption DEF RunInv, StageInv, RunState, Turns
<1>3. /\ m \in Message /\ IsOwn(r, m) /\ m.role = "assistant" /\ m.run = r
      /\ m.turn = me.turn /\ m.calls = <<>>
  <2>1. <<>> \in Seq(Names)
    OBVIOUS
  <2> QED  BY <1>2, <2>1, MessageKinds DEF Assistant
<1> HIDE DEF m
<1>4. LayoutInv(r, st) /\ Turn(st) = u
  BY <1>1, <1>3, SaysKept
<1>5. InTurn(me) /\ ~Final(me)
  BY DEF InTurn, Open, Final
<1>6. /\ t \in Seq(Message) /\ TurnOf(r, t) /\ AnsweredBut(t, <<>>)
      /\ me.turn = IF t[Len(t)].role = "user" THEN 0 ELSE t[Len(t)].turn + 1
      /\ \A i \in 1 .. Len(t) : ~FinalAnswer(t[i])
  BY <1>2, <1>5, TurnSoFar
<1> HIDE DEF t
<1>7. TurnOf(r, u)
  BY <1>3, <1>6, TurnOfAppend
<1>8. AnsweredBut(u, <<>>)
  BY <1>3, <1>6, AnsweredButAnswer
<1>9. /\ Len(u) = Len(t) + 1 /\ u[Len(t) + 1] = m
      /\ \A i \in 1 .. Len(t) : u[i] = t[i]
  BY <1>3, <1>6, AppendFacts
<1> HIDE DEF u
<1>10. \A i \in 1 .. Len(u) : FinalAnswer(u[i]) <=> i = Len(u)
  <2>1. Len(t) \in Nat
    BY <1>6
  <2>2. \A i \in 1 .. Len(u) : i = Len(t) + 1 \/ i \in 1 .. Len(t)
    BY <1>9, <2>1
  <2>3. \A i \in 1 .. Len(t) : ~FinalAnswer(u[i]) /\ i # Len(u)
    BY <1>6, <1>9, <2>1
  <2>4. FinalAnswer(u[Len(t) + 1])
    BY <1>3, <1>9 DEF FinalAnswer
  <2> QED  BY <1>9, <2>2, <2>3, <2>4
<1>11. TurnInv(r, st)
  BY <1>1, <1>2, <1>4, <1>7, <1>8, <1>10 DEF TurnInv, Final
<1> QED  BY <1>4, <1>11 DEF TurnsKept, st

LEMMA AskForCallsTurn ==
  ASSUME NEW r \in Runs, NEW me \in RunState, RunInv(r, me),
         LayoutInv(r, me), TurnInv(r, me), me.pc = "chat",
         NEW calls \in Answers \ {<<>>}
  PROVE  TurnsKept(r, CallsAsked(r, me, calls))
<1> DEFINE m == Assistant(r, me.turn, calls)
           st == CallsAsked(r, me, calls)
           t == Turn(me)
           u == Append(t, m)
<1>1. /\ st.cur = me.cur /\ st.base = me.base /\ st.pc = "tools"
      /\ st.msgs = Append(me.msgs, m) /\ st.calls = calls
      /\ st.turn = me.turn
  BY DEF CallsAsked, RunState
<1> HIDE DEF st
<1>2. me.turn \in Turns /\ me.calls = <<>> /\ calls \in Seq(Names)
  BY AgentRunAssumption DEF RunInv, StageInv, RunState, Turns
<1>3. /\ m \in Message /\ IsOwn(r, m) /\ m.role = "assistant" /\ m.run = r
      /\ m.turn = me.turn /\ m.calls = calls
  BY <1>2, MessageKinds DEF Assistant
<1> HIDE DEF m
<1>4. LayoutInv(r, st) /\ Turn(st) = u
  BY <1>1, <1>3, SaysKept
<1>5. InTurn(me) /\ ~Final(me)
  BY DEF InTurn, Open, Final
<1>6. /\ t \in Seq(Message) /\ TurnOf(r, t) /\ AnsweredBut(t, <<>>)
      /\ me.turn = IF t[Len(t)].role = "user" THEN 0 ELSE t[Len(t)].turn + 1
      /\ \A i \in 1 .. Len(t) : ~FinalAnswer(t[i])
  BY <1>2, <1>5, TurnSoFar
<1> HIDE DEF t
<1>7. TurnOf(r, u)
  BY <1>3, <1>6, TurnOfAppend
<1>8. AnsweredBut(u, calls)
  BY <1>3, <1>6, AnsweredButAnswer
<1>9. /\ Len(u) = Len(t) + 1 /\ u[Len(t) + 1] = m
      /\ \A i \in 1 .. Len(t) : u[i] = t[i]
  BY <1>3, <1>6, AppendFacts
<1> HIDE DEF u
<1>10. \A i \in 1 .. Len(u) : ~FinalAnswer(u[i])
  <2>1. \A i \in 1 .. Len(u) : i = Len(t) + 1 \/ i \in 1 .. Len(t)
    BY <1>6, <1>9
  <2>2. ~FinalAnswer(m)
    BY <1>3 DEF FinalAnswer
  <2> QED  BY <1>6, <1>9, <2>1, <2>2
<1>11. u[Len(u)].role # "user" /\ u[Len(u)].turn = st.turn
  BY <1>1, <1>3, <1>9
<1>12. TurnInv(r, st)
  BY <1>1, <1>4, <1>7, <1>8, <1>10, <1>11 DEF TurnInv, Final
<1> QED  BY <1>4, <1>12 DEF TurnsKept, st

LEMMA CallTurn ==
  ASSUME NEW r \in Runs, NEW me \in RunState, RunInv(r, me),
         LayoutInv(r, me), TurnInv(r, me), me.pc = "tools",
         me.calls # <<>>, NEW answer \in HandoffTo[me.cur] \cup {"ok", "error"}
  PROVE  TurnsKept(r, CallDone(r, me, answer))
<1> DEFINE n == NextCall(me)
           m == Result(r, me.turn, n, answer)
           st == CallDone(r, me, answer)
           t == Turn(me)
           u == Append(t, m)
<1>1. /\ st.cur = me.cur /\ st.base = me.base /\ st.pc = "tools"
      /\ st.msgs = Append(me.msgs, m) /\ st.calls = Tail(me.calls)
      /\ st.turn = me.turn
  BY DEF CallDone, RunState
<1> HIDE DEF st
<1>2. /\ me.turn \in Turns /\ me.calls \in Seq(Names)
      /\ answer \in Outputs
  BY AgentRunAssumption DEF RunInv, StageInv, RunState, Turns, Outputs
<1>3. InTurn(me) /\ ~Final(me)
  BY DEF InTurn, Open, Final
<1>4. /\ t \in Seq(Message) /\ t # <<>> /\ t[Len(t)] = Last(me.msgs)
      /\ TurnOf(r, t) /\ AnsweredBut(t, me.calls)
      /\ t[Len(t)].role \in {"assistant", "tool"} /\ t[Len(t)].turn = me.turn
      /\ \A i \in 1 .. Len(t) : ~FinalAnswer(t[i])
  BY <1>3, TurnSoFar
<1> HIDE DEF t
<1>5. /\ n = IF t[Len(t)].role = "tool" THEN t[Len(t)].call + 1 ELSE 1
      /\ n \in Nat
  <2>1. t[Len(t)] \in Message
    BY <1>4
  <2> QED  BY <1>4, <2>1, MessageFacts DEF NextCall
<1> HIDE DEF n
<1>6. /\ m \in Message /\ IsOwn(r, m) /\ m.role = "tool" /\ m.run = r
      /\ m.turn = me.turn /\ m.call = n
  BY <1>2, <1>5, MessageKinds DEF Result
<1> HIDE DEF m
<1>7. LayoutInv(r, st) /\ Turn(st) = u
  BY <1>1, <1>6, SaysKept DEF t
<1>8. TurnOf(r, u)
  BY <1>4, <1>5, <1>6, TurnOfAppend
<1>9. AnsweredBut(u, Tail(me.calls))
  BY <1>2, <1>4, <1>6, AnsweredButResult
<1>10. /\ Len(u) = Len(t) + 1 /\ u[Len(t) + 1] = m
       /\ \A i \in 1 .. Len(t) : u[i] = t[i]
  BY <1>4, <1>6, AppendFacts
<1> HIDE DEF u
<1>11. \A i \in 1 .. Len(u) : ~FinalAnswer(u[i])
  <2>1. \A i \in 1 .. Len(u) : i = Len(t) + 1 \/ i \in 1 .. Len(t)
    BY <1>4, <1>10
  <2>2. ~FinalAnswer(m)
    BY <1>6 DEF FinalAnswer
  <2> QED  BY <1>4, <1>10, <2>1, <2>2
<1>12. u[Len(u)].role # "user" /\ u[Len(u)].turn = st.turn
  BY <1>1, <1>6, <1>10
<1>13. TurnInv(r, st)
  BY <1>1, <1>7, <1>8, <1>9, <1>11, <1>12 DEF TurnInv, Final
<1> QED  BY <1>7, <1>13 DEF TurnsKept, st

LEMMA SameTurn ==
  ASSUME NEW s \in Seq(Message), NEW t \in Seq(Message), Len(s) = Len(t),
         NEW base \in 0 .. Len(s), \A i \in base + 1 .. Len(s) : t[i] = s[i]
  PROVE  SubSeq(t, base + 1, Len(t)) = SubSeq(s, base + 1, Len(s))
<1> DEFINE u == SubSeq(s, base + 1, Len(s))
           v == SubSeq(t, base + 1, Len(t))
<1>1. base + 1 \in 1 .. Len(s) + 1
  OBVIOUS
<1>2. /\ u \in Seq(Message) /\ Len(u) = Len(s) - base
      /\ \A i \in 1 .. Len(s) - base : u[i] = s[base + i]
  BY <1>1, SubSeqElements
<1>3. /\ v \in Seq(Message) /\ Len(v) = Len(s) - base
      /\ \A i \in 1 .. Len(s) - base : v[i] = t[base + i]
  BY <1>1, SubSeqElements
<1> HIDE DEF u, v
<1>4. \A i \in 1 .. Len(s) - base : base + i \in base + 1 .. Len(s)
  OBVIOUS
<1>5. \A i \in 1 .. Len(s) - base : v[i] = u[i]
  BY <1>2, <1>3, <1>4
<1>6. u = v
  BY <1>2, <1>3, <1>5
<1> QED  BY <1>6 DEF u, v

(* The end of a turn of the loop, with the switch of the prompt or not.    *)
LEMMA EndTurnTurn ==
  ASSUME NEW r \in Runs, NEW me \in RunState, RunInv(r, me),
         LayoutInv(r, me), TurnInv(r, me), me.pc = "tools",
         me.calls = <<>>, NEW cur \in Agents, NEW msgs \in Seq(Message),
         Len(Prompt(cur)) = Len(Prompt(me.cur)), Headed(cur, msgs),
         Len(msgs) = Len(me.msgs),
         \A i \in Len(Prompt(me.cur)) + 1 .. Len(msgs) : msgs[i] = me.msgs[i],
         \A i \in 1 .. Len(Prompt(me.cur)) : IsSystem(msgs[i])
  PROVE  TurnsKept(r, NextTurn(me, cur, msgs))
<1> DEFINE st == NextTurn(me, cur, msgs)
           p == Len(Prompt(me.cur))
           t == Turn(me)
<1>1. /\ st.cur = cur /\ st.base = me.base /\ st.pc = "turn"
      /\ st.msgs = msgs /\ st.calls = me.calls /\ st.turn = me.turn + 1
  BY DEF NextTurn, RunState
<1> HIDE DEF st
<1>2. InTurn(me) /\ ~Final(me)
  BY DEF InTurn, Open, Final
<1>3. /\ me.base \in 0 .. Len(me.msgs) - 1 /\ me.msgs \in Seq(Message)
      /\ p = Len(Prompt(StartAgent[r])) /\ me.base \in p .. Len(me.msgs) - 1
      /\ \A i \in 1 .. me.base : ~IsOwn(r, me.msgs[i])
  BY <1>2, TurnFacts DEF LayoutInv, InTurn
<1>4. p \in {0, 1}
  BY PromptFacts DEF RunState
<1>5. \A i \in p + 1 .. Len(msgs) : msgs[i] = me.msgs[i]
  OBVIOUS
<1>6. \A i \in 1 .. p : IsSystem(msgs[i])
  OBVIOUS
<1>7. Len(Prompt(cur)) = p
  OBVIOUS
<1> HIDE DEF p
<1>8. \A i \in 1 .. me.base : ~IsOwn(r, msgs[i])
  <2> SUFFICES ASSUME NEW i \in 1 .. me.base PROVE ~IsOwn(r, msgs[i])
    OBVIOUS
  <2>1. CASE i \in 1 .. p
    BY <1>6, <2>1 DEF IsOwn
  <2>2. CASE i \notin 1 .. p
    <3>1. i \in p + 1 .. Len(msgs)
      BY <1>3, <1>4, <2>2
    <3> QED  BY <1>3, <1>5, <3>1
  <2> QED  BY <2>1, <2>2
<1>9. LayoutInv(r, st)
  BY <1>1, <1>3, <1>7, <1>8 DEF LayoutInv
<1>10. Turn(st) = t
  <2>1. me.base \in 0 .. Len(me.msgs)
    BY <1>3
  <2>2. \A i \in me.base + 1 .. Len(me.msgs) : msgs[i] = me.msgs[i]
    <3>1. \A i \in me.base + 1 .. Len(me.msgs) : i \in p + 1 .. Len(msgs)
      BY <1>3, <1>4
    <3> QED  BY <1>5, <3>1
  <2>3. SubSeq(msgs, me.base + 1, Len(msgs))
        = SubSeq(me.msgs, me.base + 1, Len(me.msgs))
    BY <1>3, <2>1, <2>2, SameTurn
  <2> QED  BY <1>1, <2>3 DEF Turn
<1>11. /\ TurnOf(r, t) /\ AnsweredBut(t, me.calls)
       /\ t[Len(t)].role # "user" /\ t[Len(t)].turn = me.turn
       /\ \A i \in 1 .. Len(t) : ~FinalAnswer(t[i])
  BY <1>2, TurnSoFar
<1> HIDE DEF t
<1>12. TurnInv(r, st)
  BY <1>1, <1>10, <1>11 DEF TurnInv, Final
<1> QED  BY <1>9, <1>12 DEF TurnsKept, st

LEMMA BeginTurn ==
  ASSUME NEW r \in Runs, NEW me \in RunState, RunInv(r, me), me.pc = "new",
         NEW heard \in Seq(Message), Plain(heard)
  PROVE  TurnsKept(r, Loaded(r, me, heard))
<1> DEFINE st == Loaded(r, me, heard)
<1>1. /\ st.pc = "compress" /\ st.cur = me.cur /\ st.outcome = me.outcome
      /\ st.msgs = withInstructions(StartAgent[r], heard)
  BY DEF Loaded, RunState
<1> HIDE DEF st
<1>2. /\ me.cur = StartAgent[r] /\ me.outcome = "running"
      /\ StartAgent[r] \in Agents
  BY AgentRunAssumption DEF RunInv, StageInv
<1>3. Headed(st.cur, st.msgs)
  BY <1>1, <1>2, HeadedWithInstructions
<1>4. ~InTurn(st)
  BY <1>1, <1>2 DEF InTurn, Open, Final
<1>5. LayoutInv(r, st)
  BY <1>1, <1>2, <1>3, <1>4 DEF LayoutInv, InTurn
<1>6. TurnInv(r, st)
  BY <1>4 DEF TurnInv, InTurn
<1> QED  BY <1>5, <1>6 DEF TurnsKept, st

LEMMA PrepareTurn ==
  ASSUME NEW r \in Runs, NEW me \in RunState, RunInv(r, me),
         LayoutInv(r, me), me.pc = "compress"
  PROVE  TurnsKept(r, Prepared(r, me))
<1> DEFINE history == Compressed(me.msgs)
           m == User(r)
           base == Len(history)
           u == Append(history, m)
           st == Prepared(r, me)
           t == Turn(st)
<1>1. /\ st.pc = "input" /\ st.cur = me.cur /\ st.outcome = me.outcome
      /\ st.msgs = u /\ st.base = base /\ st.calls = me.calls
  BY DEF Prepared, RunState
<1> HIDE DEF st
<1>2. /\ me.cur = StartAgent[r] /\ me.cur \in Agents /\ me.calls = <<>>
      /\ me.msgs \in Seq(Message)
  BY DEF RunInv, StageInv, RunState
<1>3. /\ history \in Seq(Message) /\ Within(history, me.msgs)
      /\ Headed(me.cur, history)
  BY <1>2, CompressedFacts, HeadedCompressed DEF LayoutInv
<1>4. \A i \in 1 .. Len(history) : ~IsOwn(r, history[i])
  <2>1. \A i \in 1 .. Len(me.msgs) : ~IsOwn(r, me.msgs[i])
    BY DEF RunInv, FreshInv
  <2> QED  BY <1>3, <2>1 DEF Within, IsOwn
<1> HIDE DEF history
<1>5. m \in Message /\ IsOwn(r, m)
  BY MessageKinds
<1>6. Headed(me.cur, u)
  BY <1>2, <1>3, <1>5, HeadedAppend DEF IsOwn
<1>7. /\ Len(u) = base + 1 /\ base \in Nat
      /\ \A i \in 1 .. base : u[i] = history[i]
  BY <1>3, <1>5, AppendFacts
<1>8. t = <<m>>
  <2>1. SubSeq(u, base + 1, Len(u)) = Append(SubSeq(history, base + 1, base), m)
    BY <1>3, <1>5, <1>7, TurnAppend
  <2>2. SubSeq(history, base + 1, base) = <<>>
    BY <1>3, <1>7
  <2>3. Append(<<>>, m) = <<m>>
    OBVIOUS
  <2> QED  BY <1>1, <2>1, <2>2, <2>3 DEF Turn
<1> HIDE DEF u, t
<1>9. Len(Prompt(me.cur)) \in {0, 1} /\ Len(Prompt(me.cur)) <= base
  BY <1>2, <1>3, PromptFacts DEF Headed
<1>10. base \in Len(Prompt(me.cur)) .. Len(u) - 1
  BY <1>7, <1>9
<1>11. \A i \in 1 .. base : ~IsOwn(r, u[i])
  BY <1>4, <1>7
<1> HIDE DEF base, m
<1>12. LayoutInv(r, st)
  BY <1>1, <1>2, <1>6, <1>10, <1>11 DEF LayoutInv
<1>13. TurnOf(r, t) /\ AnsweredBut(t, <<>>) /\ ~FinalAnswer(m)
  BY <1>8, TurnOfUser DEF m
<1>14. Len(t) = 1 /\ t[1] = m
  BY <1>8
<1>15. \A i \in 1 .. Len(t) : ~FinalAnswer(t[i])
  BY <1>13, <1>14
<1>16. TurnInv(r, st)
  BY <1>1, <1>2, <1>13, <1>14, <1>15 DEF TurnInv, Final, t
<1> QED  BY <1>12, <1>16 DEF TurnsKept, st

LEMMA SilentTurns ==
  ASSUME NEW r \in Runs, NEW me \in RunState, RunInv(r, me),
         LayoutInv(r, me), TurnInv(r, me)
  PROVE  /\ \A i, v : /\ TurnsKept(r, InputVerdict(me, i, v))
                      /\ TurnsKept(r, OutputVerdict(me, i, v))
         /\ me.pc \in Stages => TurnsKept(r, Past(me))
         /\ me.pc = "turn" => TurnsKept(r, AtChat(me))
         /\ TurnsKept(r, Cancelled(me))
         /\ \A outcome \in Outcomes \ {"max_turns"} :
              TurnsKept(r, Ended(me, outcome))
         /\ me.pc = "turn" => TurnsKept(r, Ended(me, "max_turns"))
<1>1. me.pc = "input" => me.turn = 0
  BY DEF RunInv, StageInv
<1>2. ASSUME NEW st, st.cur = me.cur, st.msgs = me.msgs, st.base = me.base,
             st.turn = me.turn, st.calls = me.calls, st.pc = me.pc,
             st.outcome = me.outcome
      PROVE  TurnsKept(r, st)
  <2>1. (InTurn(st) <=> InTurn(me)) /\ (Final(st) <=> Final(me))
    BY <1>2 DEF InTurn, Open, Final
  <2> QED  BY <1>1, <1>2, <2>1, SilentKept
<1>3. ASSUME NEW i, NEW v
      PROVE  /\ TurnsKept(r, InputVerdict(me, i, v))
             /\ TurnsKept(r, OutputVerdict(me, i, v))
  <2> DEFINE a == InputVerdict(me, i, v)
             b == OutputVerdict(me, i, v)
  <2>1. /\ a.cur = me.cur /\ a.msgs = me.msgs /\ a.base = me.base
        /\ a.turn = me.turn /\ a.calls = me.calls /\ a.pc = me.pc
        /\ a.outcome = me.outcome
    BY DEF InputVerdict, RunState
  <2>2. /\ b.cur = me.cur /\ b.msgs = me.msgs /\ b.base = me.base
        /\ b.turn = me.turn /\ b.calls = me.calls /\ b.pc = me.pc
        /\ b.outcome = me.outcome
    BY DEF OutputVerdict, RunState
  <2> HIDE DEF a, b
  <2>3. TurnsKept(r, a) /\ TurnsKept(r, b)
    BY <1>2, <2>1, <2>2
  <2> QED  BY <2>3 DEF a, b
<1>4. TurnsKept(r, Cancelled(me))
  <2> DEFINE st == Cancelled(me)
  <2>1. /\ st.cur = me.cur /\ st.msgs = me.msgs /\ st.base = me.base
        /\ st.turn = me.turn /\ st.calls = me.calls /\ st.pc = me.pc
        /\ st.outcome = me.outcome
    BY DEF Cancelled, RunState
  <2> HIDE DEF st
  <2>2. TurnsKept(r, st)
    BY <1>2, <2>1
  <2> QED  BY <2>2 DEF st
<1>5. ASSUME me.pc \in Stages PROVE TurnsKept(r, Past(me))
  <2> DEFINE st == Past(me)
  <2>1. /\ st.cur = me.cur /\ st.msgs = me.msgs /\ st.base = me.base
        /\ st.turn = me.turn /\ st.calls = me.calls
        /\ st.pc = IF me.pc = "input" THEN "turn" ELSE "persist"
        /\ st.outcome = me.outcome
    BY DEF Past, RunState
  <2> HIDE DEF st
  <2>2. /\ InTurn(st) => InTurn(me) /\ (Final(st) <=> Final(me))
        /\ me.pc \notin {"new", "ended"}
        /\ st.pc \in {"turn", "chat"} => me.pc \in {"input", "turn", "chat"}
        /\ st.pc \notin {"input", "tools"}
    BY <1>5, <2>1 DEF InTurn, Open, Final, Stages
  <2>3. TurnsKept(r, st)
    BY <1>1, <2>1, <2>2, SilentKept
  <2> QED  BY <2>3 DEF st
<1>6. ASSUME me.pc = "turn" PROVE TurnsKept(r, AtChat(me))
  <2> DEFINE st == AtChat(me)
  <2>1. /\ st.cur = me.cur /\ st.msgs = me.msgs /\ st.base = me.base
        /\ st.turn = me.turn /\ st.calls = me.calls
        /\ st.pc = "chat" /\ st.outcome = me.outcome
    BY DEF AtChat, RunState
  <2> HIDE DEF st
  <2>2. InTurn(me) /\ ~Final(st) /\ ~Final(me)
    BY <1>6, <2>1 DEF InTurn, Open, Final
  <2>3. TurnsKept(r, st)
    BY <1>1, <1>6, <2>1, <2>2, SilentKept
  <2> QED  BY <2>3 DEF st
<1>7. ASSUME NEW outcome \in Outcomes, outcome = "max_turns" => me.pc = "turn"
      PROVE  TurnsKept(r, Ended(me, outcome))
  <2> DEFINE st == Ended(me, outcome)
  <2>1. /\ st.cur = me.cur /\ st.msgs = me.msgs /\ st.base = me.base
        /\ st.turn = me.turn /\ st.calls = me.calls
        /\ st.pc = "ended" /\ st.outcome = outcome
    BY DEF Ended, RunState
  <2> HIDE DEF st
  <2>2. /\ InTurn(st) => InTurn(me) /\ ~Final(me)
        /\ ~Final(st)
    BY <1>7, <2>1 DEF InTurn, Open, Final
  <2>3. TurnsKept(r, st)
    BY <1>1, <1>7, <2>1, <2>2, SilentKept
  <2> QED  BY <2>3 DEF st
<1>8. "max_turns" \in Outcomes
  BY DEF Outcomes
<1> QED  BY <1>3, <1>4, <1>5, <1>6, <1>7, <1>8

LEMMA MovesKeepTurns ==
  ASSUME HandoffsKeepPrompt, NEW r \in Runs, NEW me \in RunState,
         RunInv(r, me), LayoutInv(r, me), TurnInv(r, me), NEW st,
         Moves(r, me, st), session \in Seq(Message), Plain(session)
  PROVE  TurnsKept(r, st)
<1>1. CASE me.pc = "new" /\ st = Loaded(r, me, session)
  BY <1>1, BeginTurn
<1>2. CASE me.pc = "compress" /\ st = Prepared(r, me)
  BY <1>2, PrepareTurn
<1>3. ASSUME NEW i, NEW v,
             st = InputVerdict(me, i, v) \/ st = OutputVerdict(me, i, v)
      PROVE  TurnsKept(r, st)
  BY <1>3, SilentTurns
<1>4. ASSUME NEW verdicts, me.pc \in {"input", "output"},
             st = IF Judged(verdicts) # "pass"
                    THEN Ended(me, Judged(verdicts)) ELSE Past(me)
      PROVE  TurnsKept(r, st)
  <2>1. Judged(verdicts) \in {"guard_error", "tripwire", "pass"}
    BY DEF Judged
  <2>2. CASE Judged(verdicts) = "pass"
    BY <1>4, <2>2, SilentTurns DEF Stages
  <2>3. CASE Judged(verdicts) \in Outcomes \ {"max_turns"}
    <3>1. Judged(verdicts) # "pass"
      BY <2>3 DEF Outcomes
    <3> QED  BY <1>4, <2>3, <3>1, SilentTurns
  <2> QED  BY <2>1, <2>2, <2>3 DEF Outcomes
<1>5. CASE me.pc = "turn" /\ st = AtChat(me)
  BY <1>5, SilentTurns
<1>6. CASE me.pc = "chat" /\ st = FinalGiven(r, me)
  BY <1>6, AnswerTurn
<1>7. ASSUME NEW calls \in Answers \ {<<>>}, me.pc = "chat",
             st = CallsAsked(r, me, calls)
      PROVE  TurnsKept(r, st)
  BY <1>7, AskForCallsTurn
<1>8. ASSUME NEW answer \in HandoffTo[me.cur] \cup {"ok", "error"},
             me.pc = "tools", me.calls # <<>>, st = CallDone(r, me, answer)
      PROVE  TurnsKept(r, st)
  BY <1>8, CallTurn
<1>9. CASE /\ me.pc = "tools" /\ me.calls = <<>>
           /\ \/ st = NextTurn(me, me.cur, me.msgs)
              \/ /\ me.next \in Agents \ Misconfigured
                 /\ st = NextTurn(me, me.next,
                                  switchSystemMessage(me.msgs, me.next))
  <2>1. /\ me.cur \in Agents /\ me.msgs \in Seq(Message)
        /\ Headed(me.cur, me.msgs)
    BY <1>9 DEF RunState, LayoutInv
  <2>2. CASE st = NextTurn(me, me.cur, me.msgs)
    <3>1. \A i \in 1 .. Len(Prompt(me.cur)) : IsSystem(me.msgs[i])
      BY <2>1, PromptFacts DEF Headed
    <3> QED  BY <1>9, <2>1, <2>2, <3>1, EndTurnTurn
  <2>3. CASE /\ me.next \in Agents \ Misconfigured
             /\ st = NextTurn(me, me.next,
                              switchSystemMessage(me.msgs, me.next))
    <3> DEFINE msgs == switchSystemMessage(me.msgs, me.next)
    <3>1. me.next \in HandoffTo[me.cur] \ Misconfigured /\ me.next \in Agents
      BY <1>9, <2>3, AgentRunAssumption DEF RunInv, StageInv
    <3>2. Len(Prompt(me.next)) = Len(Prompt(me.cur))
      BY <2>1, <3>1, PromptLength DEF HandoffsKeepPrompt
    <3>3. /\ msgs \in Seq(Message) /\ Headed(me.next, msgs)
          /\ Len(msgs) = Len(me.msgs)
          /\ \A i \in Len(Prompt(me.cur)) + 1 .. Len(msgs) :
               msgs[i] = me.msgs[i]
          /\ \A i \in 1 .. Len(Prompt(me.cur)) : IsSystem(msgs[i])
      BY <2>1, <3>1, <3>2, HeadedSwitch
    <3> HIDE DEF msgs
    <3>4. TurnsKept(r, NextTurn(me, me.next, msgs))
      BY <1>9, <3>1, <3>2, <3>3, EndTurnTurn
    <3> QED  BY <2>3, <3>4 DEF msgs
  <2> QED  BY <1>9, <2>2, <2>3
<1>10. ASSUME NEW outcome \in {"failed", "max_turns"},
              outcome = "max_turns" => me.pc = "turn", st = Ended(me, outcome)
       PROVE  TurnsKept(r, st)
  BY <1>10, SilentTurns DEF Outcomes
<1>11. CASE \/ st = Ended(me, "done")
            \/ st = Ended(me, "carried")
  BY <1>11, SilentTurns DEF Outcomes
<1>12. CASE st = Cancelled(me)
  BY <1>12, SilentTurns
<1> QED
  BY <1>1, <1>2, <1>3, <1>4, <1>5, <1>6, <1>7, <1>8, <1>9, <1>10, <1>11,
     <1>12 DEF Moves

-----------------------------------------------------------------------------
(* The turns stay in order, and what is written to the session is a turn.  *)

LEMMA OutcomeMoves ==
  ASSUME NEW r \in Runs, NEW me \in RunState, RunInv(r, me), NEW st,
         Moves(r, me, st)
  PROVE  \/ st.outcome = me.outcome
         \/ /\ me.outcome = "running"
            /\ st.outcome \in {"failed", "max_turns", "guard_error", "tripwire"}
         \/ /\ me.outcome = "running" /\ me.pc = "persist"
            /\ st.outcome = "done"
         \/ me.outcome = "max_turns" /\ st.outcome = "carried"
<1>1. me.pc # "ended" => me.outcome = "running"
  BY DEF RunInv, StageInv
<1>2. \A outcome : Ended(me, outcome).outcome = outcome
  BY EndedFacts
<1>3. ASSUME NEW verdicts, me.pc \in {"input", "output"},
             st = IF Judged(verdicts) # "pass"
                    THEN Ended(me, Judged(verdicts)) ELSE Past(me)
      PROVE  \/ st.outcome = me.outcome
             \/ /\ me.outcome = "running"
                /\ st.outcome \in {"guard_error", "tripwire"}
  <2>1. Judged(verdicts) \in {"guard_error", "tripwire", "pass"}
    BY DEF Judged
  <2> QED  BY <1>1, <1>2, <1>3, <2>1, SameOutcome
<1>4. ASSUME \/ \E i, v : \/ st = InputVerdict(me, i, v)
                          \/ st = OutputVerdict(me, i, v)
             \/ st = Loaded(r, me, session) \/ st = Prepared(r, me)
             \/ st = AtChat(me) \/ st = FinalGiven(r, me)
             \/ \E calls : st = CallsAsked(r, me, calls)
             \/ \E answer : st = CallDone(r, me, answer)
             \/ \E cur, msgs : st = NextTurn(me, cur, msgs)
             \/ st = Cancelled(me)
      PROVE  st.outcome = me.outcome
  BY <1>4, SameOutcome
<1> QED  BY <1>1, <1>2, <1>3, <1>4 DEF Moves

LEMMA SameLayout ==
  ASSUME TurnsInv, NEW r \in Runs
  PROVE  /\ run[r] \in RunState /\ RunInv(r, run[r])
         /\ LayoutInv(r, run[r]) /\ TurnInv(r, run[r])
         /\ session \in Seq(Message) /\ Plain(session)
  BY StateFacts DEF TurnsInv, IInv, Types, SessionPlain, Plain

LEMMA AdvancesKeepsTurns ==
  ASSUME HandoffsKeepPrompt, NEW r \in Runs, TurnsInv, Advances(r), IInv'
  PROVE  TurnsInv'
<1> DEFINE me == run[r]
           t == Produced(r)
<1>1. /\ me \in RunState /\ RunInv(r, me) /\ LayoutInv(r, me)
      /\ TurnInv(r, me) /\ session \in Seq(Message) /\ Plain(session)
  BY SameLayout
<1>2. Moves(r, me, run'[r])
  BY DEF Advances
<1>3. TurnsKept(r, run'[r])
  <2> HIDE DEF me
  <2> QED  BY <1>1, <1>2, MovesKeepTurns
<1>4. \A q \in Runs \ {r} : run'[q] = run[q]
  BY DEF Advances, TurnsInv, IInv, Types
<1>5. \A q \in Runs : LayoutInv(q, run'[q]) /\ TurnInv(q, run'[q])
  BY <1>3, <1>4 DEF TurnsKept, TurnsInv
<1>6. \A i \in 1 .. Len(session') : ~IsSystem(session'[i])
  <2>1. CASE session' = session
    BY <1>1, <2>1 DEF Plain
  <2>2. CASE /\ session' = session \o t
             /\ run'[r].outcome \in {"done", "carried"}
    <3>1. InTurn(me)
      <4> HIDE DEF me
      <4>1. me.pc = "persist" \/ me.outcome \in {"max_turns", "done", "carried"}
        BY <1>1, <1>2, <2>2, OutcomeMoves
      <4>2. me.outcome \notin {"done", "carried"}
        BY DEF Advances, Over, me
      <4> QED  BY <4>1, <4>2 DEF InTurn, Final
    <3>2. t = Turn(me)
      BY DEF Produced, Turn
    <3> HIDE DEF me, t
    <3>3. t \in Seq(Message) /\ TurnOf(r, t)
      BY <1>1, <3>1, <3>2, TurnSoFar
    <3>4. \A i \in 1 .. Len(t) : ~IsSystem(t[i])
      BY <3>3, TurnSpeakers DEF IsOwn
    <3> QED  BY <1>1, <2>2, <3>3, <3>4, ConcatElements DEF Plain
  <2> QED  BY <2>1, <2>2 DEF Advances
<1> QED  BY <1>5, <1>6 DEF TurnsInv, SessionPlain

LEMMA TurnsInitHolds == Init => TurnsInv
<1> SUFFICES ASSUME Init PROVE TurnsInv
  OBVIOUS
<1>1. ASSUME NEW r \in Runs
      PROVE  LayoutInv(r, run[r]) /\ TurnInv(r, run[r])
  <2>1. /\ run[r].pc = "new" /\ run[r].outcome = "running"
        /\ run[r].cur = StartAgent[r]
    BY DEF Init, NewRun
  <2> QED  BY <2>1 DEF LayoutInv, TurnInv, Open, Final
<1>2. SessionPlain
  BY DEF Init, SessionPlain
<1> QED  BY <1>1, <1>2, InitHolds DEF TurnsInv

LEMMA StepKeepsTurns ==
  ASSUME HandoffsKeepPrompt, TurnsInv, [Next]_vars
  PROVE  TurnsInv'
<1>1. IInv /\ IInv'
  BY StepKeepsIInv DEF TurnsInv
<1>2. ASSUME NEW r \in Runs, StepOf(r) PROVE TurnsInv'
  BY <1>1, <1>2, StepAdvances, AdvancesKeepsTurns
<1>3. CASE UNCHANGED vars
  BY <1>1, <1>3 DEF vars, TurnsInv, SessionPlain
<1> QED  BY <1>2, <1>3 DEF Next, StepOf, Terminated

THEOREM TurnInvariance ==
  ASSUME HandoffsKeepPrompt
  PROVE  Spec => []TurnsInv
<1>1. Init => TurnsInv
  BY TurnsInitHolds
<1>2. TurnsInv /\ [Next]_vars => TurnsInv'
  BY StepKeepsTurns
<1> QED  BY <1>1, <1>2, PTL DEF Spec

-----------------------------------------------------------------------------
(* Calls and their results.                                                *)

(* The message at i asks for nothing, or has its results up to b.          *)
CallsKept(s, i, b) ==
  s[i].role = "assistant" =>
    /\ i + Len(s[i].calls) <= b
    /\ \A k \in 1 .. Len(s[i].calls) : IsResultOf(s[i + k], s[i], k)
ResultKept(s, j) == ResultHasCall(s, j) \/ CutOff(s, j)

(* Among the first b messages of s each call has its result and each       *)
(* result its call, but for those the compressor cut off.                  *)
Tidy(s, b) == \A i \in 1 .. b : CallsKept(s, i, b) /\ ResultKept(s, i)

LEMMA ResultsFollow ==
  ASSUME NEW r \in Runs, NEW t \in Seq(Message), TurnOf(r, t), Answered(t),
         NEW i \in 1 .. Len(t), t[i].role = "assistant",
         NEW n, n = Len(t[i].calls)
  PROVE  /\ n \in Nat /\ i + n <= Len(t)
         /\ \A k \in 1 .. n : IsResultOf(t[i + k], t[i], k)
<1>1. n \in Nat
  BY CallsOf
<1>2. i + n <= Len(t) /\ \A j \in i + 1 .. i + n : t[j].role = "tool"
  BY DEF Answered
<1>3. t[i].run = r
  <2>1. t[1].role = "user"
    BY DEF TurnOf, User
  <2>2. i \in 2 .. Len(t)
    BY <2>1
  <2> QED  BY <2>2 DEF TurnOf
<1>4. \A k \in 1 .. n : IsResultOf(t[i + k], t[i], k)
  <2> DEFINE Wrong == {k \in 1 .. n : ~IsResultOf(t[i + k], t[i], k)}
  <2> SUFFICES ASSUME Wrong # {} PROVE FALSE
    OBVIOUS
  <2>1. Wrong \subseteq Nat
    OBVIOUS
  <2>2. PICK k \in Wrong : \A other \in Wrong : k <= other
    <3> HIDE DEF Wrong
    <3> QED  BY <2>1, LeastNatural
  <2>3. k \in 1 .. n /\ ~IsResultOf(t[i + k], t[i], k)
    BY <2>2
  <2>4. k = 1 \/ IsResultOf(t[i + (k - 1)], t[i], k - 1)
    <3> SUFFICES ASSUME k # 1 PROVE IsResultOf(t[i + (k - 1)], t[i], k - 1)
      OBVIOUS
    <3>1. k - 1 \in 1 .. n /\ ~(k <= k - 1)
      BY <1>1, <2>3
    <3> QED  BY <2>2, <3>1
  <2> HIDE DEF Wrong
  <2>5. i + k \in 2 .. Len(t) /\ i + k - 1 = i + (k - 1)
        /\ i + k \in i + 1 .. i + n
    BY <1>1, <1>2, <2>3
  <2> DEFINE m == t[i + k]
             prior == t[i + (k - 1)]
  <2>6. /\ m.role = "tool" /\ m.run = r
        /\ m.turn = prior.turn
        /\ m.call = IF prior.role = "tool" THEN prior.call + 1 ELSE 1
    <3>1. \A q \in 2 .. Len(t) : t[q].role = "tool" =>
            /\ t[q].run = r /\ t[q].turn = t[q - 1].turn
            /\ t[q].call = IF t[q - 1].role = "tool" THEN t[q - 1].call + 1
                                                     ELSE 1
      BY DEF TurnOf
    <3>2. m.role = "tool"
      BY <1>2, <2>5
    <3>3. t[i + k - 1] = prior
      BY <2>5
    <3> DEFINE q == i + k
    <3>4. q \in 2 .. Len(t) /\ m = t[q] /\ prior = t[q - 1]
      BY <2>3, <2>5, <3>3
    <3> HIDE DEF q, m, prior
    <3> QED  BY <3>1, <3>2, <3>4
  <2>7. CASE k = 1
    <3>1. prior = t[i]
      BY <2>7
    <3> QED  BY <1>3, <2>3, <2>6, <2>7, <3>1 DEF IsResultOf
  <2>8. CASE IsResultOf(prior, t[i], k - 1)
    <3>1. m.call = k - 1 + 1 /\ m.turn = t[i].turn
      BY <2>6, <2>8 DEF IsResultOf
    <3>2. k - 1 + 1 = k
      BY <2>3
    <3> QED  BY <1>3, <2>3, <2>6, <3>1, <3>2 DEF IsResultOf
  <2> QED  BY <2>4, <2>7, <2>8
<1> QED  BY <1>1, <1>2, <1>4

LEMMA ResultsAsked ==
  ASSUME NEW r \in Runs, NEW t \in Seq(Message), TurnOf(r, t), Answered(t),
         NEW j \in 1 .. Len(t)
  PROVE  ResultHasCall(t, j)
<1> DEFINE Wrong == {k \in 1 .. Len(t) : ~ResultHasCall(t, k)}
<1> SUFFICES ASSUME Wrong # {} PROVE FALSE
  OBVIOUS
<1>1. Wrong \subseteq Nat
  OBVIOUS
<1>2. PICK k \in Wrong : \A other \in Wrong : k <= other
  <2> HIDE DEF Wrong
  <2> QED  BY <1>1, LeastNatural
<1>3. k \in 1 .. Len(t) /\ ~ResultHasCall(t, k)
  BY <1>2
<1>4. k - 1 \in 1 .. Len(t) => ResultHasCall(t, k - 1)
  <2>1. ~(k <= k - 1)
    BY <1>3
  <2> QED  BY <1>2, <2>1
<1> HIDE DEF Wrong
<1>5. /\ t[k].role = "tool"
      /\ \A i \in 1 .. k - 1 :
           t[i].role = "assistant" => ~(k <= i + Len(t[i].calls))
  BY <1>3 DEF ResultHasCall
<1>6. k \in 2 .. Len(t) /\ k - 1 \in 1 .. Len(t)
  <2>1. t[1].role = "user"
    BY DEF TurnOf, User
  <2> QED  BY <1>3, <1>5, <2>1
<1>7. \A i \in 1 .. k - 1 :
        ~(t[i].role = "assistant" /\ i + Len(t[i].calls) = k - 1)
  <2> SUFFICES ASSUME NEW i \in 1 .. k - 1, t[i].role = "assistant",
                      NEW n, n = Len(t[i].calls), i + n = k - 1
               PROVE  FALSE
    OBVIOUS
  <2>1. i \in 1 .. Len(t) /\ i + n < Len(t) /\ i + n + 1 = k
    BY <1>3
  <2>2. t[i + n + 1].role = "assistant"
    BY <2>1 DEF Answered
  <2> QED  BY <1>5, <2>1, <2>2
<1>8. t[k - 1].role = "assistant" \/ t[k - 1].role = "tool"
  BY <1>5, <1>6 DEF TurnOf
<1>9. CASE t[k - 1].role = "assistant"
  <2> DEFINE n == Len(t[k - 1].calls)
  <2>1. n \in Nat
    BY <1>6, <1>9, CallsOf
  <2>2. k - 1 \in 1 .. k - 1 /\ n # 0
    <3>1. k - 1 \in 1 .. k - 1
      BY <1>6
    <3>2. k - 1 + n # k - 1
      BY <1>7, <1>9, <3>1
    <3> QED  BY <1>6, <3>1, <3>2
  <2>3. ~(k <= k - 1 + n)
    BY <1>5, <1>9, <2>2
  <2> HIDE DEF n
  <2> QED  BY <1>6, <2>1, <2>2, <2>3
<1>10. CASE t[k - 1].role = "tool"
  <2>1. PICK i \in 1 .. k - 1 - 1 :
          t[i].role = "assistant" /\ k - 1 <= i + Len(t[i].calls)
    BY <1>4, <1>6, <1>10 DEF ResultHasCall
  <2> DEFINE n == Len(t[i].calls)
  <2>2. i \in 1 .. Len(t) /\ i \in 1 .. k - 1
    BY <1>6, <2>1
  <2>3. n \in Nat
    BY <2>1, <2>2, CallsOf
  <2>4. ~(k <= i + n) /\ i + n # k - 1 /\ k - 1 <= i + n
    BY <1>5, <1>7, <2>1, <2>2
  <2> HIDE DEF n
  <2> QED  BY <1>6, <2>2, <2>3, <2>4
<1> QED  BY <1>8, <1>9, <1>10

LEMMA TidyTurn ==
  ASSUME NEW r \in Runs, NEW t \in Seq(Message), TurnOf(r, t), Answered(t)
  PROVE  Tidy(t, Len(t))
<1> SUFFICES ASSUME NEW i \in 1 .. Len(t)
             PROVE  CallsKept(t, i, Len(t)) /\ ResultKept(t, i)
  BY DEF Tidy
<1>1. CallsKept(t, i, Len(t))
  BY ResultsFollow DEF CallsKept
<1>2. ResultKept(t, i)
  BY ResultsAsked DEF ResultKept
<1> QED  BY <1>1, <1>2

(* What stands in s from i + d on stands in t from i on.                   *)
LEMMA CallsShift ==
  ASSUME NEW s, NEW t, NEW i \in Nat, NEW b \in Nat, NEW d \in Int, i <= b,
         t[i].role = "assistant" => Len(t[i].calls) \in Nat,
         \A k \in i .. b : t[k] = s[k + d],
         CallsKept(s, i + d, b + d)
  PROVE  CallsKept(t, i, b)
<1> SUFFICES ASSUME t[i].role = "assistant", NEW n, n = Len(t[i].calls)
             PROVE  /\ i + n <= b
                    /\ \A k \in 1 .. n : IsResultOf(t[i + k], t[i], k)
  BY DEF CallsKept
<1>1. n \in Nat /\ t[i] = s[i + d]
  OBVIOUS
<1>2. /\ i + d + n <= b + d
      /\ \A k \in 1 .. n : IsResultOf(s[i + d + k], t[i], k)
  BY <1>1 DEF CallsKept
<1>3. i + n <= b
  <2>1. \A m \in Nat : i + d + m <= b + d => i + m <= b
    OBVIOUS
  <2> QED  BY <1>1, <1>2, <2>1
<1>4. ASSUME NEW k \in 1 .. n PROVE t[i + k] = s[i + d + k]
  <2>1. i + k \in i .. b /\ i + k + d = i + d + k
    BY <1>1, <1>3
  <2>2. t[i + k] = s[i + k + d]
    BY <2>1
  <2> QED  BY <2>1, <2>2
<1> QED  BY <1>2, <1>3, <1>4

(* t stands d messages before its place in s, with system messages alone   *)
(* in front of what they share, where the compressor may have cut s.       *)
LEMMA TidyShift ==
  ASSUME NEW s \in Seq(Message), NEW t \in Seq(Message), NEW p \in Nat,
         NEW d \in Int, NEW b \in Nat, p <= b, b <= Len(t),
         p + d >= 0, b + d <= Len(s),
         \A i \in 1 .. p : t[i].role = "system",
         \A i \in p + 1 .. b : t[i] = s[i + d],
         Keep > 0 \/ \A i \in 1 .. p + d : s[i].role # "assistant",
         Tidy(s, b + d)
  PROVE  Tidy(t, b)
<1>1. ASSUME NEW i \in 1 .. b, i <= p
      PROVE  CallsKept(t, i, b) /\ ResultKept(t, i)
  <2>1. t[i].role = "system"
    BY <1>1
  <2> QED  BY <2>1 DEF CallsKept, ResultKept, ResultHasCall
<1>2. ASSUME NEW i \in p + 1 .. b
      PROVE  CallsKept(t, i, b) /\ ResultKept(t, i)
  <2>1. /\ i + d \in 1 .. b + d /\ i + d \in 1 .. Len(s) /\ t[i] = s[i + d]
        /\ i \in 1 .. Len(t) /\ i \in 1 .. b
    OBVIOUS
  <2>2. CallsKept(s, i + d, b + d) /\ ResultKept(s, i + d)
    BY <2>1 DEF Tidy
  <2>3. CallsKept(t, i, b)
    <3>1. t[i].role = "assistant" => Len(t[i].calls) \in Nat
      BY <2>1, CallsOf
    <3>2. \A k \in i .. b : t[k] = s[k + d]
      OBVIOUS
    <3>3. i \in Nat /\ i <= b
      OBVIOUS
    <3> QED  BY <2>2, <3>1, <3>2, <3>3, CallsShift
  <2>4. ResultKept(t, i)
    <3> SUFFICES ASSUME t[i].role = "tool" PROVE ResultKept(t, i)
      BY DEF ResultKept, ResultHasCall
    <3>1. CASE CutOff(s, i + d)
      <4>1. Keep > 0 /\ \A k \in 1 .. i + d :
              s[k].role = "system" \/ s[k].role = "tool"
        BY <3>1 DEF CutOff
      <4>2. ASSUME NEW k \in 1 .. i
            PROVE  t[k].role = "system" \/ t[k].role = "tool"
        <5>1. CASE k <= p
          BY <5>1
        <5>2. CASE ~(k <= p)
          <6>1. k \in p + 1 .. b /\ k + d \in 1 .. i + d
            BY <5>2
          <6> QED  BY <4>1, <6>1
        <5> QED  BY <5>1, <5>2
      <4> QED  BY <4>1, <4>2 DEF ResultKept, CutOff
    <3>2. CASE ResultHasCall(s, i + d)
      <4>1. PICK q \in 1 .. i + d - 1 :
              s[q].role = "assistant" /\ i + d <= q + Len(s[q].calls)
        BY <2>1, <3>2 DEF ResultHasCall
      <4> DEFINE n == Len(s[q].calls)
      <4>2. q \in 1 .. b + d /\ q \in 1 .. Len(s)
        BY <2>1, <4>1
      <4>3. n \in Nat
        BY <4>1, <4>2, CallsOf
      <4>4. /\ \A k \in 1 .. n : IsResultOf(s[q + k], s[q], k)
            /\ s[q].role = "assistant" /\ i + d <= q + n
        BY <4>1, <4>2 DEF Tidy, CallsKept
      <4>5. CASE q > p + d
        <5>1. q - d \in p + 1 .. b /\ q - d \in 1 .. i - 1 /\ q - d + d = q
              /\ i <= q - d + n
          BY <2>1, <4>2, <4>3, <4>4, <4>5
        <5>2. t[q - d] = s[q]
          BY <5>1
        <5>3. t[q - d].role = "assistant" /\ i <= q - d + Len(t[q - d].calls)
          BY <4>4, <5>1, <5>2
        <5> QED  BY <5>1, <5>3 DEF ResultKept, ResultHasCall
      <4>6. CASE ~(q > p + d)
        <5>1. q \in 1 .. p + d
          BY <4>2, <4>6
        <5>2. Keep > 0
          BY <4>4, <5>1
        <5> HIDE DEF n
        <5>3. ASSUME NEW k \in 1 .. i
              PROVE  t[k].role = "system" \/ t[k].role = "tool"
          <6>1. CASE k <= p
            BY <6>1
          <6>2. CASE ~(k <= p)
            <7>1. k \in p + 1 .. b /\ k + d - q \in 1 .. n
                  /\ q + (k + d - q) = k + d
              <8>1. i + d <= q + n /\ q \in Nat /\ q <= p + d
                BY <4>4, <5>1
              <8>2. k \in Nat /\ k <= i /\ k > p
                BY <6>2
              <8> QED  BY <4>3, <8>1, <8>2
            <7>2. t[k] = s[q + (k + d - q)]
              BY <7>1
            <7>3. IsResultOf(s[q + (k + d - q)], s[q], k + d - q)
              BY <4>4, <7>1
            <7> QED  BY <7>2, <7>3 DEF IsResultOf
          <6> QED  BY <6>1, <6>2
        <5> QED  BY <5>2, <5>3 DEF ResultKept, CutOff
      <4> QED  BY <4>5, <4>6
    <3> QED  BY <2>2, <3>1, <3>2 DEF ResultKept
  <2> QED  BY <2>3, <2>4
<1>3. \A i \in 1 .. b : i <= p \/ i \in p + 1 .. b
  OBVIOUS
<1> QED  BY <1>1, <1>2, <1>3 DEF Tidy

(* A conversation whose tail t is tidy by itself and opens with an input.  *)
LEMMA TidyJoin ==
  ASSUME NEW s \in Seq(Message), NEW t \in Seq(Message),
         NEW b \in 0 .. Len(s), Len(t) = Len(s) - b,
         \A i \in 1 .. Len(t) : t[i] = s[b + i],
         t # <<>> => t[1].role = "user",
         Tidy(s, b), Tidy(t, Len(t))
  PROVE  Tidy(s, Len(s))
<1>1. ASSUME NEW i \in 1 .. b
      PROVE  CallsKept(s, i, Len(s)) /\ ResultKept(s, i)
  <2>1. CallsKept(s, i, b) /\ ResultKept(s, i) /\ i \in 1 .. Len(s)
    BY DEF Tidy
  <2>2. CallsKept(s, i, Len(s))
    <3> SUFFICES ASSUME s[i].role = "assistant", NEW n, n = Len(s[i].calls)
                 PROVE  /\ i + n <= Len(s)
                        /\ \A k \in 1 .. n : IsResultOf(s[i + k], s[i], k)
      BY DEF CallsKept
    <3>1. n \in Nat
      BY <2>1, CallsOf
    <3>2. i + n <= b /\ \A k \in 1 .. n : IsResultOf(s[i + k], s[i], k)
      BY <2>1 DEF CallsKept
    <3> QED  BY <3>1, <3>2
  <2> QED  BY <2>1, <2>2
<1>2. ASSUME NEW i \in b + 1 .. Len(s)
      PROVE  CallsKept(s, i, Len(s)) /\ ResultKept(s, i)
  <2> DEFINE h == i - b
  <2>1. h \in 1 .. Len(t) /\ i = b + h /\ t[h] = s[i]
    OBVIOUS
  <2>2. CallsKept(t, h, Len(t)) /\ ResultKept(t, h)
    BY <2>1 DEF Tidy
  <2> HIDE DEF h
  <2>3. CallsKept(s, i, Len(s))
    <3>1. s[i].role = "assistant" => Len(s[i].calls) \in Nat
      BY CallsOf
    <3>2. \A k \in i .. Len(s) : s[k] = t[k + (-b)]
      <4> SUFFICES ASSUME NEW k \in i .. Len(s) PROVE s[k] = t[k + (-b)]
        OBVIOUS
      <4>1. k - b \in 1 .. Len(t) /\ b + (k - b) = k /\ k + (-b) = k - b
        OBVIOUS
      <4> QED  BY <4>1
    <3>3. i \in Nat /\ i <= Len(s) /\ Len(s) \in Nat /\ -b \in Int
      OBVIOUS
    <3>4. i + (-b) = h /\ Len(s) + (-b) = Len(t)
      <4>1. i + (-b) = i - b /\ Len(s) + (-b) = Len(s) - b
        OBVIOUS
      <4> QED  BY <4>1 DEF h
    <3>5. CallsKept(t, i + (-b), Len(s) + (-b))
      BY <2>2, <3>4
    <3> QED  BY <3>1, <3>2, <3>3, <3>5, CallsShift
  <2>4. ResultKept(s, i)
    <3> SUFFICES ASSUME s[i].role = "tool" PROVE ResultHasCall(s, i)
      BY DEF ResultKept, ResultHasCall
    <3>1. ~CutOff(t, h)
      <4>1. t[1].role = "user" /\ 1 \in 1 .. h
        BY <2>1
      <4> QED  BY <4>1 DEF CutOff
    <3>2. PICK q \in 1 .. h - 1 :
            t[q].role = "assistant" /\ h <= q + Len(t[q].calls)
      BY <2>1, <2>2, <3>1 DEF ResultKept, ResultHasCall
    <3>3. q \in 1 .. Len(t) /\ b + q \in 1 .. i - 1
      BY <2>1, <3>2
    <3>4. s[b + q] = t[q] /\ Len(t[q].calls) \in Nat
      BY <3>2, <3>3, CallsOf
    <3>5. i <= b + q + Len(t[q].calls)
      <4> DEFINE n == Len(t[q].calls)
      <4>1. h <= q + n /\ i = b + h /\ h \in Nat /\ q \in Nat /\ n \in Nat
        BY <2>1, <3>2, <3>4
      <4> HIDE DEF n
      <4>2. i <= b + q + n
        BY <4>1
      <4> QED  BY <4>2 DEF n
    <3> QED  BY <3>2, <3>3, <3>4, <3>5 DEF ResultHasCall
  <2> QED  BY <2>3, <2>4
<1>3. \A i \in 1 .. Len(s) : i \in 1 .. b \/ i \in b + 1 .. Len(s)
  OBVIOUS
<1> QED  BY <1>1, <1>2, <1>3 DEF Tidy

-----------------------------------------------------------------------------
(* What the moves make of the history.                                     *)

LEMMA ConcatLength ==
  ASSUME NEW s \in Seq(Message), NEW t \in Seq(Message)
  PROVE  s \o t \in Seq(Message) /\ Len(s \o t) = Len(s) + Len(t)
  OBVIOUS

(* s from q on, behind the prompt of a.                                    *)
LEMMA TidyPrompt ==
  ASSUME NEW a \in Agents, NEW s \in Seq(Message), NEW q \in 0 .. Len(s),
         NEW tail \in Seq(Message), Len(tail) = Len(s) - q,
         \A i \in 1 .. Len(tail) : tail[i] = s[q + i],
         Keep > 0 \/ q = 0, Tidy(s, Len(s)),
         NEW t, t = Prompt(a) \o tail
  PROVE  t \in Seq(Message) /\ Tidy(t, Len(t))
<1> DEFINE p == Len(Prompt(a))
           d == q - p
           b == Len(t)
<1>1. Prompt(a) \in Seq(Message) /\ p \in Nat
  BY PromptLength
<1>2. \A i \in 1 .. p : Prompt(a)[i].role = "system"
  BY PromptFacts DEF IsSystem
<1>3. /\ t \in Seq(Message) /\ b = p + Len(tail)
      /\ \A i \in 1 .. p : t[i] = Prompt(a)[i]
      /\ \A i \in 1 .. Len(tail) : t[p + i] = tail[i]
  <2> DEFINE prompt == Prompt(a)
  <2>1. prompt \in Seq(Message) /\ p = Len(prompt) /\ t = prompt \o tail
    BY <1>1
  <2> HIDE DEF prompt, p
  <2>2. t \in Seq(Message) /\ Len(t) = p + Len(tail)
    BY <2>1, ConcatLength
  <2>3. \A i \in 1 .. p : t[i] = prompt[i]
    BY <2>1
  <2>4. \A i \in 1 .. Len(tail) : t[p + i] = tail[i]
    BY <2>1
  <2> QED  BY <2>2, <2>3, <2>4 DEF prompt
<1>4. \A i \in 1 .. p : t[i].role = "system"
  BY <1>2, <1>3
<1> HIDE DEF p
<1>5. /\ d \in Int /\ b \in Nat /\ p <= b /\ b <= Len(t) /\ p + d = q
      /\ b + d = Len(s) /\ p + d >= 0 /\ b + d <= Len(s)
  BY <1>1, <1>3
<1>6. ASSUME NEW i \in p + 1 .. b PROVE t[i] = s[i + d]
  <2>1. i - p \in 1 .. Len(tail) /\ p + (i - p) = i /\ q + (i - p) = i + d
    BY <1>1, <1>3
  <2>2. t[p + (i - p)] = tail[i - p] /\ tail[i - p] = s[q + (i - p)]
    BY <1>3, <2>1
  <2> QED  BY <2>1, <2>2
<1> HIDE DEF b, d
<1>7. Tidy(s, b + d)
  BY <1>5
<1>8. Keep > 0 \/ \A i \in 1 .. p + d : s[i].role # "assistant"
  BY <1>5
<1>9. Tidy(t, b)
  BY <1>1, <1>3, <1>4, <1>5, <1>6, <1>7, <1>8, TidyShift
<1> QED  BY <1>3, <1>9 DEF b

LEMMA TidyBegin ==
  ASSUME NEW a \in Agents, NEW s \in Seq(Message), Plain(s), Tidy(s, Len(s)),
         NEW t, t = withInstructions(a, s)
  PROVE  Tidy(t, Len(t))
<1>1. Leading(s) = 0
  BY LeadingFacts DEF Plain
<1>2. t = Prompt(a) \o s
  BY <1>1 DEF withInstructions
<1>3. 0 \in 0 .. Len(s) /\ Len(s) = Len(s) - 0
      /\ \A i \in 1 .. Len(s) : s[i] = s[0 + i]
  OBVIOUS
<1> QED  BY <1>2, <1>3, TidyPrompt

LEMMA TidyCompressed ==
  ASSUME NEW a \in Agents, NEW s \in Seq(Message), Headed(a, s),
         Tidy(s, Len(s)), NEW t, t = Compressed(s)
  PROVE  Tidy(t, Len(t))
<1> DEFINE rest == Rest(s)
           tail == SubSeq(rest, Len(rest) - Keep + 1, Len(rest))
           p == Len(Prompt(a))
           q == Len(s) - Keep
<1>1. /\ rest \in Seq(Message) /\ Systems(s) = Prompt(a)
      /\ Len(rest) = Len(s) - p
      /\ \A i \in p + 1 .. Len(s) :
           i - p \in 1 .. Len(rest) /\ rest[i - p] = s[i]
  BY HeadedRest, HeadedLeading
<1>2. t = IF Keep = 0 \/ Len(rest) <= Keep THEN s ELSE Prompt(a) \o tail
  BY <1>1 DEF Compressed
<1>3. p \in Nat /\ Keep \in Nat
  BY PromptLength, AgentRunAssumption
<1> HIDE DEF rest, p
<1>4. CASE ~(Keep = 0 \/ Len(rest) <= Keep)
  <2>1. Len(rest) - Keep + 1 \in 1 .. Len(rest) + 1 /\ Keep > 0
    BY <1>1, <1>3, <1>4
  <2>2. /\ tail \in Seq(Message)
        /\ Len(tail) = Len(rest) - (Len(rest) - Keep + 1) + 1
        /\ \A i \in 1 .. Len(rest) - (Len(rest) - Keep + 1) + 1 :
             tail[i] = rest[Len(rest) - Keep + 1 + i - 1]
    BY <1>1, <2>1, SubSeqElements
  <2> HIDE DEF tail
  <2>3. Len(tail) = Keep /\ \A i \in 1 .. Keep : tail[i] = rest[Len(rest) - Keep + i]
    <3>1. Len(rest) - (Len(rest) - Keep + 1) + 1 = Keep
      BY <1>1, <1>3
    <3>2. \A i \in 1 .. Keep :
            Len(rest) - Keep + 1 + i - 1 = Len(rest) - Keep + i
      BY <1>1, <1>3
    <3> QED  BY <2>2, <3>1, <3>2
  <2>4. q \in 0 .. Len(s) /\ Len(tail) = Len(s) - q
    BY <1>1, <1>3, <1>4, <2>3
  <2>5. ASSUME NEW i \in 1 .. Len(tail) PROVE tail[i] = s[q + i]
    <3> DEFINE j == q + i
    <3>1. j \in p + 1 .. Len(s) /\ j - p = Len(rest) - Keep + i
      BY <1>1, <1>3, <1>4, <2>3
    <3> HIDE DEF j
    <3>2. tail[i] = rest[j - p]
      BY <2>3, <3>1
    <3>3. rest[j - p] = s[j]
      BY <1>1, <3>1
    <3> QED  BY <3>2, <3>3 DEF j
  <2> HIDE DEF q
  <2> QED  BY <1>2, <1>4, <2>1, <2>2, <2>4, <2>5, TidyPrompt
<1> QED  BY <1>2, <1>4

LEMMA TidyAppend ==
  ASSUME NEW s \in Seq(Message), NEW m \in Message, NEW b \in 0 .. Len(s),
         Tidy(s, b), NEW t, t = Append(s, m)
  PROVE  Tidy(t, b)
<1>1. /\ t \in Seq(Message) /\ Len(t) = Len(s) + 1
      /\ \A i \in 1 .. Len(s) : t[i] = s[i]
  BY AppendFacts
<1>2. /\ 0 \in Nat /\ 0 \in Int /\ b \in Nat /\ 0 <= b /\ b <= Len(t)
      /\ 0 + 0 >= 0 /\ b + 0 <= Len(s) /\ b + 0 = b
  BY <1>1
<1>3. \A i \in 0 + 1 .. b : t[i] = s[i + 0]
  BY <1>1
<1>4. /\ \A i \in 1 .. 0 : t[i].role = "system"
      /\ \A i \in 1 .. 0 + 0 : s[i].role # "assistant"
  OBVIOUS
<1> QED  BY <1>1, <1>2, <1>3, <1>4, TidyShift

LEMMA TidySwitch ==
  ASSUME NEW a \in Agents, NEW c \in Agents, NEW s \in Seq(Message),
         Headed(a, s), Len(Prompt(c)) = Len(Prompt(a)),
         NEW b \in Len(Prompt(a)) .. Len(s), Tidy(s, b),
         NEW t, t = switchSystemMessage(s, c)
  PROVE  Tidy(t, b)
<1> DEFINE p == Len(Prompt(a))
<1>1. /\ t \in Seq(Message) /\ Len(t) = Len(s)
      /\ \A i \in p + 1 .. Len(s) : t[i] = s[i]
      /\ \A i \in 1 .. p : t[i].role = "system"
  BY HeadedSwitch DEF IsSystem
<1>2. p \in Nat /\ \A i \in 1 .. p : s[i].role # "assistant"
  <2>1. p \in {0, 1} /\ \A i \in 1 .. p : i \in 1 .. Len(s) /\ s[i] = System(a)
    BY PromptFacts DEF Headed
  <2> QED  BY <2>1 DEF System
<1>3. b \in p .. Len(s)
  OBVIOUS
<1> HIDE DEF p
<1>4. /\ 0 \in Int /\ b \in Nat /\ p <= b /\ b <= Len(t) /\ p + 0 = p
      /\ p + 0 >= 0 /\ b + 0 <= Len(s) /\ b + 0 = b
  BY <1>1, <1>2, <1>3
<1>5. \A i \in p + 1 .. b : t[i] = s[i + 0]
  BY <1>1, <1>2, <1>3
<1> QED  BY <1>1, <1>2, <1>4, <1>5, TidyShift

(* A history is tidy where the run hears it: all it was told before its    *)
(* turn, and what stands before the turn.                                  *)
HistoryInv(me) ==
  /\ me.pc = "compress" => Tidy(me.msgs, Len(me.msgs))
  /\ InTurn(me) => Tidy(me.msgs, me.base)

PairedInv ==
  /\ TurnsInv /\ Tidy(session, Len(session))
  /\ \A r \in Runs : HistoryInv(run[r])

LEMMA SilentHistory ==
  ASSUME NEW me, HistoryInv(me), NEW st,
         st.msgs = me.msgs, st.base = me.base,
         st.pc = "compress" => me.pc = "compress", InTurn(st) => InTurn(me)
  PROVE  HistoryInv(st)
  BY DEF HistoryInv

LEMMA SilentHistories ==
  ASSUME NEW me \in RunState, HistoryInv(me)
  PROVE  /\ \A i, v : /\ HistoryInv(InputVerdict(me, i, v))
                      /\ HistoryInv(OutputVerdict(me, i, v))
         /\ me.pc \in Stages => HistoryInv(Past(me))
         /\ me.pc = "turn" => HistoryInv(AtChat(me))
         /\ HistoryInv(Cancelled(me))
         /\ \A outcome : (outcome = "max_turns" => me.pc = "turn") =>
              HistoryInv(Ended(me, outcome))
         /\ me.pc = "tools" => HistoryInv(NextTurn(me, me.cur, me.msgs))
<1>1. ASSUME NEW st, st.msgs = me.msgs, st.base = me.base, st.pc = me.pc,
             st.outcome = me.outcome
      PROVE  HistoryInv(st)
  <2>1. InTurn(st) <=> InTurn(me)
    BY <1>1 DEF InTurn, Open, Final
  <2> QED  BY <1>1, <2>1, SilentHistory
<1>2. ASSUME NEW st, st.msgs = me.msgs, st.base = me.base, InTurn(me),
             st.pc # "compress"
      PROVE  HistoryInv(st)
  BY <1>2, SilentHistory
<1>3. ASSUME NEW i, NEW v
      PROVE  /\ HistoryInv(InputVerdict(me, i, v))
             /\ HistoryInv(OutputVerdict(me, i, v))
  <2> DEFINE a == InputVerdict(me, i, v)
             b == OutputVerdict(me, i, v)
  <2>1. /\ a.msgs = me.msgs /\ a.base = me.base /\ a.pc = me.pc
        /\ a.outcome = me.outcome
    BY DEF InputVerdict, RunState
  <2>2. /\ b.msgs = me.msgs /\ b.base = me.base /\ b.pc = me.pc
        /\ b.outcome = me.outcome
    BY DEF OutputVerdict, RunState
  <2> HIDE DEF a, b
  <2>3. HistoryInv(a) /\ HistoryInv(b)
    BY <1>1, <2>1, <2>2
  <2> QED  BY <2>3 DEF a, b
<1>4. HistoryInv(Cancelled(me))
  <2> DEFINE st == Cancelled(me)
  <2>1. /\ st.msgs = me.msgs /\ st.base = me.base /\ st.pc = me.pc
        /\ st.outcome = me.outcome
    BY DEF Cancelled, RunState
  <2> HIDE DEF st
  <2>2. HistoryInv(st)
    BY <1>1, <2>1
  <2> QED  BY <2>2 DEF st
<1>5. ASSUME me.pc \in Stages PROVE HistoryInv(Past(me))
  <2> DEFINE st == Past(me)
  <2>1. st.msgs = me.msgs /\ st.base = me.base /\ st.pc # "compress"
    BY DEF Past, RunState
  <2> HIDE DEF st
  <2>2. InTurn(me)
    BY <1>5 DEF InTurn, Open, Final, Stages
  <2>3. HistoryInv(st)
    BY <1>2, <2>1, <2>2
  <2> QED  BY <2>3 DEF st
<1>6. ASSUME me.pc = "turn" PROVE HistoryInv(AtChat(me))
  <2> DEFINE st == AtChat(me)
  <2>1. st.msgs = me.msgs /\ st.base = me.base /\ st.pc # "compress"
    BY DEF AtChat, RunState
  <2> HIDE DEF st
  <2>2. InTurn(me)
    BY <1>6 DEF InTurn, Open
  <2>3. HistoryInv(st)
    BY <1>2, <2>1, <2>2
  <2> QED  BY <2>3 DEF st
<1>7. ASSUME NEW outcome, outcome = "max_turns" => me.pc = "turn"
      PROVE  HistoryInv(Ended(me, outcome))
  <2> DEFINE st == Ended(me, outcome)
  <2>1. /\ st.msgs = me.msgs /\ st.base = me.base /\ st.pc = "ended"
        /\ st.outcome = outcome
    BY EndedFacts
  <2> HIDE DEF st
  <2>2. InTurn(st) => InTurn(me)
    BY <1>7, <2>1 DEF InTurn, Open, Final
  <2>3. HistoryInv(st)
    BY <2>1, <2>2, SilentHistory
  <2> QED  BY <2>3 DEF st
<1>8. ASSUME me.pc = "tools" PROVE HistoryInv(NextTurn(me, me.cur, me.msgs))
  <2> DEFINE st == NextTurn(me, me.cur, me.msgs)
  <2>1. st.msgs = me.msgs /\ st.base = me.base /\ st.pc # "compress"
    BY DEF NextTurn, RunState
  <2> HIDE DEF st
  <2>2. InTurn(me)
    BY <1>8 DEF InTurn, Open
  <2>3. HistoryInv(st)
    BY <1>2, <2>1, <2>2
  <2> QED  BY <2>3 DEF st
<1> QED  BY <1>3, <1>4, <1>5, <1>6, <1>7, <1>8

(* The moves that add the message m to the turn.                           *)
LEMMA SaysHistory ==
  ASSUME NEW r \in Runs, NEW me \in RunState, LayoutInv(r, me),
         HistoryInv(me), me.pc = "chat" \/ me.pc = "tools",
         NEW m \in Message, NEW st, st.msgs = Append(me.msgs, m),
         st.base = me.base, st.pc # "compress"
  PROVE  HistoryInv(st)
<1>1. InTurn(me)
  BY DEF InTurn, Open
<1>2. /\ me.msgs \in Seq(Message) /\ me.base \in 0 .. Len(me.msgs)
      /\ Tidy(me.msgs, me.base)
  <2>1. me.msgs \in Seq(Message) /\ me.base \in 0 .. Len(me.msgs) - 1
    BY <1>1, TurnFacts
  <2> QED  BY <1>1, <2>1 DEF HistoryInv
<1>3. Tidy(st.msgs, me.base)
  BY <1>2, TidyAppend
<1> QED  BY <1>3 DEF HistoryInv

LEMMA BeginHistory ==
  ASSUME NEW r \in Runs, NEW me \in RunState, RunInv(r, me), me.pc = "new",
         NEW heard \in Seq(Message), Plain(heard), Tidy(heard, Len(heard))
  PROVE  HistoryInv(Loaded(r, me, heard))
<1> DEFINE st == Loaded(r, me, heard)
           t == withInstructions(StartAgent[r], heard)
<1>1. st.pc = "compress" /\ st.outcome = me.outcome /\ st.msgs = t
  BY DEF Loaded, RunState
<1> HIDE DEF st
<1>2. me.outcome = "running" /\ StartAgent[r] \in Agents
  BY AgentRunAssumption DEF RunInv, StageInv
<1>3. Tidy(t, Len(t))
  BY <1>2, TidyBegin
<1> HIDE DEF t
<1>4. ~InTurn(st)
  BY <1>1, <1>2 DEF InTurn, Open, Final
<1>5. HistoryInv(st)
  BY <1>1, <1>3, <1>4 DEF HistoryInv
<1> QED  BY <1>5 DEF st

LEMMA PrepareHistory ==
  ASSUME NEW r \in Runs, NEW me \in RunState, LayoutInv(r, me),
         HistoryInv(me), me.pc = "compress"
  PROVE  HistoryInv(Prepared(r, me))
<1> DEFINE history == Compressed(me.msgs)
           st == Prepared(r, me)
<1>1. /\ st.pc = "input" /\ st.msgs = Append(history, User(r))
      /\ st.base = Len(history)
  BY DEF Prepared, RunState
<1> HIDE DEF st
<1>2. /\ me.msgs \in Seq(Message) /\ me.cur \in Agents
      /\ Headed(me.cur, me.msgs) /\ Tidy(me.msgs, Len(me.msgs))
  BY DEF RunState, LayoutInv, HistoryInv
<1>3. history \in Seq(Message) /\ Tidy(history, Len(history))
  BY <1>2, CompressedFacts, TidyCompressed
<1> HIDE DEF history
<1>4. User(r) \in Message /\ Len(history) \in 0 .. Len(history)
  BY <1>3, MessageKinds
<1>5. Tidy(st.msgs, st.base)
  BY <1>1, <1>3, <1>4, TidyAppend
<1>6. HistoryInv(st)
  BY <1>1, <1>5 DEF HistoryInv
<1> QED  BY <1>6 DEF st

LEMMA SwitchHistory ==
  ASSUME HandoffsKeepPrompt, NEW r \in Runs, NEW me \in RunState,
         RunInv(r, me), LayoutInv(r, me), HistoryInv(me), me.pc = "tools",
         me.next \in Agents \ Misconfigured
  PROVE  HistoryInv(NextTurn(me, me.next,
                             switchSystemMessage(me.msgs, me.next)))
<1> DEFINE msgs == switchSystemMessage(me.msgs, me.next)
           st == NextTurn(me, me.next, msgs)
<1>1. st.msgs = msgs /\ st.base = me.base /\ st.pc = "turn"
  BY DEF NextTurn, RunState
<1> HIDE DEF st
<1>2. /\ me.cur \in Agents /\ me.msgs \in Seq(Message)
      /\ Headed(me.cur, me.msgs)
  BY DEF RunState, LayoutInv
<1>3. me.next \in HandoffTo[me.cur] \ Misconfigured /\ me.next \in Agents
  BY <1>2, AgentRunAssumption DEF RunInv, StageInv
<1>4. Len(Prompt(me.next)) = Len(Prompt(me.cur))
  BY <1>2, <1>3, PromptLength DEF HandoffsKeepPrompt
<1>5. InTurn(me) /\ Tidy(me.msgs, me.base)
  BY DEF InTurn, Open, HistoryInv
<1>6. me.base \in Len(Prompt(me.cur)) .. Len(me.msgs)
  <2>1. me.base \in Len(Prompt(me.cur)) .. Len(me.msgs) - 1
    BY <1>5 DEF LayoutInv, InTurn
  <2>2. Len(Prompt(me.cur)) \in Nat
    BY <1>2, PromptLength
  <2> QED  BY <1>2, <2>1, <2>2
<1>7. Tidy(msgs, me.base)
  BY <1>2, <1>3, <1>4, <1>5, <1>6, TidySwitch
<1> HIDE DEF msgs
<1>8. HistoryInv(st)
  BY <1>1, <1>7 DEF HistoryInv
<1> QED  BY <1>8 DEF st, msgs

LEMMA MovesKeepHistory ==
  ASSUME HandoffsKeepPrompt, NEW r \in Runs, NEW me \in RunState,
         RunInv(r, me), LayoutInv(r, me), HistoryInv(me), NEW st,
         Moves(r, me, st), session \in Seq(Message), Plain(session),
         Tidy(session, Len(session))
  PROVE  HistoryInv(st)
<1>0. me.pc \in {"chat", "tools"} => me.turn \in Turns
  BY AgentRunAssumption DEF RunInv, StageInv, RunState, Turns
<1>1. CASE me.pc = "new" /\ st = Loaded(r, me, session)
  BY <1>1, BeginHistory
<1>2. CASE me.pc = "compress" /\ st = Prepared(r, me)
  BY <1>2, PrepareHistory
<1>3. CASE \/ \E i, v : \/ st = InputVerdict(me, i, v)
                        \/ st = OutputVerdict(me, i, v)
           \/ me.pc = "turn" /\ st = AtChat(me)
           \/ st = Cancelled(me)
           \/ \E outcome : /\ outcome = "max_turns" => me.pc = "turn"
                           /\ st = Ended(me, outcome)
           \/ me.pc = "tools" /\ st = NextTurn(me, me.cur, me.msgs)
  BY <1>3, SilentHistories
<1>4. ASSUME NEW verdicts, me.pc \in {"input", "output"},
             st = IF Judged(verdicts) # "pass"
                    THEN Ended(me, Judged(verdicts)) ELSE Past(me)
      PROVE  HistoryInv(st)
  <2>1. Judged(verdicts) # "max_turns"
    BY DEF Judged
  <2> QED  BY <1>4, <2>1, SilentHistories DEF Stages
<1>5. ASSUME NEW calls \in Seq(Names), me.pc = "chat",
             \/ calls = <<>> /\ st = FinalGiven(r, me)
             \/ st = CallsAsked(r, me, calls)
      PROVE  HistoryInv(st)
  <2> DEFINE m == Assistant(r, me.turn, calls)
  <2>1. m \in Message
    BY <1>0, <1>5, MessageKinds
  <2>2. /\ st.msgs = Append(me.msgs, m) /\ st.base = me.base
        /\ st.pc # "compress"
    <3>1. CASE calls = <<>> /\ st = FinalGiven(r, me)
      BY <3>1 DEF FinalGiven, RunState
    <3>2. CASE st = CallsAsked(r, me, calls)
      BY <3>2 DEF CallsAsked, RunState
    <3> QED  BY <1>5, <3>1, <3>2
  <2> HIDE DEF m
  <2> QED  BY <1>5, <2>1, <2>2, SaysHistory
<1>6. ASSUME NEW answer \in HandoffTo[me.cur] \cup {"ok", "error"},
             me.pc = "tools", st = CallDone(r, me, answer)
      PROVE  HistoryInv(st)
  <2> DEFINE n == NextCall(me)
             m == Result(r, me.turn, n, answer)
  <2>1. n \in Nat
    <3>1. me.msgs \in Seq(Message) /\ me.msgs # <<>>
      BY <1>6 DEF RunInv, StageInv, RunState
    <3>2. Last(me.msgs) \in Message
      BY <3>1 DEF Last
    <3> QED  BY <3>2, MessageFacts DEF NextCall
  <2>2. answer \in Outputs
    BY <1>6, AgentRunAssumption DEF Outputs, RunState
  <2>3. /\ st.msgs = Append(me.msgs, m) /\ st.base = me.base
        /\ st.pc # "compress"
    BY <1>6 DEF CallDone, RunState
  <2> HIDE DEF n
  <2>4. m \in Message
    BY <1>0, <1>6, <2>1, <2>2, MessageKinds
  <2> HIDE DEF m
  <2> QED  BY <1>6, <2>3, <2>4, SaysHistory
<1>7. CASE /\ me.pc = "tools" /\ me.next \in Agents \ Misconfigured
           /\ st = NextTurn(me, me.next,
                            switchSystemMessage(me.msgs, me.next))
  BY <1>7, SwitchHistory
<1>8. <<>> \in Seq(Names) /\ Answers \subseteq Seq(Names)
  BY AgentRunAssumption
<1>9. CASE me.pc = "chat" /\ st = FinalGiven(r, me)
  BY <1>5, <1>8, <1>9
<1>10. ASSUME NEW calls \in Answers, me.pc = "chat",
              st = CallsAsked(r, me, calls)
       PROVE  HistoryInv(st)
  BY <1>5, <1>8, <1>10
<1> QED
  BY <1>1, <1>2, <1>3, <1>4, <1>6, <1>7, <1>9, <1>10 DEF Moves

(* What is written to the session keeps its calls and results together.    *)
LEMMA WrittenTidy ==
  ASSUME NEW r \in Runs, NEW me \in RunState, RunInv(r, me),
         LayoutInv(r, me), TurnInv(r, me), InTurn(me), me.pc # "tools",
         NEW t, t = Turn(me), NEW s \in Seq(Message), Tidy(s, Len(s)),
         NEW u, u = s \o t
  PROVE  Tidy(u, Len(u))
<1>1. t \in Seq(Message) /\ TurnOf(r, t) /\ AnsweredBut(t, me.calls)
  BY TurnSoFar
<1>2. me.calls = <<>>
  BY DEF RunInv, StageInv
<1>3. Tidy(t, Len(t))
  BY <1>1, <1>2, AnsweredButNone, TidyTurn
<1>4. t # <<>> => t[1].role = "user"
  BY <1>1 DEF TurnOf, User
<1>5. /\ u \in Seq(Message) /\ Len(u) = Len(s) + Len(t)
      /\ \A i \in 1 .. Len(s) : u[i] = s[i]
      /\ \A i \in 1 .. Len(t) : u[Len(s) + i] = t[i]
  <2>1. \A i \in 1 .. Len(s) : u[i] = s[i]
    BY <1>1
  <2>2. \A i \in 1 .. Len(t) : u[Len(s) + i] = t[i]
    BY <1>1
  <2> QED  BY <1>1, <2>1, <2>2, ConcatLength
<1> DEFINE b == Len(s)
<1>6. /\ 0 \in Nat /\ 0 \in Int /\ b \in Nat /\ 0 <= b /\ b <= Len(u)
      /\ 0 + 0 >= 0 /\ b + 0 <= Len(s) /\ b + 0 = b
      /\ b \in 0 .. Len(u) /\ Len(t) = Len(u) - b
  BY <1>1, <1>5
<1>7. \A i \in 0 + 1 .. b : u[i] = s[i + 0]
  BY <1>5
<1>8. /\ \A i \in 1 .. 0 : u[i].role = "system"
      /\ \A i \in 1 .. 0 + 0 : s[i].role # "assistant"
  OBVIOUS
<1>9. Tidy(s, b) /\ \A i \in 1 .. Len(t) : t[i] = u[b + i]
  BY <1>5
<1> HIDE DEF b
<1>10. Tidy(u, b)
  BY <1>5, <1>6, <1>7, <1>8, <1>9, TidyShift
<1> QED  BY <1>1, <1>3, <1>4, <1>5, <1>6, <1>9, <1>10, TidyJoin

LEMMA AdvancesKeepsHistory ==
  ASSUME HandoffsKeepPrompt, NEW r \in Runs, PairedInv, Advances(r), TurnsInv'
  PROVE  PairedInv'
<1> DEFINE me == run[r]
           t == Produced(r)
<1>1. /\ me \in RunState /\ RunInv(r, me) /\ LayoutInv(r, me)
      /\ TurnInv(r, me) /\ HistoryInv(me) /\ session \in Seq(Message)
      /\ Plain(session) /\ Tidy(session, Len(session))
  BY SameLayout DEF PairedInv
<1>2. Moves(r, me, run'[r])
  BY DEF Advances
<1>3. HistoryInv(run'[r])
  <2> HIDE DEF me
  <2> QED  BY <1>1, <1>2, MovesKeepHistory
<1>4. \A q \in Runs \ {r} : run'[q] = run[q]
  BY DEF Advances, PairedInv, TurnsInv, IInv, Types
<1>5. \A q \in Runs : HistoryInv(run'[q])
  BY <1>3, <1>4 DEF PairedInv
<1>6. Tidy(session', Len(session'))
  <2>1. CASE session' = session
    BY <1>1, <2>1
  <2>2. CASE /\ session' = session \o t
             /\ run'[r].outcome \in {"done", "carried"}
    <3>1. InTurn(me) /\ me.pc # "tools"
      <4> HIDE DEF me
      <4>1. me.pc = "persist" \/ me.outcome \in {"max_turns", "done", "carried"}
        BY <1>1, <1>2, <2>2, OutcomeMoves
      <4>2. me.outcome \notin {"done", "carried"}
        BY DEF Advances, Over, me
      <4>3. me.outcome = "max_turns" => me.pc = "ended"
        BY <1>1 DEF RunInv, StageInv
      <4> QED  BY <4>1, <4>2, <4>3 DEF InTurn, Final
    <3>2. t = Turn(me)
      BY DEF Produced, Turn
    <3> HIDE DEF me, t
    <3> QED  BY <1>1, <2>2, <3>1, <3>2, WrittenTidy
  <2> QED  BY <2>1, <2>2 DEF Advances
<1> QED  BY <1>5, <1>6 DEF PairedInv

LEMMA PairedInitHolds == Init => PairedInv
<1> SUFFICES ASSUME Init PROVE PairedInv
  OBVIOUS
<1>1. ASSUME NEW r \in Runs PROVE HistoryInv(run[r])
  <2>1. run[r].pc = "new" /\ run[r].outcome = "running"
    BY DEF Init, NewRun
  <2> QED  BY <2>1 DEF HistoryInv, InTurn, Open, Final
<1>2. Tidy(session, Len(session))
  BY DEF Init, Tidy
<1> QED  BY <1>1, <1>2, TurnsInitHolds DEF PairedInv

LEMMA StepKeepsPaired ==
  ASSUME HandoffsKeepPrompt, PairedInv, [Next]_vars
  PROVE  PairedInv'
<1>1. TurnsInv /\ TurnsInv' /\ IInv
  BY StepKeepsTurns DEF PairedInv, TurnsInv
<1>2. ASSUME NEW r \in Runs, StepOf(r) PROVE PairedInv'
  BY <1>1, <1>2, StepAdvances, AdvancesKeepsHistory
<1>3. CASE UNCHANGED vars
  BY <1>1, <1>3 DEF vars, PairedInv
<1> QED  BY <1>2, <1>3 DEF Next, StepOf, Terminated

THEOREM PairedInvariance ==
  ASSUME HandoffsKeepPrompt
  PROVE  Spec => []PairedInv
<1>1. Init => PairedInv
  BY PairedInitHolds
<1>2. PairedInv /\ [Next]_vars => PairedInv'
  BY StepKeepsPaired
<1> QED  BY <1>1, <1>2, PTL DEF Spec

(* When no handoff changes whether there is a system prompt, the messages  *)
(* a run sends to the model are, however the runs interleave: the prompt   *)
(* of the agent at work and no other, then history, then the run's own     *)
(* input with every call answered; and in the history too, whichever runs  *)
(* wrote it, each call has its result, and each result its call unless the *)
(* compressor cut that call off.                                           *)
THEOREM RequestsValidHolds ==
  ASSUME HandoffsKeepPrompt
  PROVE  Spec => []RequestsValid
<1>1. PairedInv => RequestsValid
  <2> SUFFICES ASSUME PairedInv, NEW r \in Runs, At(r, "chat"),
                      NEW msgs, msgs = run[r].msgs
               PROVE  /\ Systems(msgs) = Prompt(run[r].cur)
                      /\ \A i \in Leading(msgs) + 1 .. Len(msgs) :
                           ~IsSystem(msgs[i])
                      /\ \E n \in DOMAIN msgs :
                           /\ OwnAt(r) = n .. Len(msgs)
                           /\ OpenTurn(r, SubSeq(msgs, n, Len(msgs)))
                      /\ \A i \in DOMAIN msgs :
                           /\ CallsHaveResults(msgs, i)
                           /\ ResultHasCall(msgs, i) \/ CutOff(msgs, i)
    BY DEF RequestsValid
  <2> DEFINE me == run[r]
             n == me.base + 1
             t == Turn(me)
  <2>1. /\ me \in RunState /\ RunInv(r, me) /\ LayoutInv(r, me)
        /\ TurnInv(r, me) /\ HistoryInv(me) /\ me.pc = "chat"
    BY SameLayout DEF At, PairedInv
  <2>2. OwnAt(r) = {i \in DOMAIN msgs : IsOwn(r, msgs[i])}
    BY DEF OwnAt
  <2>3. t = SubSeq(msgs, n, Len(msgs)) /\ me.msgs = msgs
    BY DEF Turn
  <2> HIDE DEF me, t
  <2>4. InTurn(me) /\ ~Final(me) /\ me.calls = <<>>
    BY <2>1 DEF InTurn, Open, Final, RunInv, StageInv
  <2>5. /\ msgs \in Seq(Message) /\ me.cur \in Agents
        /\ me.base \in 0 .. Len(msgs) - 1
        /\ Len(t) = Len(msgs) - me.base
        /\ \A i \in 1 .. Len(msgs) - me.base : t[i] = msgs[me.base + i]
    BY <2>1, <2>3, <2>4, TurnFacts DEF t
  <2>6. /\ t \in Seq(Message) /\ TurnOf(r, t) /\ AnsweredBut(t, <<>>)
        /\ \A i \in 1 .. Len(t) : ~FinalAnswer(t[i])
    BY <2>1, <2>4, TurnSoFar DEF t
  <2>7. Headed(me.cur, msgs) /\ \A i \in 1 .. me.base : ~IsOwn(r, msgs[i])
    BY <2>1, <2>3, <2>4 DEF LayoutInv, InTurn
  <2>8. /\ Systems(msgs) = Prompt(me.cur)
        /\ \A i \in Leading(msgs) + 1 .. Len(msgs) : ~IsSystem(msgs[i])
    <3>1. /\ Leading(msgs) = Len(Prompt(me.cur))
          /\ Systems(msgs) = Prompt(me.cur)
      BY <2>5, <2>7, HeadedLeading
    <3>2. Len(Prompt(me.cur)) \in {0, 1}
      BY <2>5, PromptFacts
    <3> QED  BY <2>5, <2>7, <3>1, <3>2 DEF Headed
  <2>9. OwnAt(r) = n .. Len(msgs)
    <3>1. \A i \in n .. Len(msgs) :
            i - me.base \in 1 .. Len(t) /\ t[i - me.base] = msgs[i]
      BY <2>5, SMTT(30)
    <3>2. \A i \in n .. Len(msgs) : IsOwn(r, msgs[i])
      BY <2>6, <3>1, TurnSpeakers
    <3>3. \A i \in DOMAIN msgs : i \in 1 .. me.base \/ i \in n .. Len(msgs)
      BY <2>5, SMTT(30)
    <3>4. n .. Len(msgs) \subseteq DOMAIN msgs
      <4>1. n \in 1 .. Len(msgs) /\ DOMAIN msgs = 1 .. Len(msgs)
        BY <2>5
      <4> QED  BY <4>1
    <3> QED  BY <2>2, <2>7, <3>2, <3>3, <3>4
  <2>10. OpenTurn(r, t)
    BY <2>6, AnsweredButNone DEF OpenTurn
  <2>11. n \in DOMAIN msgs
    BY <2>5
  <2>12. Tidy(msgs, Len(msgs))
    <3>1. Tidy(msgs, me.base) /\ me.base \in 0 .. Len(msgs)
      BY <2>1, <2>3, <2>4, <2>5 DEF HistoryInv
    <3>2. Tidy(t, Len(t))
      BY <2>6, AnsweredButNone, TidyTurn
    <3>3. t # <<>> => t[1].role = "user"
      BY <2>6 DEF TurnOf, User
    <3> QED  BY <2>5, <2>6, <3>1, <3>2, <3>3, TidyJoin
  <2>13. \A i \in DOMAIN msgs :
           /\ CallsHaveResults(msgs, i)
           /\ ResultHasCall(msgs, i) \/ CutOff(msgs, i)
    <3> SUFFICES ASSUME NEW i \in DOMAIN msgs
                 PROVE  /\ CallsHaveResults(msgs, i)
                        /\ ResultHasCall(msgs, i) \/ CutOff(msgs, i)
      OBVIOUS
    <3>1. i \in 1 .. Len(msgs)
      BY <2>5
    <3>2. CallsKept(msgs, i, Len(msgs)) /\ ResultKept(msgs, i)
      BY <2>12, <3>1 DEF Tidy
    <3>3. CallsHaveResults(msgs, i)
      BY <3>2 DEF CallsKept, CallsHaveResults
    <3> QED  BY <3>2, <3>3 DEF ResultKept
  <2> QED  BY <2>3, <2>8, <2>9, <2>10, <2>11, <2>13 DEF me
<1> QED  BY <1>1, PairedInvariance, PTL

-----------------------------------------------------------------------------
(* The refinement: a step of a run is a commit, a carry, a failure, or     *)
(* nothing that Conversation sees.                                         *)

LEMMA ConcatParts ==
  ASSUME NEW s \in Seq(Message), NEW t \in Seq(Message)
  PROVE  /\ Len(s \o t) = Len(s) + Len(t)
         /\ SubSeq(s \o t, 1, Len(s)) = s
         /\ SubSeq(s \o t, Len(s) + 1, Len(s \o t)) = t
<1> DEFINE u == s \o t
           v == SubSeq(u, 1, Len(s))
           w == SubSeq(u, Len(s) + 1, Len(u))
<1>1. /\ u \in Seq(Message) /\ Len(u) = Len(s) + Len(t)
      /\ \A i \in 1 .. Len(s) : u[i] = s[i]
  OBVIOUS
<1>2. \A i \in 1 .. Len(t) : u[Len(s) + i] = t[i]
  OBVIOUS
<1> HIDE DEF u
<1>3. v = s
  <2>1. v \in Seq(Message) /\ Len(v) = Len(s)
    BY <1>1
  <2>2. \A i \in 1 .. Len(s) : v[i] = u[i]
    BY <1>1
  <2> HIDE DEF v
  <2> QED  BY <1>1, <2>1, <2>2
<1>4. w = t
  <2>1. Len(s) + 1 \in 1 .. Len(u) + 1
    BY <1>1
  <2>2. /\ w \in Seq(Message) /\ Len(w) = Len(t)
        /\ \A i \in 1 .. Len(t) : w[i] = u[Len(s) + i]
    BY <1>1, <2>1, SubSeqElements
  <2> HIDE DEF w
  <2> QED  BY <1>2, <2>2
<1> QED  BY <1>1, <1>3, <1>4 DEF u, v, w

(* A turn is the same to Conversation.                                     *)
LEMMA SameToConversation ==
  ASSUME NEW r \in Runs, NEW s
  PROVE  /\ CompleteTurn(r, s) => Promised!CompleteTurn(r, s)
         /\ OpenTurn(r, s) => Promised!OpenTurn(r, s)
<1>1. TurnOf(r, s) => Promised!TurnOf(r, s)
  BY DEF TurnOf, User, Promised!TurnOf, Promised!User
<1>2. Answered(s) => Promised!Answered(s)
  BY DEF Answered, Promised!Answered
<1>3. \A m : FinalAnswer(m) <=> Promised!FinalAnswer(m)
  BY DEF FinalAnswer, Promised!FinalAnswer
<1> QED
  BY <1>1, <1>2, <1>3 DEF CompleteTurn, OpenTurn, Promised!CompleteTurn,
                          Promised!OpenTurn

FateOf(outcome) ==
  IF outcome \in {"guard_error", "tripwire"} THEN "failed" ELSE outcome

LEMMA StepPromised ==
  ASSUME TurnsInv, NEW r \in Runs, Advances(r)
  PROVE  Promised!CNext \/ UNCHANGED Promised!cvars
<1> DEFINE me == run[r]
           st == run'[r]
           t == Produced(r)
           before == [q \in Runs |-> FateOf(run[q].outcome)]
           after == [q \in Runs |-> FateOf(run'[q].outcome)]
<1>1. /\ me \in RunState /\ RunInv(r, me) /\ LayoutInv(r, me)
      /\ TurnInv(r, me) /\ session \in Seq(Message)
  BY SameLayout
<1>2. /\ ~Over(r) /\ Moves(r, me, st)
      /\ \/ session' = session /\ st.outcome \notin {"done", "carried"}
         \/ session' = session \o t /\ st.outcome \in {"done", "carried"}
  BY DEF Advances
<1>3. after = [before EXCEPT ![r] = FateOf(st.outcome)]
  <2>1. \A q \in Runs \ {r} : run'[q] = run[q]
    BY DEF Advances, TurnsInv, IInv, Types
  <2> QED  BY <2>1
<1>4. before[r] = FateOf(me.outcome)
  OBVIOUS
<1>5. t = Turn(me)
  BY DEF Produced, Turn
<1>6. me.outcome \notin {"done", "carried"}
  BY <1>2 DEF Over
<1> HIDE DEF me, st, t
<1>7. ASSUME InTurn(me), me.calls = <<>>, session' = session \o t
      PROVE  /\ Promised!Grows /\ Promised!Added = t
             /\ IF Final(me) THEN CompleteTurn(r, t) ELSE OpenTurn(r, t)
  <2>1. /\ t \in Seq(Message) /\ t # <<>> /\ TurnOf(r, t)
        /\ AnsweredBut(t, <<>>)
        /\ IF Final(me)
             THEN \A i \in 1 .. Len(t) : FinalAnswer(t[i]) <=> i = Len(t)
             ELSE \A i \in 1 .. Len(t) : ~FinalAnswer(t[i])
    BY <1>1, <1>5, <1>7, TurnSoFar
  <2>2. Answered(t)
    BY <2>1, AnsweredButNone
  <2>3. /\ Len(session') = Len(session) + Len(t)
        /\ SubSeq(session', 1, Len(session)) = session
        /\ SubSeq(session', Len(session) + 1, Len(session')) = t
    BY <1>1, <1>7, <2>1, ConcatParts
  <2>4. Len(t) > 0 /\ Len(session) \in Nat
    BY <1>1, <2>1
  <2>5. Promised!Grows /\ Promised!Added = t
    BY <2>3, <2>4 DEF Promised!Grows, Promised!Added
  <2> QED  BY <2>1, <2>2, <2>5 DEF CompleteTurn, OpenTurn
<1>8. CASE st.outcome = me.outcome
  <2>1. session' = session /\ after = before
    BY <1>2, <1>3, <1>4, <1>6, <1>8
  <2> QED  BY <2>1 DEF Promised!cvars, FateOf
<1>9. CASE /\ me.outcome = "running"
           /\ st.outcome \in {"failed", "max_turns", "guard_error", "tripwire"}
  <2>1. session' = session /\ before[r] = "running"
    BY <1>2, <1>4, <1>9 DEF FateOf
  <2>2. FateOf(st.outcome) \in {"max_turns", "failed"}
    BY <1>9 DEF FateOf
  <2>3. Promised!GiveUp(r)
    BY <1>3, <2>1, <2>2 DEF Promised!GiveUp, Promised!Becomes, FateOf
  <2> QED  BY <2>3 DEF Promised!CNext
<1>10. CASE /\ me.outcome = "running" /\ me.pc = "persist"
            /\ st.outcome = "done"
  <2>1. InTurn(me) /\ Final(me) /\ me.calls = <<>> /\ session' = session \o t
    BY <1>1, <1>2, <1>10 DEF InTurn, Final, RunInv, StageInv
  <2>2. before[r] = "running" /\ FateOf(st.outcome) = "done"
    BY <1>4, <1>10 DEF FateOf
  <2>3. Promised!Grows /\ Promised!Added = t /\ CompleteTurn(r, t)
    BY <1>7, <2>1
  <2>4. Promised!Becomes(r, "running", "done")
    BY <1>3, <2>2 DEF Promised!Becomes, FateOf
  <2>5. Promised!Commit(r)
    BY <2>3, <2>4, SameToConversation DEF Promised!Commit
  <2> QED  BY <2>5 DEF Promised!CNext
<1>11. CASE me.outcome = "max_turns" /\ st.outcome = "carried"
  <2>1. me.pc = "ended"
    BY <1>1, <1>11 DEF RunInv, StageInv
  <2>2. InTurn(me) /\ ~Final(me) /\ me.calls = <<>> /\ session' = session \o t
    BY <1>1, <1>2, <1>11, <2>1 DEF InTurn, Final, RunInv, StageInv
  <2>3. before[r] = "max_turns" /\ FateOf(st.outcome) = "carried"
    BY <1>4, <1>11 DEF FateOf
  <2>4. Promised!Grows /\ Promised!Added = t /\ OpenTurn(r, t)
    BY <1>7, <2>2
  <2>5. Promised!Becomes(r, "max_turns", "carried")
    BY <1>3, <2>3 DEF Promised!Becomes, FateOf
  <2>6. Promised!Carry(r)
    BY <2>4, <2>5, SameToConversation DEF Promised!Carry
  <2> QED  BY <2>6 DEF Promised!CNext
<1> QED  BY <1>1, <1>2, <1>8, <1>9, <1>10, <1>11, OutcomeMoves

(* The runs implement Conversation: the session grows by whole turns only, *)
(* each of one run that succeeded or was carried forward, whatever the     *)
(* other runs append meanwhile and whatever the compressor drops.          *)
THEOREM KeepsPromisesHolds ==
  ASSUME HandoffsKeepPrompt
  PROVE  Spec => KeepsPromises
<1>1. Init => Promised!CInit
  BY DEF Init, NewRun, Promised!CInit
<1>2. TurnsInv /\ [Next]_vars => [Promised!CNext]_Promised!cvars
  <2> SUFFICES ASSUME TurnsInv, [Next]_vars
               PROVE  Promised!CNext \/ UNCHANGED Promised!cvars
    OBVIOUS
  <2>1. ASSUME NEW r \in Runs, StepOf(r)
        PROVE  Promised!CNext \/ UNCHANGED Promised!cvars
    <3>1. Advances(r)
      BY <2>1, StepAdvances DEF TurnsInv
    <3> QED  BY <3>1, StepPromised
  <2>2. CASE UNCHANGED vars
    BY <2>2 DEF vars, Promised!cvars
  <2> QED  BY <2>1, <2>2 DEF Next, StepOf, Terminated
<1> QED  BY <1>1, <1>2, TurnInvariance, PTL
         DEF Spec, KeepsPromises, Promised!CSpec
-----------------------------------------------------------------------------
(* What a result says of the run.  ResultTells holds without the           *)
(* hypothesis on handoffs: a switch may move the turn along, but not what  *)
(* is in it.                                                               *)

ResultsIn(r, s) ==
  {i \in 1 .. Len(s) : IsOwn(r, s[i]) /\ s[i].role = "tool"}
HandoffsIn(r, s) == {i \in ResultsIn(r, s) : s[i].output \in Agents}
ErrorsIn(r, s) == {i \in ResultsIn(r, s) : s[i].output = "error"}
Upto(S, i) == {j \in S : j <= i}

Tells(r, s, transfers, toolErrs) ==
  /\ Len(transfers) = Cardinality(HandoffsIn(r, s))
  /\ \A i \in HandoffsIn(r, s) :
       transfers[Cardinality(Upto(HandoffsIn(r, s), i))] = s[i].output
  /\ toolErrs = Cardinality(ErrorsIn(r, s))

(* The transfers and errors noted are those of the conversation, and the   *)
(* agent at work, or about to take over, is the last one handed over to.   *)
TellInv(r, me) ==
  me.pc # "ended" \/ me.outcome = "done" =>
    /\ Tells(r, me.msgs, me.transfers, me.toolErrs)
    /\ IF me.next = NoAgent
         THEN me.cur = IF me.transfers = <<>> THEN StartAgent[r]
                                              ELSE Last(me.transfers)
         ELSE me.transfers # <<>> /\ me.next = Last(me.transfers)

ToldInv == IInv /\ \A r \in Runs : TellInv(r, run[r])

LEMMA CountFacts ==
  ASSUME NEW r \in Runs, NEW s \in Seq(Message)
  PROVE  /\ HandoffsIn(r, s) \subseteq 1 .. Len(s)
         /\ ErrorsIn(r, s) \subseteq 1 .. Len(s)
         /\ IsFiniteSet(HandoffsIn(r, s)) /\ IsFiniteSet(ErrorsIn(r, s))
         /\ \A i \in HandoffsIn(r, s) :
              /\ IsFiniteSet(Upto(HandoffsIn(r, s), i))
              /\ Cardinality(Upto(HandoffsIn(r, s), i))
                   \in 1 .. Cardinality(HandoffsIn(r, s))
<1> DEFINE H == HandoffsIn(r, s)
<1>1. H \subseteq 1 .. Len(s) /\ ErrorsIn(r, s) \subseteq 1 .. Len(s)
  BY DEF HandoffsIn, ErrorsIn, ResultsIn
<1>2. IsFiniteSet(1 .. Len(s))
  BY FS_Interval
<1>3. IsFiniteSet(H) /\ IsFiniteSet(ErrorsIn(r, s))
  BY <1>1, <1>2, FS_Subset
<1> HIDE DEF H
<1>4. ASSUME NEW i \in H
      PROVE  /\ IsFiniteSet(Upto(H, i))
             /\ Cardinality(Upto(H, i)) \in 1 .. Cardinality(H)
  <2>1. Upto(H, i) \subseteq H /\ i \in Upto(H, i)
    BY <1>1 DEF Upto
  <2>2. IsFiniteSet(Upto(H, i)) /\ Cardinality(Upto(H, i)) <= Cardinality(H)
    BY <1>3, <2>1, FS_Subset
  <2>3. Cardinality(Upto(H, i)) \in Nat /\ Cardinality(H) \in Nat
    BY <1>3, <2>2, FS_CardinalityType
  <2>4. Cardinality(Upto(H, i)) # 0
    BY <2>1, <2>2, FS_EmptySet
  <2> QED  BY <2>2, <2>3, <2>4
<1> QED  BY <1>1, <1>3, <1>4 DEF H

LEMMA TellsNone ==
  ASSUME NEW r \in Runs, NEW s, NEW t, NEW transfers, NEW toolErrs,
         \A i \in 1 .. Len(s) : ~IsOwn(r, s[i]),
         \A i \in 1 .. Len(t) : ~IsOwn(r, t[i]),
         Tells(r, s, transfers, toolErrs)
  PROVE  Tells(r, t, transfers, toolErrs)
<1>1. /\ HandoffsIn(r, s) = {} /\ ErrorsIn(r, s) = {}
      /\ HandoffsIn(r, t) = {} /\ ErrorsIn(r, t) = {}
  BY DEF HandoffsIn, ErrorsIn, ResultsIn
<1> QED  BY <1>1 DEF Tells

LEMMA TellsSilent ==
  ASSUME NEW r \in Runs, NEW s \in Seq(Message), NEW m \in Message,
         m.role # "tool", NEW transfers, NEW toolErrs,
         Tells(r, s, transfers, toolErrs)
  PROVE  Tells(r, Append(s, m), transfers, toolErrs)
<1> DEFINE u == Append(s, m)
<1>1. /\ Len(u) = Len(s) + 1 /\ u[Len(s) + 1] = m
      /\ \A i \in 1 .. Len(s) : u[i] = s[i]
  BY AppendFacts
<1> HIDE DEF u
<1>2. \A i \in 1 .. Len(u) : i \in 1 .. Len(s) \/ i = Len(s) + 1
  BY <1>1
<1>3. \A i \in 1 .. Len(s) : i \in 1 .. Len(u)
  BY <1>1
<1>4. ResultsIn(r, u) = ResultsIn(r, s)
  BY <1>1, <1>2, <1>3 DEF ResultsIn
<1>5. ResultsIn(r, s) \subseteq 1 .. Len(s)
  BY DEF ResultsIn
<1>6. HandoffsIn(r, u) = HandoffsIn(r, s) /\ ErrorsIn(r, u) = ErrorsIn(r, s)
  BY <1>1, <1>4, <1>5 DEF HandoffsIn, ErrorsIn
<1>7. \A i \in HandoffsIn(r, s) : u[i] = s[i]
  BY <1>1, <1>5 DEF HandoffsIn
<1>8. Tells(r, u, transfers, toolErrs)
  BY <1>6, <1>7 DEF Tells
<1> QED  BY <1>8 DEF u

LEMMA TellsResult ==
  ASSUME NEW r \in Runs, NEW s \in Seq(Message), NEW m \in Message,
         m.role = "tool", IsOwn(r, m), m.output \in Agents \cup {"ok", "error"},
         NEW transfers \in Seq(Agents), NEW toolErrs \in Nat,
         Tells(r, s, transfers, toolErrs)
  PROVE  Tells(r, Append(s, m),
               IF m.output \in Agents THEN Append(transfers, m.output)
                                      ELSE transfers,
               IF m.output = "error" THEN toolErrs + 1 ELSE toolErrs)
<1> DEFINE u == Append(s, m)
           n == Len(s) + 1
           H == HandoffsIn(r, s)
           E == ErrorsIn(r, s)
           output == m.output
           longer == Append(transfers, output)
<1>1. /\ Len(u) = n /\ u[n] = m /\ n \in Nat
      /\ \A i \in 1 .. Len(s) : u[i] = s[i] /\ i < n
  BY AppendFacts
<1>2. 1 .. Len(u) = (1 .. Len(s)) \cup {n}
  BY <1>1
<1> HIDE DEF u
<1>3. ResultsIn(r, u) = ResultsIn(r, s) \cup {n}
  BY <1>1, <1>2 DEF ResultsIn
<1>4. ResultsIn(r, s) \subseteq 1 .. Len(s)
  BY DEF ResultsIn
<1>5. /\ HandoffsIn(r, u) = IF output \in Agents THEN H \cup {n} ELSE H
      /\ ErrorsIn(r, u) = IF output = "error" THEN E \cup {n} ELSE E
  BY <1>1, <1>3, <1>4 DEF HandoffsIn, ErrorsIn
<1>6. /\ H \subseteq 1 .. Len(s) /\ E \subseteq 1 .. Len(s)
      /\ IsFiniteSet(H) /\ IsFiniteSet(E)
      /\ \A i \in H : /\ IsFiniteSet(Upto(H, i))
                      /\ Cardinality(Upto(H, i)) \in 1 .. Cardinality(H)
  BY CountFacts
<1>7. n \notin H /\ n \notin E
  BY <1>1, <1>6
<1>8. /\ Cardinality(H \cup {n}) = Cardinality(H) + 1
      /\ Cardinality(E \cup {n}) = Cardinality(E) + 1
  BY <1>6, <1>7, FS_AddElement
<1>9. /\ Len(transfers) = Cardinality(H) /\ toolErrs = Cardinality(E)
      /\ \A i \in H : transfers[Cardinality(Upto(H, i))] = s[i].output
  BY DEF Tells
<1>10. \A i \in H : u[i] = s[i] /\ i < n
  BY <1>1, <1>6
<1> HIDE DEF n, H, E, output
<1>11. CASE output \in Agents
  <2>1. output # "error" /\ HandoffsIn(r, u) = H \cup {n} /\ ErrorsIn(r, u) = E
    BY <1>5, <1>11, AgentRunAssumption
  <2>2. /\ Len(longer) = Len(transfers) + 1
        /\ longer[Len(transfers) + 1] = output
        /\ \A k \in 1 .. Len(transfers) : longer[k] = transfers[k]
    BY <1>11
  <2> HIDE DEF longer
  <2>3. ASSUME NEW i \in H \cup {n}
        PROVE  longer[Cardinality(Upto(H \cup {n}, i))] = u[i].output
    <3>1. CASE i \in H
      <4>1. Upto(H \cup {n}, i) = Upto(H, i)
        BY <1>1, <1>6, <1>10, <3>1 DEF Upto
      <4> QED  BY <1>6, <1>9, <1>10, <2>2, <3>1, <4>1
    <3>2. CASE i = n
      <4>1. \A j \in H \cup {n} : j <= n
        <5>1. \A j \in H : j \in Nat
          BY <1>6
        <5> QED  BY <1>1, <1>10, <5>1
      <4>2. Upto(H \cup {n}, i) = H \cup {n}
        BY <3>2, <4>1 DEF Upto
      <4> QED  BY <1>1, <1>8, <1>9, <2>2, <3>2, <4>2 DEF output
    <3> QED  BY <3>1, <3>2
  <2>4. Tells(r, u, longer, toolErrs)
    BY <1>8, <1>9, <2>1, <2>2, <2>3 DEF Tells
  <2> QED  BY <1>11, <2>1, <2>4 DEF longer, u, output
<1>12. CASE output \notin Agents
  <2>1. HandoffsIn(r, u) = H
    BY <1>5, <1>12
  <2>2. CASE output = "error"
    <3>1. Tells(r, u, transfers, toolErrs + 1)
      BY <1>5, <1>8, <1>9, <1>10, <2>1, <2>2 DEF Tells
    <3> QED  BY <1>12, <2>2, <3>1 DEF u, output
  <2>3. CASE output # "error"
    <3>1. Tells(r, u, transfers, toolErrs)
      BY <1>5, <1>9, <1>10, <2>1, <2>3 DEF Tells
    <3> QED  BY <1>12, <2>3, <3>1 DEF u, output
  <2> QED  BY <2>2, <2>3
<1> QED  BY <1>11, <1>12

LEMMA ShiftCardinality ==
  ASSUME NEW S, IsFiniteSet(S), S \subseteq Int, NEW k \in Int
  PROVE  Cardinality({i + k : i \in S}) = Cardinality(S)
<1> DEFINE T == {i + k : i \in S}
           f == [i \in S |-> i + k]
<1>1. \A i \in S : \A j \in S : i + k = j + k => i = j
  OBVIOUS
<1>2. f \in Bijection(S, T)
  <2>1. f \in [S -> T] /\ \A i \in S : f[i] = i + k
    OBVIOUS
  <2>2. \A x \in T : \E i \in S : f[i] = x
    OBVIOUS
  <2>3. f \in Injection(S, T)
    BY <1>1, <2>1 DEF Injection, IsInjective
  <2>4. f \in Surjection(S, T)
    BY <2>1, <2>2 DEF Surjection
  <2> QED  BY <2>3, <2>4 DEF Bijection
<1>3. ExistsBijection(S, T)
  BY <1>2 DEF ExistsBijection
<1> QED  BY <1>3, FS_Bijection

(* A switch moves the results of the run along, all by the same distance.  *)
LEMMA TellsSwitch ==
  ASSUME NEW r \in Runs, NEW s \in Seq(Message), NEW a \in Agents,
         NEW transfers, NEW toolErrs, Tells(r, s, transfers, toolErrs)
  PROVE  Tells(r, switchSystemMessage(s, a), transfers, toolErrs)
<1> DEFINE lead == Leading(s)
           rest == Rest(s)
           p == Len(Prompt(a))
           k == p - lead
           t == Prompt(a) \o rest
           H == HandoffsIn(r, s)
           E == ErrorsIn(r, s)
<1>1. lead \in 0 .. Len(s) /\ \A i \in 1 .. lead : ~IsOwn(r, s[i])
  BY LeadingFacts DEF IsOwn
<1>2. /\ rest \in Seq(Message) /\ Len(rest) = Len(s) - lead
      /\ \A i \in 1 .. Len(s) - lead : rest[i] = s[lead + i]
  <2>1. lead + 1 \in 1 .. Len(s) + 1
    BY <1>1
  <2>2. rest = SubSeq(s, lead + 1, Len(s))
    BY DEF Rest
  <2> QED  BY <1>1, <2>1, <2>2, SubSeqElements
<1>3. /\ Prompt(a) \in Seq(Message) /\ p \in {0, 1}
      /\ \A i \in 1 .. p : ~IsOwn(r, Prompt(a)[i])
  BY PromptFacts DEF IsOwn
<1> HIDE DEF rest, lead
<1>4. /\ t \in Seq(Message) /\ Len(t) = p + Len(rest)
      /\ \A i \in 1 .. p : t[i] = Prompt(a)[i]
      /\ \A i \in 1 .. Len(rest) : t[p + i] = rest[i]
  BY <1>2, <1>3
<1> HIDE DEF p, t
<1>5. \A i \in 1 .. p : ~IsOwn(r, t[i])
  BY <1>3, <1>4
<1>6. \A i \in lead + 1 .. Len(s) : i + k \in p + 1 .. Len(t) /\ t[i + k] = s[i]
  <2> SUFFICES ASSUME NEW i \in lead + 1 .. Len(s)
               PROVE  i + k \in p + 1 .. Len(t) /\ t[i + k] = s[i]
    OBVIOUS
  <2>1. i - lead \in 1 .. Len(rest) /\ i + k = p + (i - lead)
    BY <1>1, <1>2, <1>3
  <2>2. rest[i - lead] = s[i]
    <3>1. lead + (i - lead) = i
      BY <1>1
    <3> QED  BY <1>2, <2>1, <3>1
  <2> QED  BY <1>2, <1>3, <1>4, <2>1, <2>2
<1>7. \A j \in p + 1 .. Len(t) : j - k \in lead + 1 .. Len(s) /\ j = (j - k) + k
  BY <1>1, <1>2, <1>3, <1>4
<1>8. k \in Int
  BY <1>1, <1>3
<1>9. \A i \in ResultsIn(r, s) : i \in lead + 1 .. Len(s)
  BY <1>1 DEF ResultsIn
<1>10. \A j \in ResultsIn(r, t) : j \in p + 1 .. Len(t)
  BY <1>3, <1>4, <1>5 DEF ResultsIn
<1> HIDE DEF k
<1>11. ResultsIn(r, t) = {i + k : i \in ResultsIn(r, s)}
  <2>1. ASSUME NEW i \in ResultsIn(r, s) PROVE i + k \in ResultsIn(r, t)
    <3>1. i + k \in p + 1 .. Len(t) /\ t[i + k] = s[i]
      BY <1>6, <1>9
    <3>2. i + k \in 1 .. Len(t)
      BY <1>3, <3>1
    <3> QED  BY <3>1, <3>2 DEF ResultsIn
  <2>2. ASSUME NEW j \in ResultsIn(r, t)
        PROVE  j - k \in ResultsIn(r, s) /\ j = (j - k) + k
    <3>1. j - k \in lead + 1 .. Len(s) /\ j = (j - k) + k
      BY <1>7, <1>10
    <3>2. t[j] = s[j - k]
      BY <1>6, <3>1
    <3>3. j - k \in 1 .. Len(s)
      BY <1>1, <3>1
    <3> QED  BY <3>1, <3>2, <3>3 DEF ResultsIn
  <2> QED  BY <2>1, <2>2
<1>12. \A i \in ResultsIn(r, s) : t[i + k] = s[i]
  BY <1>6, <1>9
<1>13. /\ HandoffsIn(r, t) = {i + k : i \in H}
       /\ ErrorsIn(r, t) = {i + k : i \in E}
  BY <1>11, <1>12 DEF HandoffsIn, ErrorsIn
<1>14. /\ H \subseteq 1 .. Len(s) /\ E \subseteq 1 .. Len(s)
       /\ IsFiniteSet(H) /\ IsFiniteSet(E)
       /\ \A i \in H : IsFiniteSet(Upto(H, i))
  BY CountFacts
<1>15. H \subseteq Int /\ E \subseteq Int /\ H \subseteq ResultsIn(r, s)
  BY <1>14 DEF HandoffsIn
<1> HIDE DEF H, E
<1>16. /\ Cardinality(HandoffsIn(r, t)) = Cardinality(H)
       /\ Cardinality(ErrorsIn(r, t)) = Cardinality(E)
  BY <1>8, <1>13, <1>14, <1>15, ShiftCardinality
<1>17. ASSUME NEW j \in HandoffsIn(r, t)
       PROVE  transfers[Cardinality(Upto(HandoffsIn(r, t), j))] = t[j].output
  <2>1. PICK i \in H : j = i + k
    BY <1>13
  <2>2. Upto(HandoffsIn(r, t), j) = {x + k : x \in Upto(H, i)}
    <3>1. \A x \in H : x + k <= i + k <=> x <= i
      BY <1>8, <1>15
    <3> QED  BY <1>13, <2>1, <3>1 DEF Upto
  <2>3. Upto(H, i) \subseteq Int
    BY <1>15 DEF Upto
  <2>4. Cardinality(Upto(HandoffsIn(r, t), j)) = Cardinality(Upto(H, i))
    BY <1>8, <1>14, <2>2, <2>3, ShiftCardinality
  <2>5. transfers[Cardinality(Upto(H, i))] = s[i].output
    BY DEF Tells, H
  <2> QED  BY <1>12, <1>15, <2>1, <2>4, <2>5
<1>18. Tells(r, t, transfers, toolErrs)
  BY <1>16, <1>17 DEF Tells, H, E
<1> QED  BY <1>18 DEF switchSystemMessage, t, rest

(* The moves.                                                              *)
LEMMA SilentTells ==
  ASSUME NEW r \in Runs, NEW me, TellInv(r, me), me.pc # "ended",
         NEW st, st.cur = me.cur, st.next = me.next, st.msgs = me.msgs,
         st.transfers = me.transfers, st.toolErrs = me.toolErrs
  PROVE  TellInv(r, st)
  BY DEF TellInv

LEMMA SaysTells ==
  ASSUME NEW r \in Runs, NEW me, TellInv(r, me), me.pc # "ended",
         me.msgs \in Seq(Message), NEW m \in Message, m.role # "tool",
         NEW st, st.cur = me.cur, st.next = me.next,
         st.msgs = Append(me.msgs, m),
         st.transfers = me.transfers, st.toolErrs = me.toolErrs
  PROVE  TellInv(r, st)
<1>1. Tells(r, st.msgs, me.transfers, me.toolErrs)
  BY TellsSilent DEF TellInv
<1> QED  BY <1>1 DEF TellInv

LEMMA CallTells ==
  ASSUME NEW r \in Runs, NEW me \in RunState, RunInv(r, me),
         TellInv(r, me), me.pc = "tools", me.calls # <<>>,
         NEW answer \in HandoffTo[me.cur] \cup {"ok", "error"}
  PROVE  TellInv(r, CallDone(r, me, answer))
<1> DEFINE m == Result(r, me.turn, NextCall(me), answer)
           msgs == Append(me.msgs, m)
           handoff == answer \in HandoffTo[me.cur]
           next == IF handoff THEN answer ELSE me.next
           transfers == IF handoff THEN Append(me.transfers, answer)
                                   ELSE me.transfers
           toolErrs == IF answer = "error" THEN me.toolErrs + 1
                                           ELSE me.toolErrs
           st == CallDone(r, me, answer)
<1>1. /\ st.cur = me.cur /\ st.next = next /\ st.msgs = msgs
      /\ st.transfers = transfers /\ st.toolErrs = toolErrs
  BY DEF CallDone, RunState
<1> HIDE DEF st
<1>2. /\ me.cur \in Agents /\ me.msgs \in Seq(Message) /\ me.msgs # <<>>
      /\ me.transfers \in Seq(Agents) /\ me.toolErrs \in Nat
      /\ HandoffTo[me.cur] \subseteq Agents
      /\ {"ok", "error"} \cap Agents = {}
  BY AgentRunAssumption DEF RunState, RunInv, StageInv
<1>3. me.turn \in Turns
  BY AgentRunAssumption DEF RunInv, StageInv, RunState, Turns
<1>4. NextCall(me) \in Nat
  <2>1. Last(me.msgs) \in Message
    BY <1>2 DEF Last
  <2> QED  BY <2>1, MessageFacts DEF NextCall
<1>5. /\ m \in Message /\ IsOwn(r, m) /\ m.role = "tool" /\ m.output = answer
  <2>1. answer \in Outputs
    BY <1>2 DEF Outputs
  <2> QED  BY <1>3, <1>4, <2>1, MessageKinds DEF Result
<1>6. handoff <=> answer \in Agents
  BY <1>2
<1> HIDE DEF m
<1>7. Tells(r, me.msgs, me.transfers, me.toolErrs)
  BY DEF TellInv
<1>8. Tells(r, msgs, transfers, toolErrs)
  <2>1. answer \in Agents \cup {"ok", "error"}
    BY <1>2
  <2>2. Tells(r, msgs,
              IF answer \in Agents THEN Append(me.transfers, answer)
                                   ELSE me.transfers, toolErrs)
    BY <1>2, <1>5, <1>7, <2>1, TellsResult
  <2> QED  BY <1>6, <2>2
<1>9. CASE handoff
  <2>1. /\ next = answer /\ answer \in Agents /\ answer # NoAgent
        /\ transfers = Append(me.transfers, answer)
    BY <1>2, <1>9, AgentRunAssumption
  <2>2. Last(transfers) = answer /\ transfers # <<>>
    BY <1>2, <2>1, SMTT(30) DEF Last
  <2> HIDE DEF next, transfers, toolErrs, msgs
  <2>3. TellInv(r, st)
    BY <1>1, <1>8, <2>1, <2>2 DEF TellInv
  <2> QED  BY <2>3 DEF st
<1>10. CASE ~handoff
  <2>1. next = me.next /\ transfers = me.transfers
    BY <1>10
  <2> HIDE DEF next, transfers, toolErrs, msgs
  <2>2. TellInv(r, st)
    BY <1>1, <1>8, <2>1 DEF TellInv
  <2> QED  BY <2>2 DEF st
<1> QED  BY <1>9, <1>10

LEMMA PrepareTells ==
  ASSUME NEW r \in Runs, NEW me \in RunState, RunInv(r, me),
         TellInv(r, me), me.pc = "compress"
  PROVE  TellInv(r, Prepared(r, me))
<1> DEFINE history == Compressed(me.msgs)
           st == Prepared(r, me)
<1>1. /\ st.cur = me.cur /\ st.next = me.next
      /\ st.msgs = Append(history, User(r))
      /\ st.transfers = me.transfers /\ st.toolErrs = me.toolErrs
  BY DEF Prepared, RunState
<1> HIDE DEF st
<1>2. me.msgs \in Seq(Message)
  BY DEF RunState
<1>3. history \in Seq(Message) /\ Within(history, me.msgs)
  BY <1>2, CompressedFacts
<1> HIDE DEF history
<1>4. \A i \in 1 .. Len(me.msgs) : ~IsOwn(r, me.msgs[i])
  BY DEF RunInv, FreshInv
<1>5. \A i \in 1 .. Len(history) : ~IsOwn(r, history[i])
  BY <1>3, <1>4 DEF Within, IsOwn
<1>6. Tells(r, history, me.transfers, me.toolErrs)
  BY <1>4, <1>5, TellsNone DEF TellInv
<1>7. User(r) \in Message /\ User(r).role # "tool"
  BY MessageKinds
<1>8. Tells(r, st.msgs, me.transfers, me.toolErrs)
  BY <1>1, <1>3, <1>6, <1>7, TellsSilent
<1>9. TellInv(r, st)
  BY <1>1, <1>8 DEF TellInv
<1> QED  BY <1>9 DEF st

LEMMA BeginTells ==
  ASSUME NEW r \in Runs, NEW me \in RunState, RunInv(r, me),
         TellInv(r, me), me.pc = "new", NEW heard \in Seq(Message),
         \A i \in 1 .. Len(heard) : ~IsOwn(r, heard[i])
  PROVE  TellInv(r, Loaded(r, me, heard))
<1> DEFINE msgs == withInstructions(StartAgent[r], heard)
           st == Loaded(r, me, heard)
<1>1. /\ st.cur = me.cur /\ st.next = me.next /\ st.msgs = msgs
      /\ st.transfers = me.transfers /\ st.toolErrs = me.toolErrs
  BY DEF Loaded, RunState
<1> HIDE DEF st
<1>2. msgs \in Seq(Message) /\ Within(msgs, heard)
  BY WithInstructionsFacts, AgentRunAssumption
<1> HIDE DEF msgs
<1>3. \A i \in 1 .. Len(msgs) : ~IsOwn(r, msgs[i])
  BY <1>2 DEF Within, IsOwn
<1>4. \A i \in 1 .. Len(me.msgs) : ~IsOwn(r, me.msgs[i])
  BY DEF RunInv, FreshInv
<1>5. Tells(r, msgs, me.transfers, me.toolErrs)
  BY <1>3, <1>4, TellsNone DEF TellInv
<1>6. TellInv(r, st)
  BY <1>1, <1>5 DEF TellInv
<1> QED  BY <1>6 DEF st

LEMMA NextTurnTells ==
  ASSUME NEW r \in Runs, NEW me \in RunState, TellInv(r, me),
         me.pc = "tools", NEW cur, NEW msgs,
         Tells(r, msgs, me.transfers, me.toolErrs),
         IF me.next = NoAgent THEN cur = me.cur ELSE cur = me.next
  PROVE  TellInv(r, NextTurn(me, cur, msgs))
<1> DEFINE st == NextTurn(me, cur, msgs)
<1>1. /\ st.cur = cur /\ st.next = NoAgent /\ st.msgs = msgs
      /\ st.transfers = me.transfers /\ st.toolErrs = me.toolErrs
  BY DEF NextTurn, RunState
<1> HIDE DEF st
<1>2. TellInv(r, st)
  BY <1>1 DEF TellInv
<1> QED  BY <1>2 DEF st

LEMMA StillTells ==
  ASSUME NEW r \in Runs, NEW me \in RunState, TellInv(r, me),
         me.pc # "ended"
  PROVE  /\ \A i, v : /\ TellInv(r, InputVerdict(me, i, v))
                      /\ TellInv(r, OutputVerdict(me, i, v))
         /\ TellInv(r, Past(me)) /\ TellInv(r, AtChat(me))
         /\ TellInv(r, Cancelled(me))
         /\ \A outcome : TellInv(r, Ended(me, outcome))
<1> DEFINE Same(st) == /\ st.cur = me.cur /\ st.next = me.next
                       /\ st.msgs = me.msgs /\ st.transfers = me.transfers
                       /\ st.toolErrs = me.toolErrs
<1>1. \A i, v : Same(InputVerdict(me, i, v)) /\ Same(OutputVerdict(me, i, v))
  BY DEF InputVerdict, OutputVerdict, RunState
<1>2. Same(Past(me)) /\ Same(AtChat(me)) /\ Same(Cancelled(me))
  BY DEF Past, AtChat, Cancelled, RunState
<1>3. \A outcome : Same(Ended(me, outcome))
  BY DEF Ended, RunState
<1>4. ASSUME NEW st, Same(st) PROVE TellInv(r, st)
  BY <1>4, SilentTells
<1> HIDE DEF Same
<1> QED  BY <1>1, <1>2, <1>3, <1>4

LEMMA MovesTell ==
  ASSUME NEW r \in Runs, NEW me \in RunState, RunInv(r, me),
         TellInv(r, me), NEW st, Moves(r, me, st), session \in Seq(Message),
         me.pc = "new" =>
           \A i \in 1 .. Len(session) : ~IsOwn(r, session[i])
  PROVE  TellInv(r, st)
<1>0. me.msgs \in Seq(Message) /\ me.cur \in Agents
  BY DEF RunState
<1>1. CASE me.pc = "new" /\ st = Loaded(r, me, session)
  BY <1>1, BeginTells
<1>2. CASE me.pc = "compress" /\ st = Prepared(r, me)
  BY <1>2, PrepareTells
<1>3. CASE /\ me.pc # "ended"
           /\ \/ \E i, v : \/ st = InputVerdict(me, i, v)
                           \/ st = OutputVerdict(me, i, v)
              \/ st = AtChat(me) \/ st = Past(me) \/ st = Cancelled(me)
              \/ \E outcome : st = Ended(me, outcome)
  BY <1>3, StillTells
<1>4. CASE me.pc = "chat" /\ st = FinalGiven(r, me)
  <2> DEFINE m == Assistant(r, me.turn, <<>>)
  <2>1. me.turn \in Turns /\ <<>> \in Seq(Names)
    BY <1>4, AgentRunAssumption DEF RunInv, StageInv, RunState, Turns
  <2>2. m \in Message /\ m.role # "tool"
    BY <2>1, MessageKinds DEF Assistant
  <2>3. /\ st.cur = me.cur /\ st.next = me.next
        /\ st.msgs = Append(me.msgs, m)
        /\ st.transfers = me.transfers /\ st.toolErrs = me.toolErrs
    BY <1>4 DEF FinalGiven, RunState
  <2> HIDE DEF m
  <2> QED  BY <1>0, <1>4, <2>2, <2>3, SaysTells
<1>5. ASSUME NEW calls \in Answers, me.pc = "chat",
             st = CallsAsked(r, me, calls)
      PROVE  TellInv(r, st)
  <2> DEFINE m == Assistant(r, me.turn, calls)
  <2>1. me.turn \in Turns /\ calls \in Seq(Names)
    BY <1>5, AgentRunAssumption DEF RunInv, StageInv, RunState, Turns
  <2>2. m \in Message /\ m.role # "tool"
    BY <2>1, MessageKinds DEF Assistant
  <2>3. /\ st.cur = me.cur /\ st.next = me.next
        /\ st.msgs = Append(me.msgs, m)
        /\ st.transfers = me.transfers /\ st.toolErrs = me.toolErrs
    BY <1>5 DEF CallsAsked, RunState
  <2> HIDE DEF m
  <2> QED  BY <1>0, <1>5, <2>2, <2>3, SaysTells
<1>6. ASSUME NEW answer \in HandoffTo[me.cur] \cup {"ok", "error"},
             me.pc = "tools", me.calls # <<>>, st = CallDone(r, me, answer)
      PROVE  TellInv(r, st)
  BY <1>6, CallTells
<1>7. Tells(r, me.msgs, me.transfers, me.toolErrs) \/ me.pc = "ended"
  BY DEF TellInv
<1>8. CASE /\ me.pc = "tools" /\ me.next = NoAgent
           /\ st = NextTurn(me, me.cur, me.msgs)
  BY <1>7, <1>8, NextTurnTells
<1>9. CASE /\ me.pc = "tools" /\ me.next \in Agents
           /\ st = NextTurn(me, me.next,
                            switchSystemMessage(me.msgs, me.next))
  <2>1. Tells(r, switchSystemMessage(me.msgs, me.next),
              me.transfers, me.toolErrs)
    BY <1>0, <1>7, <1>9, TellsSwitch
  <2>2. me.next # NoAgent
    BY <1>9, AgentRunAssumption
  <2> QED  BY <1>9, <2>1, <2>2, NextTurnTells
<1>10. CASE me.outcome = "max_turns" /\ st = Ended(me, "carried")
  <2>1. st.pc = "ended" /\ st.outcome = "carried"
    BY <1>10, EndedFacts
  <2> QED  BY <2>1 DEF TellInv
<1> QED
  BY <1>1, <1>2, <1>3, <1>4, <1>5, <1>6, <1>8, <1>9, <1>10 DEF Moves

LEMMA ToldInitHolds == Init => ToldInv
<1> SUFFICES ASSUME Init, NEW r \in Runs PROVE TellInv(r, run[r])
  BY InitHolds DEF ToldInv
<1>1. /\ run[r].msgs = <<>> /\ run[r].transfers = <<>>
      /\ run[r].toolErrs = 0 /\ run[r].next = NoAgent
      /\ run[r].cur = StartAgent[r]
  BY DEF Init, NewRun
<1>2. HandoffsIn(r, <<>>) = {} /\ ErrorsIn(r, <<>>) = {}
  BY DEF HandoffsIn, ErrorsIn, ResultsIn
<1>3. Tells(r, <<>>, <<>>, 0)
  BY <1>2, FS_EmptySet DEF Tells
<1> QED  BY <1>1, <1>3 DEF TellInv

LEMMA StepKeepsTold ==
  ASSUME ToldInv, [Next]_vars
  PROVE  ToldInv'
<1>1. IInv /\ IInv'
  BY StepKeepsIInv DEF ToldInv
<1>2. ASSUME NEW r \in Runs, StepOf(r) PROVE ToldInv'
  <2>1. Advances(r)
    BY <1>1, <1>2, StepAdvances
  <2>2. \A q \in Runs \ {r} : run'[q] = run[q]
    BY <1>1, <2>1 DEF Advances, IInv, Types
  <2>3. /\ run[r] \in RunState /\ RunInv(r, run[r]) /\ TellInv(r, run[r])
        /\ session \in Seq(Message)
    BY <1>1, StateFacts DEF ToldInv, IInv, Types
  <2>4. \A i \in 1 .. Len(session) : ~IsOwn(r, session[i])
    BY <1>1, <2>1 DEF IInv, SessionInv, Advances, IsOwn
  <2>5. TellInv(r, run'[r])
    BY <2>1, <2>3, <2>4, MovesTell DEF Advances
  <2> QED  BY <1>1, <2>2, <2>5 DEF ToldInv
<1>3. CASE UNCHANGED vars
  BY <1>1, <1>3 DEF vars, ToldInv
<1> QED  BY <1>2, <1>3 DEF Next, StepOf, Terminated

(* The result of a run that succeeded agrees with the messages it          *)
(* produced, through any handoffs, whether or not they change the prompt.  *)
THEOREM ResultTellsHolds == Spec => []ResultTells
<1>1. Init => ToldInv
  BY ToldInitHolds
<1>2. ToldInv /\ [Next]_vars => ToldInv'
  BY StepKeepsTold
<1>3. ToldInv => ResultTells
  <2> SUFFICES ASSUME ToldInv, NEW r \in Runs, run[r].outcome = "done"
               PROVE  LET me == run[r]
                          results ==
                            {i \in OwnAt(r) : me.msgs[i].role = "tool"}
                          handoffs ==
                            {i \in results : me.msgs[i].output \in Agents}
                          errors ==
                            {i \in results : me.msgs[i].output = "error"}
                          Rank(i) == Cardinality({j \in handoffs : j <= i})
                      IN  /\ Len(me.transfers) = Cardinality(handoffs)
                          /\ \A i \in handoffs :
                               me.transfers[Rank(i)] = me.msgs[i].output
                          /\ me.cur = IF me.transfers = <<>>
                                        THEN StartAgent[r]
                                        ELSE Last(me.transfers)
                          /\ me.toolErrs = Cardinality(errors)
    BY DEF ResultTells
  <2> DEFINE me == run[r]
  <2>1. /\ TellInv(r, me) /\ RunInv(r, me) /\ me.outcome = "done"
        /\ me.msgs \in Seq(Message) /\ DOMAIN me.msgs = 1 .. Len(me.msgs)
    BY StateFacts DEF ToldInv, IInv
  <2>2. {i \in OwnAt(r) : me.msgs[i].role = "tool"} = ResultsIn(r, me.msgs)
    BY <2>1 DEF OwnAt, ResultsIn
  <2>3. me.next = NoAgent
    BY <2>1 DEF RunInv, StageInv
  <2> QED  BY <2>1, <2>2, <2>3 DEF TellInv, Tells, HandoffsIn, ErrorsIn, Upto
<1> QED  BY <1>1, <1>2, <1>3, PTL DEF Spec

=============================================================================
