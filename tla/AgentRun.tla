------------------------------ MODULE AgentRun ------------------------------
(***************************************************************************)
(* The run loop of package agent (src/agent/runner.go) over one session:   *)
(* several runs, started with RunWithSession from different goroutines,    *)
(* load the session, gate their input with guardrails, call the model in   *)
(* turns, answer its tool calls, hand the conversation over to other       *)
(* agents, gate their output and append what they produced to the session. *)
(*                                                                         *)
(* The model, the tools, the guardrail functions and the session store are *)
(* external: a call of one of them returns any outcome, in any time.  The  *)
(* operations of the session are atomic.                                   *)
(***************************************************************************)
EXTENDS Transcript, FiniteSets, SequencesExt

CONSTANTS
  NoAgent,
  Instructed,     \* the agents with instructions
  HandoffTo,      \* the agents each agent has a handoff to
  Misconfigured,  \* the agents whose tools and handoffs clash
  StartAgent,     \* the agent each run is started with
  InputGuards,    \* how many input guardrails each agent has
  OutputGuards,   \* how many output guardrails
  Keep,           \* the window of Runner.Compressor, 0 without a compressor
  Answers         \* the calls an answer of the model may ask for

ASSUME AgentRunAssumption ==
  /\ MaxTurns \in Nat \ {0}
  /\ NoAgent \notin Agents
  /\ {Tool, "ok", "error"} \cap Agents = {}   \* told apart by their values
  /\ Instructed \subseteq Agents /\ Misconfigured \subseteq Agents
  /\ HandoffTo \in [Agents -> SUBSET Agents]
  /\ StartAgent \in [Runs -> Agents]
  /\ InputGuards \in [Agents -> Nat] /\ OutputGuards \in [Agents -> Nat]
  /\ Keep \in Nat
  /\ Answers \subseteq Seq(Names)

VARIABLES
  session,      \* the messages the session holds
  run           \* the state of each run

vars == <<session, run>>

(* Where a run is: before RunWithSession has loaded the session, before    *)
(* the compressor, in a guardrail stage, at the top of the turn loop, in   *)
(* the model call, in the tool calls, at the write-back, or returned.      *)
Stages == {"input", "output"}
Locations ==
  {"new", "compress", "turn", "chat", "tools", "persist", "ended"} \cup Stages

Outcomes == {"running", "done", "max_turns", "carried", "guard_error",
             "tripwire", "failed"}
Verdicts == {"pass", "error", "trip"}

NewRun(r) ==
  [ pc |-> "new", ctxDone |-> FALSE, cur |-> StartAgent[r], msgs |-> <<>>,
    base |-> 0, turn |-> 0, calls |-> <<>>, next |-> NoAgent,
    input |-> <<>>, output |-> <<>>, toolErrs |-> 0, transfers |-> <<>>,
    outcome |-> "running" ]

Init == session = <<>> /\ run = [r \in Runs |-> NewRun(r)]

-----------------------------------------------------------------------------
(* Helpers of the loop.                                                    *)

At(r, location) == run[r].pc = location
Set(r, state) == run' = [run EXCEPT ![r] = state]

(* run returns: with a result, or with the error outcome names.            *)
Return(r, outcome) == [run[r] EXCEPT !.pc = "ended", !.outcome = outcome]

IsSystem(m) == m.role = "system"

(* The leading system messages of s, and what follows them.                *)
Leading(s) ==
  CHOOSE n \in 0 .. Len(s) :
    /\ \A i \in 1 .. n : IsSystem(s[i])
    /\ n < Len(s) => ~IsSystem(s[n + 1])
Systems(s) == SubSeq(s, 1, Leading(s))
Rest(s)    == SubSeq(s, Leading(s) + 1, Len(s))

Prompt(a) == IF a \in Instructed THEN <<System(a)>> ELSE <<>>

withInstructions(a, history) ==
  IF Leading(history) > 0 THEN history ELSE Prompt(a) \o history

(* The compressor: SlidingWindow.                                          *)
Compressed(history) ==
  LET rest == Rest(history)
  IN  IF Keep = 0 \/ Len(rest) <= Keep
        THEN history
        ELSE Systems(history) \o SubSeq(rest, Len(rest) - Keep + 1, Len(rest))

switchSystemMessage(msgs, target) == Prompt(target) \o Rest(msgs)

(* What persistTurn appends and MaxTurnsError carries.                     *)
Produced(r) == SubSeq(run[r].msgs, run[r].base + 1, Len(run[r].msgs))

(* The verdicts of a stage are judged together: errors first.              *)
Judged(verdicts) ==
  CASE Contains(verdicts, "error") -> "guard_error"
    [] Contains(verdicts, "trip") /\ ~Contains(verdicts, "error") -> "tripwire"
    [] OTHER -> "pass"

Pending(n) == [i \in 1 .. n |-> "pending"]

-----------------------------------------------------------------------------
(* The steps of a run.                                                     *)

Begin(r) ==
  /\ At(r, "new")
  /\ Set(r, [run[r] EXCEPT
       !.pc = "compress",
       !.msgs = withInstructions(StartAgent[r], session)])
  /\ UNCHANGED session

(* Variant: the compressed history and the loaded one are confused.        *)
PrepareUncompressed(r) ==
  /\ At(r, "compress")
  /\ LET history == Compressed(run[r].msgs)
     IN  Set(r, IF run[r].cur \in Misconfigured
                  THEN Return(r, "failed")
                  ELSE [run[r] EXCEPT
                    !.pc = "input",
                    !.msgs = Append(history, User(r)),
                    !.base = Len(run[r].msgs),
                    !.input = Pending(InputGuards[run[r].cur])])
  /\ UNCHANGED session

(* The history is compressed, the input appended, the agent's tools and    *)
(* handoffs are compiled, and its input guardrails start.                  *)
Prepare(r) ==
  /\ At(r, "compress")
  /\ LET history == Compressed(run[r].msgs)
     IN  Set(r, IF run[r].cur \in Misconfigured
                  THEN Return(r, "failed")
                  ELSE [run[r] EXCEPT
                    !.pc = "input",
                    !.msgs = Append(history, User(r)),
                    !.base = Len(history),
                    !.input = Pending(InputGuards[run[r].cur])])
  /\ UNCHANGED session

(* A guardrail of the current stage returns, in its own goroutine.         *)
GuardrailReturns(r, i) ==
  /\ run[r].pc \in Stages
  /\ i \in DOMAIN run[r][run[r].pc]
  /\ run[r][run[r].pc][i] = "pending"
  /\ \E v \in Verdicts :
       Set(r, IF At(r, "input") THEN [run[r] EXCEPT !.input[i] = v]
                                ELSE [run[r] EXCEPT !.output[i] = v])
  /\ UNCHANGED session

Judge(r) ==
  /\ run[r].pc \in Stages
  /\ LET verdicts == run[r][run[r].pc]
         judgement == Judged(verdicts)
     IN  /\ ~Contains(verdicts, "pending")
         /\ Set(r, IF judgement # "pass" THEN Return(r, judgement)
                   ELSE [run[r] EXCEPT
                     !.pc = IF At(r, "input") THEN "turn" ELSE "persist"])
  /\ UNCHANGED session

(* Variant: one turn too many.                                             *)
StartTurnOnceMore(r) ==
  /\ At(r, "turn")
  /\ run[r].turn <= MaxTurns
  /\ Set(r, IF run[r].ctxDone THEN Return(r, "failed")
                              ELSE [run[r] EXCEPT !.pc = "chat"])
  /\ UNCHANGED session

(* The top of the turn loop.                                               *)
StartTurn(r) ==
  /\ At(r, "turn")
  /\ run[r].turn < MaxTurns
  /\ Set(r, IF run[r].ctxDone THEN Return(r, "failed")
                              ELSE [run[r] EXCEPT !.pc = "chat"])
  /\ UNCHANGED session

MaxTurnsExceeded(r) ==
  /\ At(r, "turn")
  /\ run[r].turn = MaxTurns
  /\ Set(r, Return(r, "max_turns"))
  /\ UNCHANGED session

(* Variant: the output guardrails of the agent the run started with.       *)
FinalAnswerOfStarter(r) ==
  /\ At(r, "chat")
  /\ <<>> \in Answers
  /\ Set(r, [run[r] EXCEPT
       !.pc = "output",
       !.msgs = Append(@, Assistant(r, run[r].turn, <<>>)),
       !.output = Pending(OutputGuards[StartAgent[r]])])
  /\ UNCHANGED session

Answer(r) ==
  /\ At(r, "chat")
  /\ <<>> \in Answers
  /\ Set(r, [run[r] EXCEPT
       !.pc = "output",
       !.msgs = Append(@, Assistant(r, run[r].turn, <<>>)),
       !.output = Pending(OutputGuards[run[r].cur])])
  /\ UNCHANGED session

AskForCalls(r) ==
  /\ At(r, "chat")
  /\ \E calls \in Answers \ {<<>>} :
       Set(r, [run[r] EXCEPT
         !.pc = "tools",
         !.msgs = Append(@, Assistant(r, run[r].turn, calls)),
         !.calls = calls])
  /\ UNCHANGED session

(* The call being answered is Head(run[r].calls); the ID of a call is its  *)
(* position in its assistant message.                                      *)
Answering(r, output) ==
  LET last == Last(run[r].msgs)
      i    == IF last.role = "tool" THEN last.call + 1 ELSE 1
  IN  [run[r] EXCEPT
        !.msgs = Append(@, Result(r, run[r].turn, i, output)),
        !.calls = Tail(@)]

(* Variant: the loop stops at the first handoff call.                      *)
HandoffCallAtOnce(r) ==
  /\ At(r, "tools")
  /\ run[r].calls # <<>>
  /\ LET target == Head(run[r].calls)
     IN  /\ target \in HandoffTo[run[r].cur]
         /\ Set(r, [Answering(r, target) EXCEPT
              !.transfers = Append(@, target), !.next = target,
              !.calls = <<>>])
  /\ UNCHANGED session

HandoffCall(r) ==
  /\ At(r, "tools")
  /\ run[r].calls # <<>>
  /\ LET target == Head(run[r].calls)
     IN  /\ target \in HandoffTo[run[r].cur]
         /\ Set(r, [Answering(r, target) EXCEPT
              !.transfers = Append(@, target), !.next = target])
  /\ UNCHANGED session

(* Variant: only tools that ran are counted as failed.                     *)
ToolCallUncounted(r) ==
  /\ At(r, "tools")
  /\ run[r].calls # <<>>
  /\ LET name == Head(run[r].calls)
     IN  /\ name \notin HandoffTo[run[r].cur]
         /\ \E output \in IF name = Tool THEN {"ok", "error"} ELSE {"error"} :
              Set(r, [Answering(r, output) EXCEPT
                !.toolErrs = IF output = "error" /\ name = Tool
                               THEN @ + 1 ELSE @])
  /\ UNCHANGED session

(* A regular tool, or the name of no tool of this agent.                   *)
ToolCall(r) ==
  /\ At(r, "tools")
  /\ run[r].calls # <<>>
  /\ LET name == Head(run[r].calls)
     IN  /\ name \notin HandoffTo[run[r].cur]
         /\ \E output \in IF name = Tool THEN {"ok", "error"} ELSE {"error"} :
              Set(r, [Answering(r, output) EXCEPT
                !.toolErrs = IF output = "error" THEN @ + 1 ELSE @])
  /\ UNCHANGED session

EndTurn(r) ==
  /\ At(r, "tools")
  /\ run[r].calls = <<>>
  /\ LET target == run[r].next
         nextTurn == [run[r] EXCEPT !.pc = "turn", !.turn = @ + 1,
                                    !.next = NoAgent]
     IN  Set(r, CASE target = NoAgent -> nextTurn
                  [] target \in Misconfigured -> Return(r, "failed")
                  [] OTHER -> [nextTurn EXCEPT
                       !.cur = target,
                       !.msgs = switchSystemMessage(@, target)])
  /\ UNCHANGED session

Persist(r) ==
  /\ At(r, "persist")
  /\ session' = session \o Produced(r)
  /\ Set(r, Return(r, "done"))

(* The session, the compressor or the model returns an error.              *)
CallFails(r) ==
  /\ \/ run[r].pc \in {"new", "chat", "persist"}
     \/ At(r, "compress") /\ Keep > 0
  /\ Set(r, Return(r, "failed"))
  /\ UNCHANGED session

Step(r) ==
  \/ Begin(r) \/ Prepare(r)
  \/ \E i \in DOMAIN run[r].input \cup DOMAIN run[r].output :
       GuardrailReturns(r, i)
  \/ Judge(r) \/ StartTurn(r) \/ MaxTurnsExceeded(r)
  \/ Answer(r) \/ AskForCalls(r) \/ HandoffCall(r) \/ ToolCall(r) \/ EndTurn(r)
  \/ Persist(r) \/ CallFails(r)

-----------------------------------------------------------------------------
(* The caller.                                                             *)

Cancel(r) ==
  /\ ~At(r, "ended") /\ ~run[r].ctxDone
  /\ Set(r, [run[r] EXCEPT !.ctxDone = TRUE])
  /\ UNCHANGED session

(* The caller appends the messages of a MaxTurnsError to the session.      *)
CarryForward(r) ==
  /\ run[r].outcome = "max_turns"
  /\ session' = session \o Produced(r)
  /\ Set(r, Return(r, "carried"))

Terminated == (\A r \in Runs : At(r, "ended")) /\ UNCHANGED vars

Next ==
  \/ \E r \in Runs : Step(r) \/ Cancel(r) \/ CarryForward(r)
  \/ Terminated

Spec == Init /\ [][Next]_vars

-----------------------------------------------------------------------------
(* Properties.                                                             *)

(* Every variable holds a value of its kind.                               *)
TypeOK ==
  /\ session \in Seq(Message)
  /\ run \in [Runs ->
       [ pc : Locations, ctxDone : BOOLEAN, cur : Agents, msgs : Seq(Message),
         base : Nat, turn : 0 .. MaxTurns, calls : Seq(Names),
         next : Agents \cup {NoAgent}, input : Seq(Verdicts \cup {"pending"}),
         output : Seq(Verdicts \cup {"pending"}), toolErrs : Nat,
         transfers : Seq(Agents), outcome : Outcomes ]]

(* Where the messages of run r stand in its conversation: its input, the   *)
(* answers it was given and the results of their calls.                    *)
IsOwn(r, m) == ~IsSystem(m) /\ m.run = r
OwnAt(r) == {i \in DOMAIN run[r].msgs : IsOwn(r, run[r].msgs[i])}

(* The window of the compressor may begin between an assistant message and *)
(* the results of its calls: then those results open the history.          *)
CutOff(msgs, j) == Keep > 0 /\ \A i \in 1 .. j : msgs[i].role \in {"system", "tool"}

(* Every request a run sends to the model starts with the instructions of  *)
(* the agent that has the conversation, and no others, and ends with the   *)
(* run's own input and answered calls.  In all of it, the history of other *)
(* runs included, each call has its result, and each result its call, but  *)
(* for the results at the head of the history whose call the compressor    *)
(* cut off: whatever was handed over, to whom, and whatever other runs did *)
(* to the session meanwhile.                                               *)
RequestsValid ==
  \A r \in Runs : At(r, "chat") =>
    LET msgs == run[r].msgs
    IN  /\ Systems(msgs) = Prompt(run[r].cur)
        /\ \A i \in Leading(msgs) + 1 .. Len(msgs) : ~IsSystem(msgs[i])
        /\ \E n \in DOMAIN msgs :
             /\ OwnAt(r) = n .. Len(msgs)
             /\ OpenTurn(r, SubSeq(msgs, n, Len(msgs)))
        /\ \A i \in DOMAIN msgs :
             CallsHaveResults(msgs, i) /\ (ResultHasCall(msgs, i) \/ CutOff(msgs, i))

(* A model is called only after every input guardrail passed, a result is  *)
(* published only after every output guardrail of the agent that gave it   *)
(* passed, and the failure reported is that of an erring guardrail before  *)
(* that of a tripwire, in whatever order the guardrails returned.          *)
GuardrailsGate ==
  \A r \in Runs :
    LET me == run[r]
        All(verdicts, v) == \A i \in DOMAIN verdicts : verdicts[i] = v
        seen == Range(me.input) \cup Range(me.output)
    IN  /\ (\E i \in OwnAt(r) : me.msgs[i].role = "assistant") =>
             Len(me.input) = InputGuards[StartAgent[r]] /\ All(me.input, "pass")
        /\ me.outcome = "done" =>
             Len(me.output) = OutputGuards[me.cur] /\ All(me.output, "pass")
        /\ me.outcome = "guard_error" => "error" \in seen /\ "pending" \notin seen
        /\ me.outcome = "tripwire" =>
             "trip" \in seen /\ {"error", "pending"} \cap seen = {}

(* The result of a run agrees with the messages it produced: Transfers     *)
(* lists the handoffs recorded in them, in order, Agent is the last of     *)
(* them, and ToolErrors has an entry for each error fed back.              *)
ResultTells ==
  \A r \in Runs : run[r].outcome = "done" =>
    LET me == run[r]
        results == {i \in OwnAt(r) : me.msgs[i].role = "tool"}
        handoffs == {i \in results : me.msgs[i].output \in Agents}
        errors == {i \in results : me.msgs[i].output = "error"}
        Rank(i) == Cardinality({j \in handoffs : j <= i})
    IN  /\ Len(me.transfers) = Cardinality(handoffs)
        /\ \A i \in handoffs : me.transfers[Rank(i)] = me.msgs[i].output
        /\ me.cur = IF me.transfers = <<>> THEN StartAgent[r]
                                           ELSE Last(me.transfers)
        /\ me.toolErrs = Cardinality(errors)

(* The runs keep the promises of Conversation: the session grows by whole  *)
(* turns, each of one run that succeeded (or was carried forward), however *)
(* the runs interleave and whatever the compressor cut from their view.    *)
Promised == INSTANCE Conversation WITH
  content <- session,
  fate <- [r \in Runs |->
             IF run[r].outcome \in {"guard_error", "tripwire"} THEN "failed"
                                                          ELSE run[r].outcome]
KeepsPromises == Promised!CSpec

(* As RunWithSession documents it: a run that succeeds appends its user    *)
(* input and everything generated after it.  The code does not keep this   *)
(* when a handoff changes whether there is a system prompt: persistTurn    *)
(* still skips the length of the history before the switch.                *)
AppendsItsTurn ==
  [][\A r \in Runs :
       (run'[r].outcome = "done" /\ run[r].outcome = "running") =>
          CompleteTurn(r, SubSeq(session', Len(session) + 1, Len(session')))]_vars
=============================================================================
