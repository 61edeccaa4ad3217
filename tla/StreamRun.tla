----------------------------- MODULE StreamRun ------------------------------
(***************************************************************************)
(* Streaming runs of package agent (src/agent/stream.go, delegate.go): the *)
(* goroutine of a run sends events through a bounded channel to a reader   *)
(* that may stop reading; a run started by the caller may delegate a tool  *)
(* call to a child run with a goroutine and a channel of its own, whose    *)
(* events it forwards.                                                     *)
(*                                                                         *)
(* The transcript, the agents and the session are those of AgentRun and    *)
(* left out here: the model, the tools and the guardrails succeed or fail. *)
(* A turn asks for one call, and a child delegates nothing.                *)
(***************************************************************************)
EXTENDS Integers, Sequences, FiniteSets, SequencesExt

CONSTANTS
  Buffer,       \* capacity of a run's channel (256 in the code)
  RootTurns,    \* MaxTurns of the caller's runner
  ChildTurns,   \* MaxTurns of the runner that delegated calls use
  MaxDeltas     \* bound: incremental events of one model call

ASSUME StreamAssumption ==
  /\ Buffer \in Nat \ {0}
  /\ RootTurns \in Nat \ {0}
  /\ ChildTurns \in Nat \ {0}
  /\ MaxDeltas \in Nat

VARIABLES
  pc,           \* where the goroutine of each run is
  out,          \* the send it is blocked in, if any
  turn,         \* turns completed
  deltas,       \* incremental events of the current model call
  log,          \* every event put into the run's channel
  unread,       \* how many of them are still in it
  res,          \* the outcome, once decided, which Result returns in the end
  ctxDone,      \* the run's context is done
  began         \* how many events of the root precede its last delegation

vars == <<pc, out, turn, deltas, log, unread, res, ctxDone, began>>

Root  == "root"
Child == "child"
Runs  == {Root, Child}
MaxTurns(r) == IF r = Root THEN RootTurns ELSE ChildTurns

Locations ==
  {"idle", "begin", "setup", "turn", "model", "answer", "handoff", "spawn",
   "forward", "drain", "delegated", "result", "switch", "endturn", "failed",
   "closing", "closed"}

Lifecycle == {"run_started", "final_output", "run_error"}
Terminal  == {"final_output", "run_error"}
Types == Lifecycle \cup
  {"delta", "usage", "tool_result", "handoff", "task_started",
   "task_completed", "task_failed"}
Event(type, r) == [type |-> type, run |-> r]
Events == [type : Types, run : Runs]

(* A send: the event, where the run goes on once it is in the channel, and *)
(* where when the context ends first ("none" for a send that ignores it).  *)
Idle == [to |-> "none"]

Init ==
  /\ pc = [r \in Runs |-> IF r = Root THEN "begin" ELSE "idle"]
  /\ out = [r \in Runs |-> Idle]
  /\ turn = [r \in Runs |-> 0]
  /\ deltas = [r \in Runs |-> 0]
  /\ log = [r \in Runs |-> <<>>]
  /\ unread = [r \in Runs |-> 0]
  /\ res = [r \in Runs |-> "none"]
  /\ ctxDone = [r \in Runs |-> FALSE]
  /\ began = 0

-----------------------------------------------------------------------------
(* Helpers.                                                                *)

At(r, location) == pc[r] = location /\ out[r] = Idle
Goto(r, location) == pc' = [pc EXCEPT ![r] = location]

Room(r) == unread[r] < Buffer

(* Begin the send of event; the goroutine is blocked until it is over.     *)
Send(r, event, sent, aborted) ==
  out' = [out EXCEPT ![r] = [to |-> sent, abort |-> aborted, event |-> event]]

sendEvent(r, type, sent, aborted) == Send(r, Event(type, r), sent, aborted)

(* The run's channel is closed and empty.                                  *)
Drained(r) == pc[r] = "closed" /\ unread[r] = 0

-----------------------------------------------------------------------------
(* The sends.                                                              *)

Put(r) ==
  /\ out[r] # Idle
  /\ Room(r)
  /\ log' = [log EXCEPT ![r] = Append(@, out[r].event)]
  /\ unread' = [unread EXCEPT ![r] = @ + 1]
  /\ Goto(r, out[r].to)
  /\ out' = [out EXCEPT ![r] = Idle]
  /\ UNCHANGED <<turn, deltas, res, ctxDone, began>>

(* Both channels of the select may be ready: either may be taken.          *)
Abort(r) ==
  /\ out[r] # Idle
  /\ out[r].abort # "none"
  /\ ctxDone[r]
  /\ Goto(r, out[r].abort)
  /\ out' = [out EXCEPT ![r] = Idle]
  /\ UNCHANGED <<turn, deltas, log, unread, res, ctxDone, began>>

-----------------------------------------------------------------------------
(* The run.                                                                *)

(* The session could not be loaded: a stream of one error event.           *)
LoadFails ==
  /\ At(Root, "begin")
  /\ log' = [log EXCEPT ![Root] = <<Event("run_error", Root)>>]
  /\ unread' = [unread EXCEPT ![Root] = 1]
  /\ res' = [res EXCEPT ![Root] = "error"]
  /\ Goto(Root, "closed")
  /\ UNCHANGED <<out, turn, deltas, ctxDone, began>>

Begin(r) ==
  /\ At(r, "begin")
  /\ sendEvent(r, "run_started", "setup", "setup")
  /\ UNCHANGED <<pc, turn, deltas, log, unread, res, ctxDone, began>>

(* The compressor, the agent's tools and the input guardrails; the model   *)
(* call, the output guardrails and the write-back; the next agent's tools: *)
(* each may fail the run.  Validation can fail only for the root: a child  *)
(* is validated before it is started.                                      *)
Fails(r) ==
  /\ \/ \E l \in {"setup", "model", "answer", "switch"} : At(r, l)
     \/ r = Root /\ At(r, "begin")
  /\ Goto(r, "failed")
  /\ UNCHANGED <<out, turn, deltas, log, unread, res, ctxDone, began>>

Setup(r) ==
  /\ At(r, "setup")
  /\ Goto(r, "turn")
  /\ UNCHANGED <<out, turn, deltas, log, unread, res, ctxDone, began>>

(* Variant: the loop makes one turn more than MaxTurns.                    *)
StartTurnOnceMore(r) ==
  /\ At(r, "turn")
  /\ Goto(r, IF turn[r] > MaxTurns(r) \/ ctxDone[r] THEN "failed" ELSE "model")
  /\ UNCHANGED <<out, turn, deltas, log, unread, res, ctxDone, began>>

StartTurn(r) ==
  /\ At(r, "turn")
  /\ Goto(r, IF turn[r] = MaxTurns(r) \/ ctxDone[r] THEN "failed" ELSE "model")
  /\ UNCHANGED <<out, turn, deltas, log, unread, res, ctxDone, began>>

Delta(r) ==
  /\ At(r, "model")
  /\ deltas[r] < MaxDeltas
  /\ deltas' = [deltas EXCEPT ![r] = @ + 1]
  /\ sendEvent(r, "delta", "model", "failed")
  /\ UNCHANGED <<pc, turn, log, unread, res, ctxDone, began>>

ModelEnds(r) ==
  /\ At(r, "model")
  /\ deltas' = [deltas EXCEPT ![r] = 0]
  /\ sendEvent(r, "usage", "answer", "failed")
  /\ UNCHANGED <<pc, turn, log, unread, res, ctxDone, began>>

(* The final answer passed the output guardrails and was written back.     *)
FinalAnswer(r) ==
  /\ At(r, "answer")
  /\ res' = [res EXCEPT ![r] = "ok"]
  /\ Send(r, Event("final_output", r), "closing", "none")
  /\ UNCHANGED <<pc, turn, deltas, log, unread, ctxDone, began>>

CallTool(r) ==
  /\ At(r, "answer")
  /\ Goto(r, "result")
  /\ UNCHANGED <<out, turn, deltas, log, unread, res, ctxDone, began>>

ToolResult(r) ==
  /\ At(r, "result") \/ At(r, "delegated")
  /\ sendEvent(r, "tool_result", "endturn", "failed")
  /\ UNCHANGED <<pc, turn, deltas, log, unread, res, ctxDone, began>>

CallHandoff(r) ==
  /\ At(r, "answer")
  /\ sendEvent(r, "tool_result", "handoff", "failed")
  /\ UNCHANGED <<pc, turn, deltas, log, unread, res, ctxDone, began>>

Handoff(r) ==
  /\ At(r, "handoff")
  /\ sendEvent(r, "handoff", "switch", "failed")
  /\ UNCHANGED <<pc, turn, deltas, log, unread, res, ctxDone, began>>

EndTurn(r) ==
  /\ At(r, "endturn") \/ At(r, "switch")
  /\ turn' = [turn EXCEPT ![r] = @ + 1]
  /\ Goto(r, "turn")
  /\ UNCHANGED <<out, deltas, log, unread, res, ctxDone, began>>

(* Variant: the error event is sent like any other.                        *)
ReportErrorSelect(r) ==
  /\ At(r, "failed")
  /\ res' = [res EXCEPT ![r] = "error"]
  /\ sendEvent(r, "run_error", "closing", "closing")
  /\ UNCHANGED <<pc, turn, deltas, log, unread, ctxDone, began>>

(* The terminal event is sent without looking at the context.              *)
ReportError(r) ==
  /\ At(r, "failed")
  /\ res' = [res EXCEPT ![r] = "error"]
  /\ Send(r, Event("run_error", r), "closing", "none")
  /\ UNCHANGED <<pc, turn, deltas, log, unread, ctxDone, began>>

Close(r) ==
  /\ At(r, "closing")
  /\ Goto(r, "closed")
  /\ UNCHANGED <<out, turn, deltas, log, unread, res, ctxDone, began>>

-----------------------------------------------------------------------------
(* Delegation.                                                             *)

(* The tool context, a child of the run's, is made; the events of the call *)
(* are sent under the run's own context.                                   *)
Delegate ==
  /\ At(Root, "answer")
  /\ ctxDone' = [ctxDone EXCEPT ![Child] = ctxDone[Root]]
  /\ began' = Len(log[Root])
  /\ Send(Root, Event("task_started", Child), "spawn", "delegated")
  /\ UNCHANGED <<pc, turn, deltas, log, unread, res>>

Spawn ==
  /\ At(Root, "spawn")
  /\ pc' = [pc EXCEPT ![Root] = "forward", ![Child] = "begin"]
  /\ turn' = [turn EXCEPT ![Child] = 0]
  /\ deltas' = [deltas EXCEPT ![Child] = 0]
  /\ log' = [log EXCEPT ![Child] = <<>>]
  /\ res' = [res EXCEPT ![Child] = "none"]
  /\ UNCHANGED <<out, unread, ctxDone, began>>

(* Receive the child's next event.                                         *)
Receive ==
  /\ unread[Child] > 0
  /\ unread' = [unread EXCEPT ![Child] = @ - 1]
Received == log[Child][Len(log[Child]) - unread[Child] + 1]

(* Variant: an event that cannot be forwarded ends the call at once.       *)
ForwardWithoutWait ==
  /\ At(Root, "forward")
  /\ Receive
  /\ IF Received.type \in Lifecycle
       THEN UNCHANGED out
       ELSE Send(Root, Received, "forward", "delegated")
  /\ UNCHANGED <<pc, turn, deltas, log, res, ctxDone, began>>

(* Variant: the child's usage is not forwarded.                            *)
ForwardSparingly ==
  /\ At(Root, "forward")
  /\ Receive
  /\ IF Received.type \in Lifecycle \cup {"usage"}
       THEN UNCHANGED out
       ELSE Send(Root, Received, "forward", "drain")
  /\ UNCHANGED <<pc, turn, deltas, log, res, ctxDone, began>>

Forward ==
  /\ At(Root, "forward")
  /\ Receive
  /\ IF Received.type \in Lifecycle
       THEN UNCHANGED out
       ELSE Send(Root, Received, "forward", "drain")
  /\ UNCHANGED <<pc, turn, deltas, log, res, ctxDone, began>>

ForwardEnds ==
  /\ At(Root, "forward")
  /\ Drained(Child)
  /\ LET type == IF res[Child] = "ok" THEN "task_completed" ELSE "task_failed"
     IN  Send(Root, Event(type, Child), "delegated", "delegated")
  /\ UNCHANGED <<pc, turn, deltas, log, unread, res, ctxDone, began>>

(* Variant: the child's result is waited for before its events are read.   *)
DrainAfterResult ==
  /\ At(Root, "drain")
  /\ pc[Child] = "closed"
  /\ Receive
  /\ UNCHANGED <<pc, out, turn, deltas, log, res, ctxDone, began>>

(* An event could not be forwarded: the child is waited for.               *)
Drain ==
  /\ At(Root, "drain")
  /\ Receive
  /\ UNCHANGED <<pc, out, turn, deltas, log, res, ctxDone, began>>

DrainEnds ==
  /\ At(Root, "drain")
  /\ Drained(Child)
  /\ Goto(Root, "delegated")
  /\ UNCHANGED <<out, turn, deltas, log, unread, res, ctxDone, began>>

Delegation ==
  Delegate \/ Spawn \/ Forward \/ ForwardEnds \/ Drain \/ DrainEnds

RunStep(r) ==
  \/ Put(r) \/ Abort(r)
  \/ Begin(r) \/ Fails(r) \/ Setup(r) \/ StartTurn(r) \/ Delta(r)
  \/ ModelEnds(r) \/ FinalAnswer(r) \/ CallTool(r) \/ ToolResult(r)
  \/ CallHandoff(r) \/ Handoff(r) \/ EndTurn(r) \/ ReportError(r) \/ Close(r)
  \/ r = Root /\ (LoadFails \/ Delegation)

-----------------------------------------------------------------------------
(* The caller and the clock.                                               *)

Read ==
  /\ unread[Root] > 0
  /\ unread' = [unread EXCEPT ![Root] = @ - 1]
  /\ UNCHANGED <<pc, out, turn, deltas, log, res, ctxDone, began>>

Cancel ==
  /\ ~ctxDone[Root] /\ pc[Root] # "closed"
  /\ ctxDone' = [r \in Runs |-> TRUE]
  /\ UNCHANGED <<pc, out, turn, deltas, log, unread, res, began>>

(* Runner.ToolTimeout ends the context of the delegated call.              *)
ToolTimeout ==
  /\ pc[Root] \in {"spawn", "forward", "drain"} \/ out[Root].to = "spawn"
  /\ ~ctxDone[Child]
  /\ ctxDone' = [ctxDone EXCEPT ![Child] = TRUE]
  /\ UNCHANGED <<pc, out, turn, deltas, log, unread, res, began>>

Next ==
  \/ \E r \in Runs : RunStep(r)
  \/ Read \/ Cancel \/ ToolTimeout

Spec == Init /\ [][Next]_vars

(* Both goroutines run whenever they can; nothing makes the caller read.   *)
Fairness == \A r \in Runs : WF_vars(RunStep(r))
FairSpec == Spec /\ Fairness

-----------------------------------------------------------------------------
(* Properties.                                                             *)

(* Every variable holds a value of its kind, and no channel holds more     *)
(* than its capacity.                                                      *)
TypeOK ==
  /\ pc \in [Runs -> Locations]
  /\ out \in [Runs -> {Idle} \cup
       [to : Locations, abort : Locations \cup {"none"}, event : Events]]
  /\ turn \in [Runs -> Nat] /\ \A r \in Runs : turn[r] <= MaxTurns(r)
  /\ deltas \in [Runs -> 0 .. MaxDeltas]
  /\ log \in [Runs -> Seq(Events)]
  /\ unread \in [Runs -> 0 .. Buffer]
  /\ res \in [Runs -> {"none", "ok", "error"}]
  /\ ctxDone \in [Runs -> BOOLEAN]
  /\ began \in Nat

(* A stream that was closed ended with its one terminal event, which       *)
(* agrees with the outcome of the run, even when the run was cancelled     *)
(* with a full channel or in the middle of a delegation.                   *)
EndsWithOutcome ==
  \A r \in Runs : pc[r] = "closed" =>
    /\ \A i \in 1 .. Len(log[r]) :
         log[r][i].type \in Terminal <=> i = Len(log[r])
    /\ log[r] # <<>>
    /\ Last(log[r]).type =
         IF res[r] = "ok" THEN "final_output" ELSE "run_error"

(* The goroutine of a child lives only inside the call that delegates to   *)
(* it: whatever was cancelled or timed out, the run neither goes on nor    *)
(* ends while its child still runs.                                        *)
ChildWithinCall ==
  pc[Root] \in {"forward", "drain"} \/ pc[Child] \in {"idle", "closed"}

(* Which of the first n events of a child's stream are to be forwarded.    *)
Own(stream, n) == {i \in 1 .. n : stream[i].type \notin Lifecycle}

(* Unless the run was cancelled, a delegation appears in its stream as the *)
(* start of the task, all the child's incremental events in order, and the *)
(* end of the task, also when the child failed or its time was over.       *)
DelegationTold ==
  (At(Root, "delegated") /\ ~ctxDone[Root]) =>
    LET own == Own(log[Child], Len(log[Child]))
        end == IF res[Child] = "ok" THEN "task_completed" ELSE "task_failed"
    IN  /\ Len(log[Root]) = began + Cardinality(own) + 2
        /\ log[Root][began + 1] = Event("task_started", Child)
        /\ \A i \in own :
             log[Root][began + 1 + Cardinality(Own(log[Child], i))] = log[Child][i]
        /\ Last(log[Root]) = Event(end, Child)

(* A run whose events are read ends, whether or not it is cancelled.       *)
ReadRunEnds == []<>Room(Root) => <>(pc[Root] = "closed")

(* As the comment of StreamRun has it, a run that nobody reads any more is *)
(* aborted by cancelling its context.  The code does not keep this: the    *)
(* terminal event waits for room in the channel.                           *)
AbandonedRunEnds == ctxDone[Root] ~> pc[Root] = "closed"
=============================================================================
