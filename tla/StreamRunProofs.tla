---------------------------- MODULE StreamRunProofs ---------------------------
(***************************************************************************)
(* Proofs about streaming runs: for every capacity of the channels and     *)
(* every limit on turns and incremental events.                            *)
(***************************************************************************)
EXTENDS StreamRun, FiniteSetTheorems, SequenceTheorems, TLAPS

(* Where a send can begin, and where the run goes on after it.             *)
Legs ==
  {<<"begin", "setup", "setup">>, <<"model", "model", "failed">>,
   <<"model", "answer", "failed">>, <<"answer", "closing", "none">>,
   <<"answer", "handoff", "failed">>, <<"answer", "spawn", "delegated">>,
   <<"result", "endturn", "failed">>, <<"delegated", "endturn", "failed">>,
   <<"handoff", "switch", "failed">>, <<"failed", "closing", "none">>,
   <<"forward", "forward", "drain">>, <<"forward", "delegated", "delegated">>}

LegInv ==
  \A r \in Runs : out[r] # Idle => <<pc[r], out[r].to, out[r].abort>> \in Legs

(* The turn of a run that is past the check of the limit counts.           *)
InTurn ==
  {"model", "answer", "handoff", "spawn", "forward", "drain", "delegated", "result",
   "switch", "endturn"}

TurnInv == \A r \in Runs : pc[r] \in InTurn => turn[r] < MaxTurns(r)

(* A run's terminal event tells its outcome; it is sent, if at all, by the *)
(* last send, and nothing is sent after it.                                *)
Tells(r, type) == type = IF res[r] = "ok" THEN "final_output" ELSE "run_error"

Told(r) ==
  /\ log[r] # <<>>
  /\ \A i \in 1 .. Len(log[r]) : log[r][i].type \in Terminal <=> i = Len(log[r])
  /\ Tells(r, log[r][Len(log[r])].type)

Untold(r) == \A i \in 1 .. Len(log[r]) : log[r][i].type \notin Terminal

SendInv ==
  \A r \in Runs : out[r] # Idle =>
    /\ out[r].event.type \in Terminal <=> out[r].to = "closing"
    /\ out[r].to = "closing" => Tells(r, out[r].event.type)

EndInv == \A r \in Runs : IF pc[r] \in {"closing", "closed"} THEN Told(r) ELSE Untold(r)

(* Outside the call that delegates to it, the child is gone and read.      *)
ChildGone == pc[Child] \in {"idle", "closed"} /\ unread[Child] = 0

ChildInv ==
  /\ pc[Root] \notin {"forward", "drain"} => ChildGone
  /\ (pc[Root] = "forward" /\ out[Root].to = "delegated") => ChildGone
  /\ pc[Child] = "idle" => log[Child] = <<>>
  /\ \A r \in Runs : unread[r] <= Len(log[r])

(* The inductive invariant.                                                *)
IInv == TypeOK /\ LegInv /\ TurnInv /\ SendInv /\ EndInv /\ ChildInv

(* What the root receives is an event of its child.                        *)
LEMMA ReceivedType ==
  ASSUME TypeOK, unread[Child] \in 1 .. Len(log[Child])
  PROVE  Received \in Events
<1>1. log[Child] \in Seq(Events)
  BY DEF TypeOK, Runs
<1>2. Len(log[Child]) - unread[Child] + 1 \in 1 .. Len(log[Child])
  BY <1>1
<1> QED
  BY <1>1, <1>2, ElementOfSeq DEF Received

(* Appending a terminal event to a stream without one puts it last ...     *)
LEMMA TerminalLast ==
  ASSUME NEW s \in Seq(Events), NEW e \in Events, e.type \in Terminal,
         \A i \in 1 .. Len(s) : s[i].type \notin Terminal
  PROVE  LET t == Append(s, e)
         IN  /\ t # <<>> /\ t[Len(t)] = e
             /\ \A i \in 1 .. Len(t) : t[i].type \in Terminal <=> i = Len(t)
BY AppendProperties

(* ... and appending another leaves it without one.                        *)
LEMMA NoneTerminal ==
  ASSUME NEW s \in Seq(Events), NEW e \in Events, e.type \notin Terminal,
         \A i \in 1 .. Len(s) : s[i].type \notin Terminal
  PROVE  LET t == Append(s, e) IN \A i \in 1 .. Len(t) : t[i].type \notin Terminal
BY AppendProperties

(* Every variable keeps its type.                                          *)
LEMMA TypeStep == IInv /\ [Next]_vars => TypeOK'
<1> SUFFICES ASSUME IInv, [Next]_vars PROVE TypeOK'
  OBVIOUS
<1> USE DEF IInv, TypeOK, Locations, Events, Types, Lifecycle, Runs, Root,
   Child, Idle
<1>1. ASSUME NEW r \in Runs, Put(r) PROVE TypeOK'
  <2>1. out[r].event \in Events /\ out[r].to \in Locations
    BY <1>1 DEF Put
  <2>2. log' \in [Runs -> Seq(Events)]
    BY <1>1, <2>1 DEF Put
  <2>3. unread' \in [Runs -> 0 .. Buffer]
    BY <1>1, StreamAssumption DEF Put, Room
  <2>4. pc' \in [Runs -> Locations]
    BY <1>1, <2>1 DEF Put, Goto
  <2>5. out' \in [Runs -> {Idle} \cup [to : Locations, abort : Locations \cup {"none"}, event : Events]]
    BY <1>1 DEF Put
  <2> QED
    BY <1>1, <2>1, <2>2, <2>3, <2>4, <2>5 DEF Put
<1>2. ASSUME NEW r \in Runs, Abort(r) PROVE TypeOK'
  BY <1>2 DEF Abort, Goto
<1>3. ASSUME NEW r \in Runs, Begin(r) PROVE TypeOK'
  BY <1>3 DEF Begin, At, sendEvent, Send, Event
<1>4. ASSUME NEW r \in Runs, Fails(r) PROVE TypeOK'
  BY <1>4 DEF Fails, At, Goto
<1>5. ASSUME NEW r \in Runs, Setup(r) PROVE TypeOK'
  BY <1>5 DEF Setup, At, Goto
<1>6. ASSUME NEW r \in Runs, StartTurn(r) PROVE TypeOK'
  BY <1>6 DEF StartTurn, At, Goto
<1>7. ASSUME NEW r \in Runs, Delta(r) PROVE TypeOK'
  <2>1. deltas' \in [Runs -> 0 .. MaxDeltas]
    BY <1>7, StreamAssumption DEF Delta
  <2>2. out' \in [Runs -> {Idle} \cup [to : Locations, abort : Locations \cup {"none"}, event : Events]]
    BY <1>7 DEF Delta, sendEvent, Send, Event
  <2> QED
    BY <1>7, <2>1, <2>2 DEF Delta
<1>8. ASSUME NEW r \in Runs, ModelEnds(r) PROVE TypeOK'
  <2>1. deltas' \in [Runs -> 0 .. MaxDeltas]
    BY <1>8, StreamAssumption DEF ModelEnds
  <2>2. out' \in [Runs -> {Idle} \cup [to : Locations, abort : Locations \cup {"none"}, event : Events]]
    BY <1>8 DEF ModelEnds, sendEvent, Send, Event
  <2> QED
    BY <1>8, <2>1, <2>2 DEF ModelEnds
<1>9. ASSUME NEW r \in Runs, FinalAnswer(r) PROVE TypeOK'
  BY <1>9 DEF FinalAnswer, At, Send, Event
<1>10. ASSUME NEW r \in Runs, CallTool(r) PROVE TypeOK'
  BY <1>10 DEF CallTool, At, Goto
<1>11. ASSUME NEW r \in Runs, ToolResult(r) PROVE TypeOK'
  BY <1>11 DEF ToolResult, At, sendEvent, Send, Event
<1>12. ASSUME NEW r \in Runs, CallHandoff(r) PROVE TypeOK'
  BY <1>12 DEF CallHandoff, At, sendEvent, Send, Event
<1>13. ASSUME NEW r \in Runs, Handoff(r) PROVE TypeOK'
  BY <1>13 DEF Handoff, At, sendEvent, Send, Event
<1>14. ASSUME NEW r \in Runs, EndTurn(r) PROVE TypeOK'
  <2>1. pc[r] \in {"endturn", "switch"}
    BY <1>14 DEF EndTurn, At
  <2>2. turn[r] < MaxTurns(r)
    BY <2>1 DEF TurnInv, InTurn
  <2>3. turn' \in [Runs -> Nat]
    BY <1>14 DEF EndTurn
  <2>4. \A q \in Runs : turn'[q] <= MaxTurns(q)
    BY <1>14, <2>2, StreamAssumption DEF EndTurn, MaxTurns
  <2>5. pc' \in [Runs -> Locations]
    BY <1>14 DEF EndTurn, Goto
  <2> QED
    BY <1>14, <2>3, <2>4, <2>5 DEF EndTurn
<1>15. ASSUME NEW r \in Runs, ReportError(r) PROVE TypeOK'
  BY <1>15 DEF ReportError, At, Send, Event
<1>16. ASSUME NEW r \in Runs, Close(r) PROVE TypeOK'
  BY <1>16 DEF Close, At, Goto
<1>17. CASE LoadFails
  <2>1. Event("run_error", Root) \in Events
    BY DEF Event
  <2>2. log' \in [Runs -> Seq(Events)]
    BY <1>17, <2>1 DEF LoadFails
  <2>3. unread' \in [Runs -> 0 .. Buffer]
    BY <1>17, StreamAssumption DEF LoadFails
  <2>4. pc' \in [Runs -> Locations] /\ res' \in [Runs -> {"none", "ok", "error"}]
    BY <1>17 DEF LoadFails, Goto
  <2> QED
    BY <1>17, <2>1, <2>2, <2>3, <2>4 DEF LoadFails
<1>18. CASE Delegate
  BY <1>18 DEF Delegate, At, Send, Event
<1>19. CASE Spawn
  <2>1. pc' \in [Runs -> Locations]
    BY <1>19 DEF Spawn
  <2>2. turn' \in [Runs -> Nat] /\ \A q \in Runs : turn'[q] <= MaxTurns(q)
    BY <1>19, StreamAssumption DEF Spawn, MaxTurns
  <2>3. deltas' \in [Runs -> 0 .. MaxDeltas]
    BY <1>19, StreamAssumption DEF Spawn
  <2>4. log' \in [Runs -> Seq(Events)]
    BY <1>19 DEF Spawn
  <2>5. res' \in [Runs -> {"none", "ok", "error"}]
    BY <1>19 DEF Spawn
  <2> QED
    BY <1>19, <2>1, <2>2, <2>3, <2>4, <2>5 DEF Spawn
<1>20. CASE Forward
  <2>1. unread[Child] \in 1 .. Buffer /\ unread[Child] <= Len(log[Child]) /\ log[Child] \in Seq(Events)
    BY <1>20 DEF Forward, Receive, ChildInv
  <2>2. Received \in Events
    BY <2>1, StreamAssumption, ReceivedType
  <2>3. unread' \in [Runs -> 0 .. Buffer]
    BY <1>20, <2>1, StreamAssumption DEF Forward, Receive
  <2>4. out' \in [Runs -> {Idle} \cup [to : Locations, abort : Locations \cup {"none"}, event : Events]]
    <3>1. ASSUME NEW e \in Events, out' = [out EXCEPT ![Root] = [to |-> "forward", abort |-> "drain", event |-> e]]
          PROVE  out' \in [Runs -> {Idle} \cup [to : Locations, abort : Locations \cup {"none"}, event : Events]]
      BY <3>1
    <3>2. CASE Received.type \in Lifecycle
      BY <1>20, <3>2 DEF Forward
    <3>3. CASE Received.type \notin Lifecycle
      <4>1. out' = [out EXCEPT ![Root] = [to |-> "forward", abort |-> "drain", event |-> Received]]
        BY <1>20, <3>3 DEF Forward, Send
      <4> QED
        BY <2>2, <3>1, <4>1
    <3> QED
      BY <3>2, <3>3
  <2> QED
    BY <1>20, <2>1, <2>2, <2>3, <2>4 DEF Forward
<1>21. CASE ForwardEnds
  BY <1>21 DEF ForwardEnds, Drained, At, Send, Event
<1>22. CASE Drain
  <2>1. unread' \in [Runs -> 0 .. Buffer]
    BY <1>22, StreamAssumption DEF Drain, Receive
  <2> QED
    BY <1>22, <2>1 DEF Drain
<1>23. CASE DrainEnds
  BY <1>23 DEF DrainEnds, Drained, At, Goto
<1>24. CASE Read
  <2>1. unread' \in [Runs -> 0 .. Buffer]
    BY <1>24, StreamAssumption DEF Read
  <2> QED
    BY <1>24, <2>1 DEF Read
<1>25. CASE Cancel
  BY <1>25 DEF Cancel
<1>26. CASE ToolTimeout
  BY <1>26 DEF ToolTimeout
<1>27. CASE UNCHANGED vars
  BY <1>27 DEF vars
<1> QED
  BY <1>1, <1>2, <1>3, <1>4, <1>5, <1>6, <1>7, <1>8, <1>9, <1>10, <1>11,
     <1>12, <1>13, <1>14, <1>15, <1>16, <1>17, <1>18, <1>19, <1>20, <1>21,
     <1>22, <1>23, <1>24, <1>25, <1>26, <1>27 DEF Next, RunStep, Delegation

(* A send leads where the code goes on.                                    *)
LEMMA LegStep == TypeOK /\ LegInv /\ ChildInv /\ [Next]_vars => LegInv'
<1> SUFFICES ASSUME TypeOK, LegInv, ChildInv, [Next]_vars PROVE LegInv'
  OBVIOUS
<1> USE DEF TypeOK, LegInv, Legs, Idle, Runs, Root, Child
<1>1. ASSUME NEW r \in Runs, Put(r) PROVE LegInv'
  BY <1>1 DEF Put, Goto
<1>2. ASSUME NEW r \in Runs, Abort(r) PROVE LegInv'
  BY <1>2 DEF Abort, Goto
<1>3. ASSUME NEW r \in Runs, Begin(r) PROVE LegInv'
  BY <1>3 DEF Begin, At, sendEvent, Send, Event
<1>4. ASSUME NEW r \in Runs, Fails(r) PROVE LegInv'
  BY <1>4 DEF Fails, At, Goto
<1>5. ASSUME NEW r \in Runs, Setup(r) PROVE LegInv'
  BY <1>5 DEF Setup, At, Goto
<1>6. ASSUME NEW r \in Runs, StartTurn(r) PROVE LegInv'
  BY <1>6 DEF StartTurn, At, Goto
<1>7. ASSUME NEW r \in Runs, Delta(r) PROVE LegInv'
  BY <1>7 DEF Delta, At, sendEvent, Send, Event
<1>8. ASSUME NEW r \in Runs, ModelEnds(r) PROVE LegInv'
  BY <1>8 DEF ModelEnds, At, sendEvent, Send, Event
<1>9. ASSUME NEW r \in Runs, FinalAnswer(r) PROVE LegInv'
  BY <1>9 DEF FinalAnswer, At, Send, Event
<1>10. ASSUME NEW r \in Runs, CallTool(r) PROVE LegInv'
  BY <1>10 DEF CallTool, At, Goto
<1>11. ASSUME NEW r \in Runs, ToolResult(r) PROVE LegInv'
  BY <1>11 DEF ToolResult, At, sendEvent, Send, Event
<1>12. ASSUME NEW r \in Runs, CallHandoff(r) PROVE LegInv'
  BY <1>12 DEF CallHandoff, At, sendEvent, Send, Event
<1>13. ASSUME NEW r \in Runs, Handoff(r) PROVE LegInv'
  BY <1>13 DEF Handoff, At, sendEvent, Send, Event
<1>14. ASSUME NEW r \in Runs, EndTurn(r) PROVE LegInv'
  BY <1>14 DEF EndTurn, At, Goto
<1>15. ASSUME NEW r \in Runs, ReportError(r) PROVE LegInv'
  BY <1>15 DEF ReportError, At, Send, Event
<1>16. ASSUME NEW r \in Runs, Close(r) PROVE LegInv'
  BY <1>16 DEF Close, At, Goto
<1>17. CASE LoadFails
  BY <1>17 DEF LoadFails, At, Goto, Event
<1>18. CASE Delegate
  BY <1>18 DEF Delegate, At, Send, Event
<1>19. CASE Spawn
  <2>1. pc[Root] = "spawn" /\ out[Root] = Idle
    BY <1>19 DEF Spawn, At
  <2>2. out[Child] = Idle
    BY <2>1 DEF ChildInv, ChildGone, LegInv, Legs
  <2> QED
    BY <1>19, <2>1, <2>2 DEF Spawn
<1>20. CASE Forward
  BY <1>20 DEF Forward, Receive, Received, At, Send
<1>21. CASE ForwardEnds
  BY <1>21 DEF ForwardEnds, Drained, At, Send, Event
<1>22. CASE Drain
  BY <1>22 DEF Drain, Receive, At
<1>23. CASE DrainEnds
  BY <1>23 DEF DrainEnds, Drained, At, Goto
<1>24. CASE Read
  BY <1>24 DEF Read
<1>25. CASE Cancel
  BY <1>25 DEF Cancel
<1>26. CASE ToolTimeout
  BY <1>26 DEF ToolTimeout
<1>27. CASE UNCHANGED vars
  BY <1>27 DEF vars
<1> QED
  BY <1>1, <1>2, <1>3, <1>4, <1>5, <1>6, <1>7, <1>8, <1>9, <1>10, <1>11,
     <1>12, <1>13, <1>14, <1>15, <1>16, <1>17, <1>18, <1>19, <1>20, <1>21,
     <1>22, <1>23, <1>24, <1>25, <1>26, <1>27 DEF Next, RunStep, Delegation

(* No turn begins beyond the limit.                                        *)
LEMMA TurnStep == TypeOK /\ LegInv /\ TurnInv /\ [Next]_vars => TurnInv'
<1> SUFFICES ASSUME TypeOK, LegInv, TurnInv, [Next]_vars PROVE TurnInv'
  OBVIOUS
<1> USE StreamAssumption
<1> USE DEF TypeOK, LegInv, Legs, TurnInv, InTurn, Idle, MaxTurns, Runs, Root,
   Child
<1>1. ASSUME NEW r \in Runs, Put(r) PROVE TurnInv'
  BY <1>1 DEF Put, Goto
<1>2. ASSUME NEW r \in Runs, Abort(r) PROVE TurnInv'
  BY <1>2 DEF Abort, Goto
<1>3. ASSUME NEW r \in Runs, Begin(r) PROVE TurnInv'
  BY <1>3 DEF Begin, At, sendEvent, Send, Event
<1>4. ASSUME NEW r \in Runs, Fails(r) PROVE TurnInv'
  BY <1>4 DEF Fails, At, Goto
<1>5. ASSUME NEW r \in Runs, Setup(r) PROVE TurnInv'
  BY <1>5 DEF Setup, At, Goto
<1>6. ASSUME NEW r \in Runs, StartTurn(r) PROVE TurnInv'
  BY <1>6 DEF StartTurn, At, Goto
<1>7. ASSUME NEW r \in Runs, Delta(r) PROVE TurnInv'
  BY <1>7 DEF Delta, At, sendEvent, Send, Event
<1>8. ASSUME NEW r \in Runs, ModelEnds(r) PROVE TurnInv'
  BY <1>8 DEF ModelEnds, At, sendEvent, Send, Event
<1>9. ASSUME NEW r \in Runs, FinalAnswer(r) PROVE TurnInv'
  BY <1>9 DEF FinalAnswer, At, Send, Event
<1>10. ASSUME NEW r \in Runs, CallTool(r) PROVE TurnInv'
  BY <1>10 DEF CallTool, At, Goto
<1>11. ASSUME NEW r \in Runs, ToolResult(r) PROVE TurnInv'
  BY <1>11 DEF ToolResult, At, sendEvent, Send, Event
<1>12. ASSUME NEW r \in Runs, CallHandoff(r) PROVE TurnInv'
  BY <1>12 DEF CallHandoff, At, sendEvent, Send, Event
<1>13. ASSUME NEW r \in Runs, Handoff(r) PROVE TurnInv'
  BY <1>13 DEF Handoff, At, sendEvent, Send, Event
<1>14. ASSUME NEW r \in Runs, EndTurn(r) PROVE TurnInv'
  BY <1>14 DEF EndTurn, At, Goto
<1>15. ASSUME NEW r \in Runs, ReportError(r) PROVE TurnInv'
  BY <1>15 DEF ReportError, At, Send, Event
<1>16. ASSUME NEW r \in Runs, Close(r) PROVE TurnInv'
  BY <1>16 DEF Close, At, Goto
<1>17. CASE LoadFails
  BY <1>17 DEF LoadFails, At, Goto, Event
<1>18. CASE Delegate
  BY <1>18 DEF Delegate, At, Send, Event
<1>19. CASE Spawn
  BY <1>19 DEF Spawn, At
<1>20. CASE Forward
  BY <1>20 DEF Forward, Receive, Received, At, Send
<1>21. CASE ForwardEnds
  BY <1>21 DEF ForwardEnds, Drained, At, Send, Event
<1>22. CASE Drain
  BY <1>22 DEF Drain, Receive, At
<1>23. CASE DrainEnds
  BY <1>23 DEF DrainEnds, Drained, At, Goto
<1>24. CASE Read
  BY <1>24 DEF Read
<1>25. CASE Cancel
  BY <1>25 DEF Cancel
<1>26. CASE ToolTimeout
  BY <1>26 DEF ToolTimeout
<1>27. CASE UNCHANGED vars
  BY <1>27 DEF vars
<1> QED
  BY <1>1, <1>2, <1>3, <1>4, <1>5, <1>6, <1>7, <1>8, <1>9, <1>10, <1>11,
     <1>12, <1>13, <1>14, <1>15, <1>16, <1>17, <1>18, <1>19, <1>20, <1>21,
     <1>22, <1>23, <1>24, <1>25, <1>26, <1>27 DEF Next, RunStep, Delegation

(* A run decides its outcome before it sends it.                           *)
LEMMA SendStep == TypeOK /\ LegInv /\ ChildInv /\ SendInv /\ [Next]_vars => SendInv'
<1> SUFFICES ASSUME TypeOK, LegInv, ChildInv, SendInv, [Next]_vars PROVE SendInv'
  OBVIOUS
<1> USE DEF TypeOK, SendInv, Tells, Terminal, Lifecycle, Idle, Runs, Root,
   Child
<1>1. ASSUME NEW r \in Runs, Put(r) PROVE SendInv'
  BY <1>1 DEF Put, Goto
<1>2. ASSUME NEW r \in Runs, Abort(r) PROVE SendInv'
  BY <1>2 DEF Abort, Goto
<1>3. ASSUME NEW r \in Runs, Begin(r) PROVE SendInv'
  BY <1>3 DEF Begin, At, sendEvent, Send, Event
<1>4. ASSUME NEW r \in Runs, Fails(r) PROVE SendInv'
  BY <1>4 DEF Fails, At, Goto
<1>5. ASSUME NEW r \in Runs, Setup(r) PROVE SendInv'
  BY <1>5 DEF Setup, At, Goto
<1>6. ASSUME NEW r \in Runs, StartTurn(r) PROVE SendInv'
  BY <1>6 DEF StartTurn, At, Goto
<1>7. ASSUME NEW r \in Runs, Delta(r) PROVE SendInv'
  BY <1>7 DEF Delta, At, sendEvent, Send, Event
<1>8. ASSUME NEW r \in Runs, ModelEnds(r) PROVE SendInv'
  BY <1>8 DEF ModelEnds, At, sendEvent, Send, Event
<1>9. ASSUME NEW r \in Runs, FinalAnswer(r) PROVE SendInv'
  BY <1>9 DEF FinalAnswer, At, Send, Event
<1>10. ASSUME NEW r \in Runs, CallTool(r) PROVE SendInv'
  BY <1>10 DEF CallTool, At, Goto
<1>11. ASSUME NEW r \in Runs, ToolResult(r) PROVE SendInv'
  BY <1>11 DEF ToolResult, At, sendEvent, Send, Event
<1>12. ASSUME NEW r \in Runs, CallHandoff(r) PROVE SendInv'
  BY <1>12 DEF CallHandoff, At, sendEvent, Send, Event
<1>13. ASSUME NEW r \in Runs, Handoff(r) PROVE SendInv'
  BY <1>13 DEF Handoff, At, sendEvent, Send, Event
<1>14. ASSUME NEW r \in Runs, EndTurn(r) PROVE SendInv'
  BY <1>14 DEF EndTurn, At, Goto
<1>15. ASSUME NEW r \in Runs, ReportError(r) PROVE SendInv'
  BY <1>15 DEF ReportError, At, Send, Event
<1>16. ASSUME NEW r \in Runs, Close(r) PROVE SendInv'
  BY <1>16 DEF Close, At, Goto
<1>17. CASE LoadFails
  BY <1>17 DEF LoadFails, At, Goto, Event
<1>18. CASE Delegate
  BY <1>18 DEF Delegate, At, Send, Event
<1>19. CASE Spawn
  <2>1. pc[Root] = "spawn" /\ out[Root] = Idle
    BY <1>19 DEF Spawn, At
  <2>2. out[Child] = Idle
    BY <2>1 DEF ChildInv, ChildGone, LegInv, Legs
  <2> QED
    BY <1>19, <2>1, <2>2 DEF Spawn
<1>20. CASE Forward
  BY <1>20 DEF Forward, Receive, Received, At, Send
<1>21. CASE ForwardEnds
  BY <1>21 DEF ForwardEnds, Drained, At, Send, Event
<1>22. CASE Drain
  BY <1>22 DEF Drain, Receive, At
<1>23. CASE DrainEnds
  BY <1>23 DEF DrainEnds, Drained, At, Goto
<1>24. CASE Read
  BY <1>24 DEF Read
<1>25. CASE Cancel
  BY <1>25 DEF Cancel
<1>26. CASE ToolTimeout
  BY <1>26 DEF ToolTimeout
<1>27. CASE UNCHANGED vars
  BY <1>27 DEF vars
<1> QED
  BY <1>1, <1>2, <1>3, <1>4, <1>5, <1>6, <1>7, <1>8, <1>9, <1>10, <1>11,
     <1>12, <1>13, <1>14, <1>15, <1>16, <1>17, <1>18, <1>19, <1>20, <1>21,
     <1>22, <1>23, <1>24, <1>25, <1>26, <1>27 DEF Next, RunStep, Delegation

(* A step that leaves the streams and who ended alone keeps the invariant.  *)
LEMMA EndKept ==
  ASSUME EndInv, log' = log,
         \A r \in Runs : pc[r] \in {"closing", "closed"} <=> pc'[r] \in {"closing", "closed"},
         \A r \in Runs : pc[r] \in {"closing", "closed"} => res'[r] = res[r]
  PROVE  EndInv'
BY DEF EndInv, Told, Tells, Untold

(* No step adds to a stream that has ended.                                *)
LEMMA EndStep == TypeOK /\ LegInv /\ ChildInv /\ SendInv /\ EndInv /\ [Next]_vars => EndInv'
<1> SUFFICES ASSUME TypeOK, LegInv, ChildInv, SendInv, EndInv, [Next]_vars PROVE EndInv'
  OBVIOUS
<1> USE DEF TypeOK, Idle, Runs, Root, Child
<1>1. ASSUME NEW r \in Runs, Put(r) PROVE EndInv'
  <2> USE DEF EndInv, Untold, Told, Tells
  <2> DEFINE e == out[r].event
  <2>1. out[r] # Idle /\ <<pc[r], out[r].to, out[r].abort>> \in Legs
    BY <1>1 DEF Put, LegInv
  <2>2. pc[r] \notin {"closing", "closed"} /\ out[r].to # "closed" /\ e \in Events
    BY <2>1 DEF Legs
  <2>3. log' = [log EXCEPT ![r] = Append(log[r], e)] /\ pc' = [pc EXCEPT ![r] = out[r].to]
    BY <1>1 DEF Put, Goto
  <2>4. UNCHANGED res
    BY <1>1 DEF Put
  <2>5. Untold(r) /\ log[r] \in Seq(Events)
    BY <2>2
  <2>6. log'[r] = Append(log[r], e)
    BY <2>3
  <2>7. ASSUME NEW q \in Runs \ {r}
        PROVE  IF pc'[q] \in {"closing", "closed"} THEN Told(q)' ELSE Untold(q)'
    <3>1. pc'[q] = pc[q] /\ log'[q] = log[q] /\ res'[q] = res[q]
      BY <2>3, <2>4
    <3>2. IF pc[q] \in {"closing", "closed"} THEN Told(q) ELSE Untold(q)
      OBVIOUS
    <3> QED
      BY <3>1, <3>2, Zenon
  <2>8. IF pc'[r] \in {"closing", "closed"} THEN Told(r)' ELSE Untold(r)'
    <3>1. CASE out[r].to = "closing"
      <4>1. e.type \in Terminal /\ Tells(r, e.type)
        BY <2>1, <3>1 DEF SendInv
      <4>2. Told(r)'
        <5> DEFINE t == log'[r]
        <5>1. /\ t # <<>> /\ t[Len(t)] = e
              /\ \A i \in 1 .. Len(t) : t[i].type \in Terminal <=> i = Len(t)
          <6>1. /\ log[r] \in Seq(Events) /\ e \in Events
                /\ \A i \in 1 .. Len(log[r]) : log[r][i].type \notin Terminal
            BY <2>2, <2>5
          <6> HIDE DEF e, Untold, Told, EndInv, TypeOK
          <6> QED
            BY <2>6, <4>1, <6>1, TerminalLast
        <5>2. res'[r] = res[r] /\ t[Len(t)].type = e.type
          BY <2>4, <5>1
        <5>3. t[Len(t)].type = IF res'[r] = "ok" THEN "final_output" ELSE "run_error"
          <6> HIDE DEF t
          <6> QED
            BY <4>1, <5>2
        <5> HIDE DEF e
        <5> QED
          BY <5>1, <5>3, Zenon
      <4> QED
        BY <2>3, <3>1, <4>2
    <3>2. CASE out[r].to # "closing"
      <4>1. e.type \notin Terminal
        BY <2>1, <3>2 DEF SendInv
      <4>2. Untold(r)'
        BY <2>2, <2>5, <2>6, <4>1, NoneTerminal
      <4> QED
        BY <2>2, <2>3, <3>2, <4>2
    <3> QED
      BY <3>1, <3>2
  <2> HIDE DEF Told, Untold
  <2> QED
    BY <2>7, <2>8
<1>2. ASSUME NEW r \in Runs, Abort(r) PROVE EndInv'
  <2>1. out[r].abort \notin {"closing", "closed"} /\ pc[r] \notin {"closing", "closed"}
    BY <1>2 DEF Abort, LegInv, Legs
  <2>2. pc' = [pc EXCEPT ![r] = out[r].abort] /\ UNCHANGED <<log, res>>
    BY <1>2 DEF Abort, Goto
  <2> QED
    BY <2>1, <2>2, EndKept
<1>3. ASSUME NEW r \in Runs, Begin(r) PROVE EndInv'
  BY <1>3, EndKept DEF Begin, At, sendEvent, Send, Event
<1>4. ASSUME NEW r \in Runs, Fails(r) PROVE EndInv'
  BY <1>4, EndKept DEF Fails, At, Goto
<1>5. ASSUME NEW r \in Runs, Setup(r) PROVE EndInv'
  BY <1>5, EndKept DEF Setup, At, Goto
<1>6. ASSUME NEW r \in Runs, StartTurn(r) PROVE EndInv'
  BY <1>6, EndKept DEF StartTurn, At, Goto
<1>7. ASSUME NEW r \in Runs, Delta(r) PROVE EndInv'
  BY <1>7, EndKept DEF Delta, At, sendEvent, Send, Event
<1>8. ASSUME NEW r \in Runs, ModelEnds(r) PROVE EndInv'
  BY <1>8, EndKept DEF ModelEnds, At, sendEvent, Send, Event
<1>9. ASSUME NEW r \in Runs, FinalAnswer(r) PROVE EndInv'
  BY <1>9, EndKept DEF FinalAnswer, At, Send, Event
<1>10. ASSUME NEW r \in Runs, CallTool(r) PROVE EndInv'
  BY <1>10, EndKept DEF CallTool, At, Goto
<1>11. ASSUME NEW r \in Runs, ToolResult(r) PROVE EndInv'
  BY <1>11, EndKept DEF ToolResult, At, sendEvent, Send, Event
<1>12. ASSUME NEW r \in Runs, CallHandoff(r) PROVE EndInv'
  BY <1>12, EndKept DEF CallHandoff, At, sendEvent, Send, Event
<1>13. ASSUME NEW r \in Runs, Handoff(r) PROVE EndInv'
  BY <1>13, EndKept DEF Handoff, At, sendEvent, Send, Event
<1>14. ASSUME NEW r \in Runs, EndTurn(r) PROVE EndInv'
  <2>1. pc[r] \in {"endturn", "switch"}
    BY <1>14 DEF EndTurn, At
  <2>2. pc' = [pc EXCEPT ![r] = "turn"] /\ UNCHANGED <<log, res>>
    BY <1>14 DEF EndTurn, Goto
  <2> QED
    BY <2>1, <2>2, EndKept
<1>15. ASSUME NEW r \in Runs, ReportError(r) PROVE EndInv'
  BY <1>15, EndKept DEF ReportError, At, Send, Event
<1>16. ASSUME NEW r \in Runs, Close(r) PROVE EndInv'
  BY <1>16, EndKept DEF Close, At, Goto
<1>17. CASE LoadFails
  <2> USE DEF EndInv, Untold, Told, Tells
  <2>1. pc' = [pc EXCEPT ![Root] = "closed"] /\ res' = [res EXCEPT ![Root] = "error"]
    BY <1>17 DEF LoadFails, Goto
  <2>2. log' = [log EXCEPT ![Root] = <<Event("run_error", Root)>>]
    BY <1>17 DEF LoadFails
  <2>3. Told(Root)'
    BY <2>1, <2>2 DEF Event, Terminal
  <2>4. IF pc'[Child] \in {"closing", "closed"} THEN Told(Child)' ELSE Untold(Child)'
    BY <2>1, <2>2
  <2>5. pc'[Root] = "closed"
    BY <2>1
  <2> HIDE DEF Told, Untold
  <2> QED
    BY <2>3, <2>4, <2>5
<1>18. CASE Delegate
  BY <1>18, EndKept DEF Delegate, At, Send, Event
<1>19. CASE Spawn
  <2> USE DEF EndInv, Untold, Told, Tells
  <2>1. /\ pc' = [pc EXCEPT ![Root] = "forward", ![Child] = "begin"]
        /\ log' = [log EXCEPT ![Child] = <<>>]
        /\ res'[Root] = res[Root] /\ pc[Root] = "spawn"
    BY <1>19 DEF Spawn, At
  <2>2. Untold(Child)' /\ pc'[Child] = "begin"
    BY <2>1
  <2>3. Untold(Root)' /\ pc'[Root] = "forward"
    BY <2>1
  <2> HIDE DEF Told, Untold
  <2> QED
    BY <2>2, <2>3
<1>20. CASE Forward
  BY <1>20, EndKept DEF Forward, Receive, Received, At, Send
<1>21. CASE ForwardEnds
  BY <1>21, EndKept DEF ForwardEnds, Drained, At, Send, Event
<1>22. CASE Drain
  BY <1>22, EndKept DEF Drain, Receive, At
<1>23. CASE DrainEnds
  BY <1>23, EndKept DEF DrainEnds, Drained, At, Goto
<1>24. CASE Read
  BY <1>24, EndKept DEF Read
<1>25. CASE Cancel
  BY <1>25, EndKept DEF Cancel
<1>26. CASE ToolTimeout
  BY <1>26, EndKept DEF ToolTimeout
<1>27. CASE UNCHANGED vars
  BY <1>27, EndKept DEF vars
<1> QED
  BY <1>1, <1>2, <1>3, <1>4, <1>5, <1>6, <1>7, <1>8, <1>9, <1>10, <1>11,
     <1>12, <1>13, <1>14, <1>15, <1>16, <1>17, <1>18, <1>19, <1>20, <1>21,
     <1>22, <1>23, <1>24, <1>25, <1>26, <1>27 DEF Next, RunStep, Delegation

(* No step leaves a child behind.                                          *)
LEMMA ChildStep == TypeOK /\ LegInv /\ ChildInv /\ [Next]_vars => ChildInv'
<1> SUFFICES ASSUME TypeOK, LegInv, ChildInv, [Next]_vars PROVE ChildInv'
  OBVIOUS
<1> USE DEF TypeOK, LegInv, Legs, ChildInv, ChildGone, Idle, Runs, Root, Child
<1>1. ASSUME NEW r \in Runs, Put(r) PROVE ChildInv'
  BY <1>1 DEF Put, Goto
<1>2. ASSUME NEW r \in Runs, Abort(r) PROVE ChildInv'
  BY <1>2 DEF Abort, Goto
<1>3. ASSUME NEW r \in Runs, Begin(r) PROVE ChildInv'
  BY <1>3 DEF Begin, At, sendEvent, Send, Event
<1>4. ASSUME NEW r \in Runs, Fails(r) PROVE ChildInv'
  BY <1>4 DEF Fails, At, Goto
<1>5. ASSUME NEW r \in Runs, Setup(r) PROVE ChildInv'
  BY <1>5 DEF Setup, At, Goto
<1>6. ASSUME NEW r \in Runs, StartTurn(r) PROVE ChildInv'
  BY <1>6 DEF StartTurn, At, Goto
<1>7. ASSUME NEW r \in Runs, Delta(r) PROVE ChildInv'
  BY <1>7 DEF Delta, At, sendEvent, Send, Event
<1>8. ASSUME NEW r \in Runs, ModelEnds(r) PROVE ChildInv'
  BY <1>8 DEF ModelEnds, At, sendEvent, Send, Event
<1>9. ASSUME NEW r \in Runs, FinalAnswer(r) PROVE ChildInv'
  BY <1>9 DEF FinalAnswer, At, Send, Event
<1>10. ASSUME NEW r \in Runs, CallTool(r) PROVE ChildInv'
  BY <1>10 DEF CallTool, At, Goto
<1>11. ASSUME NEW r \in Runs, ToolResult(r) PROVE ChildInv'
  BY <1>11 DEF ToolResult, At, sendEvent, Send, Event
<1>12. ASSUME NEW r \in Runs, CallHandoff(r) PROVE ChildInv'
  BY <1>12 DEF CallHandoff, At, sendEvent, Send, Event
<1>13. ASSUME NEW r \in Runs, Handoff(r) PROVE ChildInv'
  BY <1>13 DEF Handoff, At, sendEvent, Send, Event
<1>14. ASSUME NEW r \in Runs, EndTurn(r) PROVE ChildInv'
  BY <1>14 DEF EndTurn, At, Goto
<1>15. ASSUME NEW r \in Runs, ReportError(r) PROVE ChildInv'
  BY <1>15 DEF ReportError, At, Send, Event
<1>16. ASSUME NEW r \in Runs, Close(r) PROVE ChildInv'
  BY <1>16 DEF Close, At, Goto
<1>17. CASE LoadFails
  BY <1>17 DEF LoadFails, At, Goto, Event
<1>18. CASE Delegate
  BY <1>18 DEF Delegate, At, Send, Event
<1>19. CASE Spawn
  BY <1>19 DEF Spawn, At
<1>20. CASE Forward
  BY <1>20 DEF Forward, Receive, Received, At, Send
<1>21. CASE ForwardEnds
  BY <1>21 DEF ForwardEnds, Drained, At, Send, Event
<1>22. CASE Drain
  BY <1>22 DEF Drain, Receive, At
<1>23. CASE DrainEnds
  BY <1>23 DEF DrainEnds, Drained, At, Goto
<1>24. CASE Read
  BY <1>24 DEF Read
<1>25. CASE Cancel
  BY <1>25 DEF Cancel
<1>26. CASE ToolTimeout
  BY <1>26 DEF ToolTimeout
<1>27. CASE UNCHANGED vars
  BY <1>27 DEF vars
<1> QED
  BY <1>1, <1>2, <1>3, <1>4, <1>5, <1>6, <1>7, <1>8, <1>9, <1>10, <1>11,
     <1>12, <1>13, <1>14, <1>15, <1>16, <1>17, <1>18, <1>19, <1>20, <1>21,
     <1>22, <1>23, <1>24, <1>25, <1>26, <1>27 DEF Next, RunStep, Delegation

-----------------------------------------------------------------------------
(* The inductive invariant holds of a run that has not begun.              *)
LEMMA InitIInv == Init => IInv
<1> SUFFICES ASSUME Init PROVE IInv
  OBVIOUS
<1> USE StreamAssumption DEF Init, Runs, Root, Child, Idle
<1>1. TypeOK
  BY DEF TypeOK, Locations, MaxTurns
<1>2. LegInv /\ TurnInv /\ SendInv
  BY DEF LegInv, TurnInv, InTurn, SendInv
<1>3. EndInv
  BY DEF EndInv, Untold
<1>4. ChildInv
  BY DEF ChildInv, ChildGone
<1> QED
  BY <1>1, <1>2, <1>3, <1>4 DEF IInv

(* And after every step.                                                   *)
THEOREM Invariance == Spec => []IInv
<1>1. IInv /\ [Next]_vars => IInv'
  BY TypeStep, LegStep, TurnStep, SendStep, EndStep, ChildStep DEF IInv
<1> QED
  BY InitIInv, <1>1, PTL DEF Spec

(* Every variable keeps its type: no run exceeds its turns, and no channel *)
(* its capacity.                                                           *)
THEOREM TypeCorrect == Spec => []TypeOK
<1>1. IInv => TypeOK
  BY DEF IInv
<1> QED
  BY Invariance, <1>1, PTL

(* A stream that was closed ended with its one terminal event, which       *)
(* agrees with the outcome Result returns: runStream in                    *)
(* src/agent/stream.go.                                                    *)
THEOREM EndsWithOutcomeHolds == Spec => []EndsWithOutcome
<1>1. ASSUME IInv, NEW r \in Runs, pc[r] = "closed" PROVE Told(r)
  BY <1>1 DEF IInv, EndInv
<1>2. IInv => EndsWithOutcome
  BY <1>1 DEF EndsWithOutcome, Told, Tells, Last
<1> QED
  BY Invariance, <1>2, PTL

(* The goroutine of a child lives only inside the call that delegates to   *)
(* it: streamDelegatedTool in src/agent/delegate.go.                       *)
THEOREM ChildWithinCallHolds == Spec => []ChildWithinCall
<1>1. IInv => ChildWithinCall
  BY DEF IInv, ChildInv, ChildGone, ChildWithinCall
<1> QED
  BY Invariance, <1>1, PTL

-----------------------------------------------------------------------------
(* What a delegation has told so far: the stream told has, from the place  *)
(* began on, the start of the task and then the events to forward among    *)
(* the first n of the child's stream, in order, and nothing else.          *)
Copied(told, stream, from, n) ==
  /\ Len(told) = from + 1 + Cardinality(Own(stream, n))
  /\ told[from + 1] = Event("task_started", Child)
  /\ \A i \in Own(stream, n) :
       told[from + 1 + Cardinality(Own(stream, i))] = stream[i]

(* How many of the child's events have been received.                      *)
Seen == Len(log[Child]) - unread[Child]

(* Starting the task, forwarding, and ending it, unless cancelled.         *)
Starting ==
  (pc[Root] = "answer" /\ out[Root] # Idle /\ out[Root].to = "spawn") =>
    began = Len(log[Root]) /\ out[Root].event = Event("task_started", Child)

Started == pc[Root] = "spawn" => Copied(log[Root], <<>>, began, 0)

Forwarding ==
  pc[Root] = "forward" =>
    \/ out[Root] = Idle /\ Copied(log[Root], log[Child], began, Seen)
    \/ /\ out[Root] # Idle /\ out[Root].to = "forward"
       /\ Seen > 0 /\ out[Root].event = log[Child][Seen]
       /\ out[Root].event.type \notin Lifecycle
       /\ Copied(log[Root], log[Child], began, Seen - 1)
    \/ /\ out[Root] # Idle /\ out[Root].to = "delegated"
       /\ Drained(Child)
       /\ out[Root].event =
            Event(IF res[Child] = "ok" THEN "task_completed" ELSE "task_failed", Child)
       /\ Copied(log[Root], log[Child], began, Len(log[Child]))

TellingInv ==
  ~ctxDone[Root] =>
    Starting /\ Started /\ Forwarding /\ pc[Root] # "drain" /\ DelegationTold

-----------------------------------------------------------------------------
(* How many events there are to forward.                                   *)
LEMMA OwnFinite ==
  ASSUME NEW c, NEW n \in Nat
  PROVE  IsFiniteSet(Own(c, n)) /\ Cardinality(Own(c, n)) \in Nat
<1>1. Own(c, n) \subseteq 1 .. n
  BY DEF Own
<1>2. IsFiniteSet(1 .. n)
  BY FS_Interval
<1> QED
  BY <1>1, <1>2, FS_Subset, FS_CardinalityType

LEMMA OwnMonotone ==
  ASSUME NEW c, NEW n \in Nat, NEW i \in 0 .. n
  PROVE  Cardinality(Own(c, i)) <= Cardinality(Own(c, n))
<1>1. Own(c, i) \subseteq Own(c, n)
  BY DEF Own
<1> QED
  BY <1>1, OwnFinite, FS_Subset

LEMMA OwnSame ==
  ASSUME NEW c, NEW d, NEW n \in Nat, \A i \in 1 .. n : c[i] = d[i]
  PROVE  Own(c, n) = Own(d, n)
BY DEF Own

(* The next event is one more of them, or not one.                         *)
LEMMA OwnNext ==
  ASSUME NEW c, NEW n \in Nat
  PROVE  /\ c[n + 1].type \in Lifecycle => Own(c, n + 1) = Own(c, n)
         /\ c[n + 1].type \notin Lifecycle =>
              /\ Own(c, n + 1) = Own(c, n) \cup {n + 1}
              /\ Cardinality(Own(c, n + 1)) = Cardinality(Own(c, n)) + 1
<1>1. 1 .. n + 1 = 1 .. n \cup {n + 1} /\ n + 1 \notin 1 .. n
  OBVIOUS
<1>2. c[n + 1].type \in Lifecycle => Own(c, n + 1) = Own(c, n)
  BY <1>1 DEF Own
<1>3. ASSUME c[n + 1].type \notin Lifecycle
      PROVE  Own(c, n + 1) = Own(c, n) \cup {n + 1}
  BY <1>1, <1>3 DEF Own
<1>4. n + 1 \notin Own(c, n)
  BY <1>1 DEF Own
<1>5. Cardinality(Own(c, n) \cup {n + 1}) = Cardinality(Own(c, n)) + 1
  BY <1>4, OwnFinite, FS_AddElement
<1> QED
  BY <1>2, <1>3, <1>5

(* The start of the task begins the copy.                                  *)
LEMMA CopyStarts ==
  ASSUME NEW l \in Seq(Events)
  PROVE  Copied(Append(l, Event("task_started", Child)), <<>>, Len(l), 0)
<1>1. Event("task_started", Child) \in Events
  BY DEF Event, Events, Types, Runs
<1>2. Own(<<>>, 0) = {}
  BY DEF Own
<1>3. Cardinality(Own(<<>>, 0)) = 0
  BY <1>2, FS_EmptySet
<1> QED
  BY <1>1, <1>2, <1>3, AppendProperties DEF Copied

(* An event that is not forwarded leaves it complete.                      *)
LEMMA CopySkips ==
  ASSUME NEW l, NEW c, NEW from, NEW n \in Nat, Copied(l, c, from, n),
         c[n + 1].type \in Lifecycle
  PROVE  Copied(l, c, from, n + 1)
BY OwnNext DEF Copied

(* What the child adds does not count until it is received.                *)
LEMMA CopyIgnores ==
  ASSUME NEW l, NEW c \in Seq(Events), NEW e \in Events, NEW from,
         NEW n \in 0 .. Len(c), Copied(l, c, from, n)
  PROVE  Copied(l, Append(c, e), from, n)
<1> DEFINE d == Append(c, e)
<1>1. \A i \in 1 .. n : c[i] = d[i]
  BY AppendProperties
<1> HIDE DEF d
<1>2. Own(d, n) = Own(c, n)
  BY <1>1, OwnSame
<1>3. ASSUME NEW i \in Own(c, n) PROVE Own(d, i) = Own(c, i) /\ c[i] = d[i]
  <2>1. i \in 1 .. n
    BY DEF Own
  <2> QED
    BY <1>1, <2>1, OwnSame
<1>4. Copied(l, d, from, n)
  BY <1>2, <1>3 DEF Copied
<1> QED
  BY <1>4 DEF d

(* Nothing put after it disturbs it.                                       *)
CopiedThen(told, stream, from, n, e) ==
  /\ Len(told) = from + Cardinality(Own(stream, n)) + 2
  /\ told[from + 1] = Event("task_started", Child)
  /\ \A i \in Own(stream, n) :
       told[from + 1 + Cardinality(Own(stream, i))] = stream[i]
  /\ told[Len(told)] = e

LEMMA CopyStays ==
  ASSUME NEW l \in Seq(Events), NEW c, NEW from \in Nat, NEW n \in Nat,
         NEW e \in Events, Copied(l, c, from, n)
  PROVE  CopiedThen(Append(l, e), c, from, n, e)
<1> DEFINE t == Append(l, e)
           k == Cardinality(Own(c, n))
<1>1. k \in Nat /\ Len(l) = from + 1 + k
  BY OwnFinite DEF Copied
<1>2. Len(t) = Len(l) + 1 /\ t[Len(l) + 1] = e /\ \A i \in 1 .. Len(l) : t[i] = l[i]
  BY AppendProperties
<1> HIDE DEF t, k
<1>3. t[from + 1] = Event("task_started", Child)
  BY <1>1, <1>2 DEF Copied
<1>4. ASSUME NEW i \in Own(c, n)
      PROVE  t[from + 1 + Cardinality(Own(c, i))] = c[i]
  <2>1. i \in 1 .. n
    BY DEF Own
  <2>2. Cardinality(Own(c, i)) \in Nat /\ Cardinality(Own(c, i)) <= k
    BY <2>1, OwnFinite, OwnMonotone DEF k
  <2>3. from + 1 + Cardinality(Own(c, i)) \in 1 .. Len(l)
    BY <1>1, <2>2
  <2> QED
    BY <1>2, <2>3 DEF Copied
<1>5. Len(t) = from + k + 2 /\ t[Len(t)] = e
  BY <1>1, <1>2
<1> QED
  BY <1>3, <1>4, <1>5 DEF t, k, CopiedThen

(* The event that was received is put next.                                *)
LEMMA CopyGoesOn ==
  ASSUME NEW l \in Seq(Events), NEW c \in Seq(Events), NEW from \in Nat,
         NEW n \in Nat, n + 1 <= Len(c), Copied(l, c, from, n),
         c[n + 1].type \notin Lifecycle
  PROVE  Copied(Append(l, c[n + 1]), c, from, n + 1)
<1> DEFINE e == c[n + 1]
           t == Append(l, e)
           k == Cardinality(Own(c, n))
<1>1. e \in Events
  BY ElementOfSeq
<1> HIDE DEF e
<1>2. /\ Len(t) = from + k + 2
      /\ t[from + 1] = Event("task_started", Child)
      /\ \A i \in Own(c, n) : t[from + 1 + Cardinality(Own(c, i))] = c[i]
      /\ t[Len(t)] = e
  <2>1. CopiedThen(t, c, from, n, e)
    BY <1>1, CopyStays
  <2> HIDE DEF t
  <2> QED
    BY <2>1 DEF CopiedThen
<1>3. k \in Nat
  BY OwnFinite
<1> HIDE DEF t, k
<1>4. Own(c, n + 1) = Own(c, n) \cup {n + 1} /\ Cardinality(Own(c, n + 1)) = k + 1
  BY OwnNext DEF k
<1>5. t[from + 1 + Cardinality(Own(c, n + 1))] = c[n + 1]
  <2>1. from + 1 + Cardinality(Own(c, n + 1)) = Len(t)
    BY <1>2, <1>3, <1>4
  <2> QED
    BY <1>2, <2>1 DEF e
<1>6. \A i \in Own(c, n + 1) : t[from + 1 + Cardinality(Own(c, i))] = c[i]
  BY <1>2, <1>4, <1>5
<1>7. Len(t) = from + 1 + Cardinality(Own(c, n + 1))
  BY <1>2, <1>3, <1>4
<1> QED
  BY <1>2, <1>6, <1>7 DEF Copied, t, e

-----------------------------------------------------------------------------
(* A run elsewhere has told nothing yet, or has gone on.                   *)
Elsewhere ==
  /\ pc[Root] \notin {"spawn", "forward", "drain"}
  /\ pc[Root] = "answer" => (out[Root] = Idle \/ out[Root].to # "spawn")
  /\ pc[Root] = "delegated" => out[Root] # Idle

LEMMA TellingElsewhere == (Elsewhere \/ ctxDone[Root]) => TellingInv
BY DEF Elsewhere, TellingInv, Starting, Started, Forwarding, DelegationTold, At

(* What a step of the child can change.                                    *)
LEMMA ChildMoves ==
  ASSUME TypeOK, LegInv, [Next]_vars,
         RunStep(Child) \/ Read \/ Cancel \/ ToolTimeout \/ UNCHANGED vars
  PROVE  /\ UNCHANGED <<began, unread[Child] - Len(log[Child])>>
         /\ pc'[Root] = pc[Root] /\ out'[Root] = out[Root] /\ log'[Root] = log[Root]
         /\ ctxDone[Root] => ctxDone'[Root]
         /\ \/ log'[Child] = log[Child]
            \/ \E e \in Events : log'[Child] = Append(log[Child], e)
         /\ pc[Child] \in {"idle", "closed"} =>
              /\ pc'[Child] = pc[Child] /\ log'[Child] = log[Child]
              /\ unread'[Child] = unread[Child] /\ res'[Child] = res[Child]
<1> USE DEF Runs, Root, Child, Idle, TypeOK
<1>1. CASE Read \/ Cancel \/ ToolTimeout \/ UNCHANGED vars
  BY <1>1 DEF Read, Cancel, ToolTimeout, vars
<1>2. CASE Put(Child)
  <2>1. pc[Child] \notin {"idle", "closed"}
    BY <1>2 DEF Put, LegInv, Legs
  <2>2. out[Child].event \in Events
    BY <1>2 DEF Put
  <2>3. log'[Child] = Append(log[Child], out[Child].event) /\ log'[Root] = log[Root]
    BY <1>2 DEF Put
  <2>4. unread'[Child] = unread[Child] + 1 /\ Len(log'[Child]) = Len(log[Child]) + 1
    BY <1>2, <2>2, <2>3 DEF Put
  <2>5. /\ pc'[Root] = pc[Root] /\ out'[Root] = out[Root]
        /\ began' = began /\ ctxDone' = ctxDone
    BY <1>2 DEF Put, Goto
  <2>6. unread'[Child] - Len(log'[Child]) = unread[Child] - Len(log[Child])
    <3>1. unread[Child] \in Int /\ Len(log[Child]) \in Int
      BY StreamAssumption
    <3> QED
      BY <2>4, <3>1
  <2> QED
    BY <2>1, <2>2, <2>3, <2>5, <2>6
<1>3. CASE Abort(Child)
  <2>1. pc[Child] \notin {"idle", "closed"}
    BY <1>3 DEF Abort, LegInv, Legs
  <2> QED
    BY <1>3, <2>1 DEF Abort, Goto
<1>4. CASE \/ Begin(Child) \/ Fails(Child) \/ Setup(Child) \/ StartTurn(Child)
           \/ Delta(Child) \/ ModelEnds(Child) \/ FinalAnswer(Child)
           \/ CallTool(Child) \/ ToolResult(Child) \/ CallHandoff(Child)
           \/ Handoff(Child) \/ EndTurn(Child) \/ ReportError(Child) \/ Close(Child)
  <2>1. pc[Child] \notin {"idle", "closed"}
    BY <1>4 DEF Begin, Fails, Setup, StartTurn, Delta, ModelEnds, FinalAnswer,
       CallTool, ToolResult, CallHandoff, Handoff, EndTurn, ReportError, Close, At
  <2>2. UNCHANGED <<log, unread, began, ctxDone>>
    BY <1>4 DEF Begin, Fails, Setup, StartTurn, Delta, ModelEnds, FinalAnswer,
       CallTool, ToolResult, CallHandoff, Handoff, EndTurn, ReportError, Close
  <2>3. pc'[Root] = pc[Root] /\ out'[Root] = out[Root]
    BY <1>4 DEF Begin, Fails, Setup, StartTurn, Delta, ModelEnds, FinalAnswer,
       CallTool, ToolResult, CallHandoff, Handoff, EndTurn, ReportError, Close,
       Goto, sendEvent, Send
  <2> QED
    BY <2>1, <2>2, <2>3
<1> QED
  BY <1>1, <1>2, <1>3, <1>4 DEF RunStep

(* The child, the reader and the clock do not disturb what was told.       *)
LEMMA TellingKept ==
  ASSUME IInv, TellingInv, [Next]_vars,
         RunStep(Child) \/ Read \/ Cancel \/ ToolTimeout \/ UNCHANGED vars
  PROVE  TellingInv'
<1> DEFINE l == log[Root]
           c == log[Child]
<1>1. /\ began' = began /\ unread'[Child] - Len(c') = unread[Child] - Len(c)
      /\ pc'[Root] = pc[Root] /\ out'[Root] = out[Root] /\ l' = l
      /\ ctxDone[Root] => ctxDone'[Root]
      /\ c' = c \/ \E e \in Events : c' = Append(c, e)
      /\ pc[Child] \in {"idle", "closed"} =>
           /\ pc'[Child] = pc[Child] /\ c' = c
           /\ unread'[Child] = unread[Child] /\ res'[Child] = res[Child]
  <2>1. TypeOK /\ LegInv
    BY DEF IInv
  <2> QED
    BY <2>1, ChildMoves
<1>2. /\ c \in Seq(Events) /\ c' \in Seq(Events)
      /\ unread[Child] \in Nat /\ unread'[Child] \in Nat
      /\ Len(c) \in Nat /\ Len(c') \in Nat /\ unread[Child] <= Len(c)
  <2>1. TypeOK /\ TypeOK'
    BY TypeStep DEF IInv
  <2>2. c \in Seq(Events) /\ c' \in Seq(Events)
    BY <2>1 DEF TypeOK, Runs
  <2>3. unread[Child] \in 0 .. Buffer /\ unread'[Child] \in 0 .. Buffer
    BY <2>1 DEF TypeOK, Runs
  <2>4. unread[Child] <= Len(c)
    BY DEF IInv, ChildInv, Runs
  <2> QED
    BY <2>2, <2>3, <2>4, StreamAssumption, LenProperties
<1>3. Seen' = Seen /\ Seen \in 0 .. Len(c)
  <2>1. Seen = Len(c) - unread[Child] /\ Seen' = Len(c') - unread'[Child]
    BY DEF Seen
  <2>2. unread'[Child] - Len(c') = unread[Child] - Len(c)
    BY <1>1
  <2> HIDE DEF Seen, c
  <2> QED
    BY <1>2, <2>1, <2>2
<1>4. ASSUME NEW n \in 0 .. Len(c), Copied(l, c, began, n)
      PROVE  Copied(l, c', began, n)
  BY <1>1, <1>2, <1>4, CopyIgnores
<1>5. pc[Root] \notin {"forward", "drain"} =>
        /\ c' = c /\ res'[Child] = res[Child]
  BY <1>1 DEF IInv, ChildInv, ChildGone
<1>6. CASE ctxDone'[Root]
  BY <1>6 DEF TellingInv
<1>7. CASE ~ctxDone'[Root]
  <2>1. Starting /\ Started /\ Forwarding /\ pc[Root] # "drain" /\ DelegationTold
    BY <1>1, <1>7 DEF TellingInv
  <2>2. Starting'
    BY <1>1, <2>1 DEF Starting
  <2>3. Started'
    BY <1>1, <2>1 DEF Started
  <2>4. DelegationTold'
    <3>1. CASE pc[Root] = "delegated" /\ out[Root] = Idle
      <4>1. c' = c /\ res'[Child] = res[Child] /\ ~ctxDone[Root]
        BY <1>1, <1>5, <1>7, <3>1
      <4> QED
        BY <1>1, <2>1, <3>1, <4>1 DEF DelegationTold, At
    <3>2. CASE ~(pc[Root] = "delegated" /\ out[Root] = Idle)
      BY <1>1, <3>2 DEF DelegationTold, At
    <3> QED
      BY <3>1, <3>2
  <2>5. Forwarding'
    <3> SUFFICES ASSUME pc[Root] = "forward" PROVE Forwarding'
      BY <1>1 DEF Forwarding
    <3>1. CASE out[Root] = Idle /\ Copied(l, c, began, Seen)
      BY <1>1, <1>3, <1>4, <3>1 DEF Forwarding
    <3>2. CASE /\ out[Root] # Idle /\ out[Root].to = "forward"
               /\ Seen > 0 /\ out[Root].event = c[Seen]
               /\ out[Root].event.type \notin Lifecycle
               /\ Copied(l, c, began, Seen - 1)
      <4>1. Seen \in 1 .. Len(c) /\ Seen - 1 \in 0 .. Len(c)
        BY <1>2, <1>3, <3>2
      <4>2. Copied(l, c', began, Seen - 1)
        BY <1>4, <3>2, <4>1
      <4>3. c'[Seen] = c[Seen]
        <5>1. ASSUME NEW e \in Events, c' = Append(c, e) PROVE c'[Seen] = c[Seen]
          BY <1>2, <4>1, <5>1, AppendProperties
        <5> HIDE DEF Seen, c
        <5> QED
          BY <1>1, <5>1
      <4> HIDE DEF Seen, l, c
      <4> QED
        BY <1>1, <1>3, <3>2, <4>2, <4>3 DEF Forwarding, l, c
    <3>3. CASE /\ out[Root] # Idle /\ out[Root].to = "delegated"
               /\ Drained(Child)
               /\ out[Root].event =
                    Event(IF res[Child] = "ok" THEN "task_completed"
                                               ELSE "task_failed", Child)
               /\ Copied(l, c, began, Len(c))
      <4>1. pc[Child] = "closed" /\ unread[Child] = 0
        BY <3>3 DEF Drained
      <4>2. /\ pc'[Child] = "closed" /\ c' = c
            /\ unread'[Child] = 0 /\ res'[Child] = res[Child]
        BY <1>1, <4>1
      <4> QED
        BY <1>1, <3>3, <4>2 DEF Forwarding, Drained
    <3> QED
      BY <2>1, <3>1, <3>2, <3>3 DEF Forwarding
  <2> QED
    BY <1>1, <2>1, <2>2, <2>3, <2>4, <2>5 DEF TellingInv
<1> QED
  BY <1>6, <1>7

(* A send of the root that is over: what it told, and where it goes on.    *)
LEMMA TellingPut ==
  ASSUME IInv, TellingInv, Put(Root), ~ctxDone[Root]
  PROVE  TellingInv'
<1> DEFINE l == log[Root]
           c == log[Child]
           e == out[Root].event
<1>1. TypeOK /\ <<pc[Root], out[Root].to, out[Root].abort>> \in Legs
  BY DEF IInv, LegInv, Put, Runs
<1>2. Starting /\ Forwarding /\ pc[Root] # "drain"
  BY DEF TellingInv
<1>3. /\ l \in Seq(Events) /\ c \in Seq(Events) /\ began \in Nat
      /\ e \in Events /\ Len(l) \in Nat /\ Len(c) \in Nat
  <2>1. l \in Seq(Events) /\ c \in Seq(Events) /\ began \in Nat
    BY <1>1 DEF TypeOK, Runs
  <2>2. e \in Events
    BY <1>1 DEF TypeOK, Runs, Put, Idle
  <2> QED
    BY <2>1, <2>2, LenProperties
<1>4. /\ l' = Append(l, e) /\ c' = c /\ began' = began
      /\ pc'[Root] = out[Root].to /\ pc'[Child] = pc[Child]
      /\ out'[Root] = Idle /\ unread'[Child] = unread[Child]
      /\ UNCHANGED <<res, ctxDone>>
  <2>1. Root \in Runs /\ Child \in Runs /\ Root # Child
    BY DEF Runs, Root, Child
  <2> QED
    BY <1>1, <2>1 DEF Put, Goto, TypeOK
<1>5. Seen' = Seen /\ Seen \in 0 .. Len(c)
  <2>1. unread[Child] \in 0 .. Buffer /\ unread[Child] <= Len(c)
    BY <1>1 DEF TypeOK, Runs, IInv, ChildInv
  <2>2. Seen = Len(c) - unread[Child] /\ Seen' = Len(c') - unread'[Child]
    BY DEF Seen
  <2> HIDE DEF Seen, c, l
  <2> QED
    BY <1>3, <1>4, <2>1, <2>2, StreamAssumption
<1>6. CASE out[Root].to = "spawn"
  <2>1. pc[Root] = "answer" /\ pc'[Root] = "spawn"
    BY <1>1, <1>4, <1>6 DEF Legs
  <2>2. began = Len(l) /\ e = Event("task_started", Child)
    BY <1>2, <1>6, <2>1 DEF Starting, Put
  <2>3. Copied(Append(l, e), <<>>, began, 0)
    BY <1>3, <2>2, CopyStarts
  <2>4. Started'
    BY <1>4, <2>3 DEF Started
  <2> QED
    BY <1>4, <2>1, <2>4 DEF TellingInv, Starting, Forwarding, DelegationTold, At
<1>7. CASE out[Root].to = "forward"
  <2>1. pc[Root] = "forward" /\ pc'[Root] = "forward"
    BY <1>1, <1>4, <1>7 DEF Legs
  <2>2. /\ Seen > 0 /\ e = c[Seen] /\ e.type \notin Lifecycle
        /\ Copied(l, c, began, Seen - 1)
    BY <1>2, <1>7, <2>1 DEF Forwarding, Put
  <2>3. Copied(Append(l, c[Seen]), c, began, Seen)
    <3>1. PICK n \in Nat : Seen = n + 1
      <4>1. Seen - 1 \in Nat /\ Seen = (Seen - 1) + 1
        BY <1>3, <1>5, <2>2
      <4> QED
        BY <4>1
    <3>2. n + 1 <= Len(c) /\ Copied(l, c, began, n) /\ c[n + 1].type \notin Lifecycle
      BY <1>3, <1>5, <2>2, <3>1
    <3> HIDE DEF Seen, l, c, e
    <3> QED
      BY <1>3, <3>1, <3>2, CopyGoesOn
  <2>4. Forwarding'
    <3> HIDE DEF Seen, e
    <3> QED
      BY <1>4, <1>5, <2>2, <2>3 DEF Forwarding
  <2> QED
    BY <1>4, <2>1, <2>4 DEF TellingInv, Starting, Started, DelegationTold, At
<1>8. CASE out[Root].to = "delegated"
  <2>1. pc[Root] = "forward" /\ pc'[Root] = "delegated"
    BY <1>1, <1>4, <1>8 DEF Legs
  <2> DEFINE end == IF res[Child] = "ok" THEN "task_completed" ELSE "task_failed"
  <2>2. e = Event(end, Child) /\ Copied(l, c, began, Len(c))
    BY <1>2, <1>8, <2>1 DEF Forwarding, Put
  <2>3. /\ Len(l') = began + Cardinality(Own(c, Len(c))) + 2
        /\ l'[began + 1] = Event("task_started", Child)
        /\ \A i \in Own(c, Len(c)) : l'[began + 1 + Cardinality(Own(c, i))] = c[i]
        /\ l'[Len(l')] = e
    <3>1. CopiedThen(Append(l, e), c, began, Len(c), e)
      BY <1>3, <2>2, CopyStays
    <3>2. CopiedThen(l', c, began, Len(c), e)
      BY <1>4, <3>1
    <3> QED
      BY <3>2 DEF CopiedThen
  <2>4. DelegationTold'
    BY <1>4, <2>2, <2>3 DEF DelegationTold, Last
  <2> QED
    BY <1>4, <2>1, <2>4 DEF TellingInv, Starting, Started, Forwarding
<1>9. CASE out[Root].to \notin {"spawn", "forward", "delegated"}
  <2>1. pc'[Root] \notin {"spawn", "forward", "delegated", "drain"}
    BY <1>1, <1>4, <1>9 DEF Legs
  <2> QED
    BY <1>4, <2>1 DEF TellingInv, Starting, Started, Forwarding, DelegationTold, At
<1> QED
  BY <1>6, <1>7, <1>8, <1>9

(* The other steps of the root.                                            *)
LEMMA TellingRoot ==
  ASSUME IInv, TellingInv, RunStep(Root), ~Put(Root), ~ctxDone[Root]
  PROVE  TellingInv'
<1>1. TypeOK /\ LegInv /\ ChildInv
  BY DEF IInv
<1> USE DEF Runs, Root, Child, Idle
<1>2. CASE Delegate
  <2>1. pc[Root] = "answer" /\ pc' = pc /\ log' = log /\ began' = Len(log[Root])
    BY <1>2 DEF Delegate, At
  <2>2. out'[Root].to = "spawn" /\ out'[Root].event = Event("task_started", Child)
    BY <1>1, <1>2 DEF Delegate, Send, TypeOK
  <2> QED
    BY <2>1, <2>2 DEF TellingInv, Starting, Started, Forwarding, DelegationTold, At
<1>3. CASE Spawn
  <2>1. /\ pc[Root] = "spawn" /\ pc'[Root] = "forward" /\ out' = out /\ out[Root] = Idle
        /\ log'[Child] = <<>> /\ log'[Root] = log[Root]
        /\ unread' = unread /\ began' = began
    BY <1>1, <1>3 DEF Spawn, At, TypeOK
  <2>2. Copied(log[Root], <<>>, began, 0)
    BY <2>1 DEF TellingInv, Started
  <2>3. unread[Child] = 0
    BY <1>1, <2>1 DEF ChildInv, ChildGone
  <2>4. Seen' = 0
    BY <2>1, <2>3 DEF Seen
  <2>5. Copied(log[Root], log[Child], began, Seen)'
    BY <2>1, <2>2, <2>4
  <2> QED
    BY <2>1, <2>5 DEF TellingInv, Starting, Started, Forwarding, DelegationTold, At
<1>4. CASE Forward
  <2> DEFINE c == log[Child]
  <2>1. /\ pc[Root] = "forward" /\ pc' = pc /\ out[Root] = Idle
        /\ log' = log /\ began' = began /\ res' = res
        /\ unread[Child] > 0 /\ unread'[Child] = unread[Child] - 1
    BY <1>1, <1>4 DEF Forward, At, Receive, TypeOK
  <2>2. /\ c \in Seq(Events) /\ Len(c) \in Nat /\ unread[Child] \in 1 .. Len(c)
    <3>1. unread[Child] \in 0 .. Buffer /\ unread[Child] <= Len(c)
      BY <1>1 DEF TypeOK, ChildInv
    <3>2. c \in Seq(Events)
      BY <1>1 DEF TypeOK
    <3> QED
      BY <2>1, <3>1, <3>2, LenProperties, StreamAssumption
  <2>3. Seen \in Nat /\ Seen' = Seen + 1 /\ Received = c[Seen + 1]
    <3>1. Seen = Len(c) - unread[Child] /\ Seen' = Len(c) - unread'[Child]
      BY <2>1 DEF Seen
    <3> QED
      BY <2>1, <2>2, <3>1 DEF Received, Seen
  <2>4. Copied(log[Root], c, began, Seen)
    BY <2>1 DEF TellingInv, Forwarding
  <2>5. CASE Received.type \in Lifecycle
    <3>1. out' = out
      BY <1>4, <2>5 DEF Forward
    <3>2. Copied(log[Root], c, began, Seen + 1)
      BY <2>3, <2>4, <2>5, CopySkips
    <3>3. Forwarding'
      <4> HIDE DEF Seen
      <4> QED
        BY <2>1, <2>3, <3>1, <3>2 DEF Forwarding
    <3> QED
      BY <2>1, <3>1, <3>3 DEF TellingInv, Starting, Started, DelegationTold, At
  <2>6. CASE Received.type \notin Lifecycle
    <3>1. out'[Root] = [to |-> "forward", abort |-> "drain", event |-> Received]
      BY <1>1, <1>4, <2>6 DEF Forward, Send, TypeOK
    <3>2. /\ out'[Root] # Idle /\ out'[Root].to = "forward"
          /\ out'[Root].event = Received
      BY <3>1
    <3>3. Seen' > 0 /\ Seen' - 1 = Seen
      BY <2>3
    <3>4. Forwarding'
      <4> HIDE DEF Seen
      <4> QED
        BY <2>1, <2>3, <2>4, <2>6, <3>2, <3>3 DEF Forwarding
    <3> QED
      BY <2>1, <3>4 DEF TellingInv, Starting, Started, DelegationTold, At
  <2> QED
    BY <2>5, <2>6
<1>5. CASE ForwardEnds
  <2> DEFINE end == IF res[Child] = "ok" THEN "task_completed" ELSE "task_failed"
  <2>1. /\ pc[Root] = "forward" /\ pc' = pc /\ out[Root] = Idle
        /\ log' = log /\ began' = began /\ res' = res /\ unread' = unread
        /\ Drained(Child)
    BY <1>5 DEF ForwardEnds, At
  <2>2. Drained(Child)' /\ Seen = Len(log[Child])
    <3>1. Len(log[Child]) \in Nat
      BY <1>1, LenProperties DEF TypeOK
    <3> QED
      BY <2>1, <3>1 DEF Drained, Seen
  <2>3. out'[Root] = [to |-> "delegated", abort |-> "delegated", event |-> Event(end, Child)]
    BY <1>1, <1>5 DEF ForwardEnds, Send, TypeOK
  <2>4. Copied(log[Root], log[Child], began, Len(log[Child]))
    BY <2>1, <2>2 DEF TellingInv, Forwarding
  <2>5. /\ out'[Root] # Idle /\ out'[Root].to = "delegated"
        /\ out'[Root].event = Event(end, Child)
    BY <2>3
  <2>6. Forwarding'
    BY <2>1, <2>2, <2>4, <2>5 DEF Forwarding
  <2> QED
    BY <2>1, <2>6 DEF TellingInv, Starting, Started, DelegationTold, At
<1>6. CASE Drain \/ DrainEnds
  BY <1>6 DEF Drain, DrainEnds, At, TellingInv
<1>7. CASE Abort(Root)
  BY <1>7 DEF Abort
<1>8. ASSUME \/ Begin(Root) \/ Fails(Root) \/ Setup(Root) \/ StartTurn(Root)
             \/ Delta(Root) \/ ModelEnds(Root) \/ FinalAnswer(Root)
             \/ CallTool(Root) \/ ToolResult(Root) \/ CallHandoff(Root)
             \/ Handoff(Root) \/ EndTurn(Root) \/ ReportError(Root) \/ Close(Root)
             \/ LoadFails
      PROVE  TellingInv'
  <2>1. /\ pc'[Root] \notin {"spawn", "forward", "drain"}
        /\ pc'[Root] = "answer" => (out'[Root] = Idle \/ out'[Root].to # "spawn")
        /\ pc'[Root] = "delegated" => out'[Root] # Idle
    BY <1>1, <1>8 DEF Begin, Fails, Setup, StartTurn, Delta, ModelEnds,
       FinalAnswer, CallTool, ToolResult, CallHandoff, Handoff, EndTurn,
       ReportError, Close, LoadFails, At, Goto, sendEvent, Send, TypeOK
  <2> QED
    BY <2>1 DEF TellingInv, Starting, Started, Forwarding, DelegationTold, At
<1> QED
  BY <1>2, <1>3, <1>4, <1>5, <1>6, <1>7, <1>8 DEF RunStep, Delegation

(* Unless the run was cancelled, a delegation appears in its stream as the *)
(* start of the task, all that the child's stream has to forward, in       *)
(* order, and the end of the task: streamDelegatedTool in                  *)
(* src/agent/delegate.go.                                                  *)
THEOREM DelegationToldHolds == Spec => []DelegationTold
<1>1. Init => TellingInv
  BY DEF Init, Runs, Root, Child, Idle, TellingInv, Starting, Started, Forwarding,
     DelegationTold, At
<1>2. IInv /\ TellingInv /\ [Next]_vars => TellingInv'
  <2> SUFFICES ASSUME IInv, TellingInv, [Next]_vars PROVE TellingInv'
    OBVIOUS
  <2>1. CASE RunStep(Child) \/ Read \/ Cancel \/ ToolTimeout \/ UNCHANGED vars
    BY <2>1, TellingKept
  <2>2. CASE RunStep(Root) /\ ~ctxDone[Root]
    BY <2>2, TellingPut, TellingRoot
  <2>3. CASE RunStep(Root) /\ ctxDone[Root]
    <3>1. ctxDone'[Root]
      BY <2>3 DEF IInv, TypeOK, RunStep, Put, Abort, Begin, Fails, Setup, StartTurn,
         Delta, ModelEnds, FinalAnswer, CallTool, ToolResult, CallHandoff, Handoff,
         EndTurn, ReportError, Close, LoadFails, Delegation, Delegate, Spawn,
         Forward, ForwardEnds, Drain, DrainEnds, Runs, Root, Child
    <3> QED
      BY <3>1 DEF TellingInv
  <2> QED
    BY <2>1, <2>2, <2>3 DEF Next, Runs
<1>3. TellingInv => DelegationTold
  BY DEF TellingInv, DelegationTold
<1> QED
  BY Invariance, <1>1, <1>2, <1>3, PTL DEF Spec
=============================================================================
