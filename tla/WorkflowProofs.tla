--------------------------- MODULE WorkflowProofs ---------------------------
(***************************************************************************)
(* Proofs about Workflow, for every plan, channel capacity and number of   *)
(* tasks.                                                                  *)
(***************************************************************************)
EXTENDS Workflow, FiniteSetTheorems, SequenceTheorems, TLAPS

(* The event the loop sends is one event.                                  *)
OutboxOK == outbox = <<>> \/ \E e \in Events : outbox = <<e>>

LEMMA Sending ==
  ASSUME NEW type \in EventTypes, NEW t \in Tasks \cup {Root},
         SendEvent(type, t)
  PROVE  OutboxOK'
<1>1. Event(type, t) \in Events
  BY DEF Event, Events
<1> QED  BY <1>1 DEF SendEvent, OutboxOK

(* The type invariant holds initially and is kept by every step.           *)
LEMMA TypeInit == Init => TypeOK
<1> SUFFICES ASSUME Init PROVE TypeOK
  OBVIOUS
<1>1. <<>> \in Seq([task : Tasks, err : BOOLEAN]) /\ <<>> \in Seq(Events)
  OBVIOUS
<1>2. plan \in PlanType
  BY WorkflowAssumption DEF Init
<1>3. NoErr \in Errors /\ 0 \in Nat /\ 1 \in Nat
  BY DEF Errors
<1>4. pc \in Locations
  BY DEF Init, Locations
<1>5. /\ state \in [Tasks -> States] /\ resErr \in [Tasks -> Errors]
      /\ proc \in [Tasks -> {"none", "run", "emit", "ended"}]
      /\ sent \in [Tasks -> Nat]
  BY <1>3 DEF Init, States
<1>6. firstErr \in Errors /\ cause \in Errors
  BY <1>3 DEF Init
<1>7. /\ at \in Nat /\ unread \in Nat /\ active \in Int /\ completed \in Int
      /\ activeSessions \subseteq Sessions
  BY DEF Init
<1>8. failFast \in BOOLEAN /\ callerDone \in BOOLEAN
  BY DEF Init
<1>9. /\ done \in Seq([task : Tasks, err : BOOLEAN]) /\ log \in Seq(Events)
      /\ outbox = <<>>
  BY <1>1 DEF Init
<1> QED
  BY <1>2, <1>4, <1>5, <1>6, <1>7, <1>8, <1>9 DEF TypeOK

LEMMA TypeStep == TypeOK /\ [Next]_vars => TypeOK'
<1> USE PlanAssumption
<1> SUFFICES ASSUME TypeOK, [Next]_vars PROVE TypeOK'
  OBVIOUS
<1>1. CASE Validate
  BY <1>1 DEF TypeOK, Validate, At, Goto, Locations, Errors
<1>2. CASE LoopTop
  BY <1>2 DEF TypeOK, LoopTop, At, Goto, Locations, FirstErr
<1>3. CASE LoopExit
  BY <1>3 DEF TypeOK, LoopExit, At, Goto, Locations, loopVars
<1>4. ASSUME NEW t \in Tasks, SkipTask(t) PROVE TypeOK'
  <2>1. OutboxOK'
    BY <1>4, Sending DEF SkipTask, EventTypes
  <2> QED  BY <1>4, <2>1 DEF TypeOK, OutboxOK, SkipTask, At, NextSkippable,
              States, Errors, NoErr, Tasks
<1>5. ASSUME NEW t \in Tasks, Admit(t) PROVE TypeOK'
  <2>1. OutboxOK'
    BY <1>5, Sending DEF Admit, EventTypes
  <2>2. Keys(t) \subseteq Sessions
    <3>1. plan.session \in [Tasks -> Sessions \cup {NoSession}]
      BY DEF TypeOK, PlanType
    <3> QED  BY <1>5, <3>1 DEF Keys
  <2>3. t + 1 \in Nat
    BY <1>5 DEF Tasks
  <2> QED  BY <1>5, <2>1, <2>2, <2>3 DEF TypeOK, OutboxOK, Admit, At, States
<1>6. ASSUME NEW t \in Tasks, BuildInputFails(t) PROVE TypeOK'
  <2>1. OutboxOK'
    BY <1>6, Sending DEF BuildInputFails, EventTypes
  <2> QED  BY <1>6, <2>1 DEF TypeOK, OutboxOK, BuildInputFails, At,
              NextAdmissible, States, Tasks, Errors, FirstErr, Goto, Locations
<1>7. CASE SkipEnd
  BY <1>7 DEF TypeOK, SkipEnd, At, Goto, Locations
<1>8. CASE AdmitEnd
  BY <1>8 DEF TypeOK, AdmitEnd, At, Goto, Locations, loopVars
<1>9. CASE FailFastCancel
  BY <1>9 DEF TypeOK, FailFastCancel, Goto, Locations
<1>10. CASE IdleBreak
  BY <1>10 DEF TypeOK, IdleBreak, At, Goto, Locations, loopVars
<1>11. CASE IdleStuck
  BY <1>11 DEF TypeOK, IdleStuck, At, Goto, Locations, FirstErr, Errors
<1>12. CASE ReceiveError \/ ReceiveSuccess
  <2>1. /\ Head(done).task \in Tasks
        /\ Tail(done) \in Seq([task : Tasks, err : BOOLEAN])
    <3>1. done # <<>> /\ done \in Seq([task : Tasks, err : BOOLEAN])
      BY <1>12 DEF TypeOK, ReceiveError, ReceiveSuccess
    <3>2. /\ Head(done) \in [task : Tasks, err : BOOLEAN]
          /\ Tail(done) \in Seq([task : Tasks, err : BOOLEAN])
      BY <3>1, HeadTailProperties
    <3> QED  BY <3>2
  <2>2. CASE ReceiveError
    <3>1. OutboxOK'
      BY <2>1, <2>2, Sending DEF ReceiveError, EventTypes
    <3> QED  BY <2>1, <2>2, <3>1 DEF TypeOK, OutboxOK, ReceiveError, At,
                Released, States, Errors, FirstErr, Goto, Locations
  <2>3. CASE ReceiveSuccess
    <3>1. OutboxOK'
      BY <2>1, <2>3, Sending DEF ReceiveSuccess, EventTypes
    <3> QED  BY <2>1, <2>3, <3>1 DEF TypeOK, OutboxOK, ReceiveSuccess, At,
                Released, States, Goto, Locations
  <2> QED  BY <1>12, <2>2, <2>3
<1>13. CASE Finish
  <2>1. OutboxOK'
    BY <1>13, Sending DEF Finish, EventTypes
  <2> QED  BY <1>13, <2>1 DEF TypeOK, OutboxOK, Finish, At, Goto, Locations,
              loopVars
<1>14. CASE Close
  BY <1>14 DEF TypeOK, Close, At, Goto, Locations, loopVars
<1>15. CASE EmitPut \/ EmitDrop
  <2>1. Emitted
    BY <1>15 DEF EmitPut, EmitDrop
  <2>2. Head(outbox) \in Events
    BY <2>1 DEF TypeOK, Emitted
  <2>3. proc' \in [Tasks -> {"none", "run", "emit", "ended"}]
    BY <2>1 DEF TypeOK, Emitted
  <2>4. log' \in Seq(Events) /\ unread' \in Nat
    <3>1. log \in Seq(Events) /\ unread \in Nat
      BY DEF TypeOK
    <3>2. Append(log, Head(outbox)) \in Seq(Events)
      BY <2>2, <3>1, AppendProperties
    <3>3. CASE EmitPut
      <4>1. log' = Append(log, Head(outbox)) /\ unread' = unread + 1
        BY <3>3 DEF EmitPut, Put
      <4> QED  BY <3>1, <3>2, <4>1
    <3>4. CASE EmitDrop
      BY <3>1, <3>4 DEF EmitDrop
    <3> QED  BY <1>15, <3>3, <3>4
  <2> QED  BY <2>1, <2>3, <2>4 DEF TypeOK, Emitted, loopVars
<1>16. ASSUME NEW t \in Tasks, RunTask(t) PROVE TypeOK'
  <2>1. CASE Produce(t)
    BY <2>1 DEF TypeOK, Produce, Proc, loopVars
  <2>2. CASE ProgressPut(t)
    BY <2>2 DEF TypeOK, ProgressPut, Proc, loopVars, Put, Event, Events,
                EventTypes
  <2>3. CASE ProgressDrop(t)
    BY <2>3 DEF TypeOK, ProgressDrop, Proc, loopVars
  <2>4. CASE AgentRunEnds(t)
    BY <2>4 DEF TypeOK, AgentRunEnds, Proc, loopVars
  <2> QED  BY <1>16, <2>1, <2>2, <2>3, <2>4 DEF RunTask
<1>17. CASE Cancel
  BY <1>17 DEF TypeOK, Cancel, Cancelled, loopVars, Errors
<1>18. CASE CallerCancels
  BY <1>18 DEF TypeOK, CallerCancels, Cancelled, loopVars, Errors
<1>19. CASE ReadEvent
  BY <1>19 DEF TypeOK, ReadEvent, loopVars
<1>20. CASE Terminated \/ UNCHANGED vars
  BY <1>20 DEF TypeOK, Terminated, vars
<1> QED
  BY <1>1, <1>2, <1>3, <1>4, <1>5, <1>6, <1>7, <1>8, <1>9, <1>10, <1>11,
     <1>12, <1>13, <1>14, <1>15, <1>16, <1>17, <1>18, <1>19, <1>20
  DEF Next, Loop

(* Every reachable state of the run is well typed: in particular the       *)
(* counters stay integers, no task state or error outside the code's       *)
(* enumerations appears and at most one event is being sent.               *)
THEOREM TypeCorrect == Spec => []TypeOK
  BY TypeInit, TypeStep, PTL DEF Spec

-----------------------------------------------------------------------------
(* The inductive invariant.  Its parts relate the loop's own bookkeeping   *)
(* to the goroutines: a goroutine executes only for a task in state        *)
(* running, it is spawned for a task whose started event was just sent,    *)
(* and each entry of done is a running task whose goroutine has ended.     *)

Working == {"top", "skip", "admit", "cancel_admit", "wait", "cancel_top"}

Accepted ==
  (pc \in Working \/ \E t \in Tasks : state[t] # "pending") => ValidPlan(plan)

DependenciesKept ==
  \A t \in Tasks : state[t] \in {"running", "succeeded", "failed"} =>
    \A d \in plan.deps[t] : state[d] = "succeeded"

SessionsApart ==
  \A t, u \in Running :
    (t # u /\ plan.session[t] # NoSession) => plan.session[t] # plan.session[u]

SessionsHeld ==
  \A k \in Sessions :
    k \in activeSessions <=> \E t \in Running : plan.session[t] = k

EndedTasks == {t \in Tasks : state[t] \in Ended}
Counted == active = Cardinality(Running) /\ completed = Cardinality(EndedTasks)
WithinLimit == active <= Limit(plan)

ProcsRun ==
  \A t \in Tasks :
    /\ proc[t] \in {"run", "emit"} => state[t] = "running"
    /\ state[t] = "pending" => proc[t] = "none"

SpawnPending ==
  \A e \in Events : (outbox = <<e>> /\ e.type = "started") =>
    /\ e.task \in Tasks
    /\ state[e.task] = "running"
    /\ proc[e.task] = "none"

DoneEntries ==
  \A i \in 1 .. Len(done) :
    /\ state[done[i].task] = "running"
    /\ proc[done[i].task] = "ended"
    /\ \A j \in 1 .. Len(done) : done[j].task = done[i].task => i = j

LoopInv ==
  /\ Accepted /\ DependenciesKept /\ SessionsApart /\ SessionsHeld
  /\ Counted /\ WithinLimit
ProcInv == ProcsRun /\ SpawnPending /\ DoneEntries
IInv == TypeOK /\ LoopInv /\ ProcInv

(* What a step may do to the states of the tasks.                          *)
Same == UNCHANGED <<plan, state, active, completed, activeSessions>>

Begun(t) ==
  /\ pc \in Working /\ Admissible(t)
  /\ state' = [state EXCEPT ![t] = "running"]
  /\ active' = active + 1
  /\ activeSessions' = activeSessions \cup Keys(t)
  /\ UNCHANGED <<plan, completed>>

Dropped(t) ==
  /\ pc \in Working /\ state[t] = "pending"
  /\ \E s \in {"skipped", "failed"} :
       /\ state' = [state EXCEPT ![t] = s]
       /\ s = "failed" => DependenciesSucceeded(t)
  /\ completed' = completed + 1
  /\ UNCHANGED <<plan, active, activeSessions>>

Received(t) ==
  /\ pc \in Working /\ state[t] = "running"
  /\ \E s \in {"succeeded", "failed"} : state' = [state EXCEPT ![t] = s]
  /\ Released(t)
  /\ UNCHANGED plan

LEMMA DoneHead ==
  ASSUME TypeOK, DoneEntries, done # <<>>
  PROVE  /\ Head(done).task \in Tasks
         /\ state[Head(done).task] = "running"
         /\ proc[Head(done).task] = "ended"
<1>1. Head(done) \in [task : Tasks, err : BOOLEAN]
  BY HeadTailProperties DEF TypeOK
<1>2. 1 \in 1 .. Len(done) /\ Head(done) = done[1]
  BY DEF TypeOK
<1> QED  BY <1>1, <1>2 DEF DoneEntries

LEMMA Effects ==
  ASSUME TypeOK, DoneEntries, [Next]_vars
  PROVE  Same \/ \E t \in Tasks : Begun(t) \/ Dropped(t) \/ Received(t)
<1>1. ASSUME NEW t \in Tasks, SkipTask(t) PROVE Dropped(t)
  BY <1>1 DEF SkipTask, At, NextSkippable, Skippable, Dropped, Working
<1>2. ASSUME NEW t \in Tasks, Admit(t) PROVE Begun(t)
  BY <1>2 DEF Admit, At, NextAdmissible, Begun, Working
<1>3. ASSUME NEW t \in Tasks, BuildInputFails(t) PROVE Dropped(t)
  BY <1>3 DEF BuildInputFails, At, NextAdmissible, Admissible, Dropped, Working
<1>4. ASSUME ReceiveError \/ ReceiveSuccess
      PROVE  \E t \in Tasks : Received(t)
  <2>1. Head(done).task \in Tasks /\ state[Head(done).task] = "running"
    BY <1>4, DoneHead DEF ReceiveError, ReceiveSuccess
  <2>2. Received(Head(done).task)
    BY <1>4, <2>1 DEF ReceiveError, ReceiveSuccess, At, Received, Working
  <2> QED  BY <2>1, <2>2
<1>5. ASSUME Validate \/ LoopTop \/ LoopExit \/ SkipEnd \/ AdmitEnd
             \/ FailFastCancel \/ IdleBreak \/ IdleStuck \/ Finish \/ Close
      PROVE  Same
  BY <1>5 DEF Validate, LoopTop, LoopExit, SkipEnd, AdmitEnd, FailFastCancel,
              IdleBreak, IdleStuck, Finish, Close, loopVars, Same
<1>6. ASSUME EmitPut \/ EmitDrop PROVE Same
  BY <1>6 DEF EmitPut, EmitDrop, Emitted, loopVars, Same
<1>7. ASSUME NEW t \in Tasks, RunTask(t) PROVE Same
  BY <1>7 DEF RunTask, Produce, ProgressPut, ProgressDrop, AgentRunEnds,
              loopVars, Same
<1>8. ASSUME Cancel \/ CallerCancels \/ ReadEvent \/ Terminated
             \/ UNCHANGED vars
      PROVE  Same
  BY <1>8 DEF Cancel, CallerCancels, ReadEvent, Terminated, vars, loopVars,
              Same
<1> QED
  BY <1>1, <1>2, <1>3, <1>4, <1>5, <1>6, <1>7, <1>8 DEF Next, Loop

(* The sets the counters count change by one task.                         *)
LEMMA TaskSets ==
  ASSUME TypeOK, NEW t \in Tasks
  PROVE  /\ Begun(t) => t \notin Running /\ Running' = Running \cup {t}
                        /\ EndedTasks' = EndedTasks
         /\ Dropped(t) => Running' = Running
                        /\ t \notin EndedTasks /\ EndedTasks' = EndedTasks \cup {t}
         /\ Received(t) => t \in Running /\ Running' = Running \ {t}
                        /\ t \notin EndedTasks /\ EndedTasks' = EndedTasks \cup {t}
         /\ Same => Running' = Running /\ EndedTasks' = EndedTasks
<1>1. state \in [Tasks -> States]
  BY DEF TypeOK
<1>2. ASSUME Begun(t) PROVE t \notin Running /\ Running' = Running \cup {t}
                            /\ EndedTasks' = EndedTasks
  BY <1>1, <1>2 DEF Begun, Admissible, Running, EndedTasks, Ended
<1>3. ASSUME Dropped(t)
      PROVE  /\ Running' = Running
             /\ t \notin EndedTasks /\ EndedTasks' = EndedTasks \cup {t}
  BY <1>1, <1>3 DEF Dropped, Running, EndedTasks, Ended
<1>4. ASSUME Received(t)
      PROVE  /\ t \in Running /\ Running' = Running \ {t}
             /\ t \notin EndedTasks /\ EndedTasks' = EndedTasks \cup {t}
  BY <1>1, <1>4 DEF Received, Running, EndedTasks, Ended
<1>5. ASSUME Same PROVE Running' = Running /\ EndedTasks' = EndedTasks
  BY <1>5 DEF Same, Running, EndedTasks
<1> QED  BY <1>2, <1>3, <1>4, <1>5

LEMMA FiniteTasks == IsFiniteSet(Running) /\ IsFiniteSet(EndedTasks)
<1>1. IsFiniteSet(Tasks)
  BY PlanAssumption, FS_Interval DEF Tasks
<1>2. Running \in SUBSET Tasks /\ EndedTasks \in SUBSET Tasks
  BY DEF Running, EndedTasks
<1> QED  BY <1>1, <1>2, FS_Subset

LEMMA CountedStep ==
  ASSUME TypeOK, DoneEntries, Counted, [Next]_vars
  PROVE  Counted'
<1>1. PICK t \in Tasks : Same \/ Begun(t) \/ Dropped(t) \/ Received(t)
  BY Effects, PlanAssumption DEF Tasks
<1>2. /\ Cardinality(Running \cup {t}) =
            IF t \in Running THEN Cardinality(Running)
                             ELSE Cardinality(Running) + 1
      /\ Cardinality(EndedTasks \cup {t}) =
            IF t \in EndedTasks THEN Cardinality(EndedTasks)
                                ELSE Cardinality(EndedTasks) + 1
      /\ Cardinality(Running \ {t}) =
            IF t \in Running THEN Cardinality(Running) - 1
                             ELSE Cardinality(Running)
  BY FiniteTasks, FS_AddElement, FS_RemoveElement
<1>3. CASE Same
  BY <1>3, TaskSets DEF Same, Counted
<1>4. CASE Begun(t)
  BY <1>2, <1>4, TaskSets DEF Begun, Counted
<1>5. CASE Dropped(t)
  BY <1>2, <1>5, TaskSets DEF Dropped, Counted
<1>6. CASE Received(t)
  BY <1>2, <1>6, TaskSets DEF Received, Released, Counted
<1> QED  BY <1>1, <1>3, <1>4, <1>5, <1>6

LEMMA AcceptedStep ==
  ASSUME TypeOK, DoneEntries, Accepted, [Next]_vars
  PROVE  Accepted'
<1>1. plan' = plan
  BY Effects DEF Same, Begun, Dropped, Received
<1>2. (pc' \in Working /\ pc \notin Working) => ValidPlan(plan)
  BY DEF Next, Loop, Validate, LoopTop, LoopExit, SkipTask, SkipEnd, Admit,
     BuildInputFails, AdmitEnd, FailFastCancel, IdleBreak, IdleStuck,
     ReceiveError, ReceiveSuccess, Finish, Close, EmitPut, EmitDrop, Emitted,
     RunTask, Produce, ProgressPut, ProgressDrop, AgentRunEnds, Cancel,
     CallerCancels, ReadEvent, Terminated, vars, loopVars, At, Goto, Working
<1>3. (\E t \in Tasks : state'[t] # "pending") =>
        pc \in Working \/ \E t \in Tasks : state[t] # "pending"
  BY Effects DEF Same, Begun, Dropped, Received
<1>4. ValidPlan(plan) => ValidPlan(plan)'
  BY <1>1 DEF ValidPlan, KnownDependencies, Acyclic, SessionsOrdered, DependsOn
<1> QED  BY <1>2, <1>3, <1>4 DEF Accepted

LEMMA DependenciesKeptStep ==
  ASSUME TypeOK, DoneEntries, Accepted, DependenciesKept, [Next]_vars
  PROVE  DependenciesKept'
<1>1. PICK t \in Tasks : Same \/ Begun(t) \/ Dropped(t) \/ Received(t)
  BY Effects, PlanAssumption DEF Tasks
<1>2. CASE Same
  BY <1>2 DEF Same, DependenciesKept
<1>3. CASE Begun(t) \/ Dropped(t) \/ Received(t)
  <2>1. \A u \in Tasks : plan.deps[u] \subseteq Tasks
    BY <1>3 DEF Begun, Dropped, Received, Accepted, ValidPlan,
                KnownDependencies
  <2>2. plan' = plan /\ state \in [Tasks -> States]
    BY <1>3 DEF Begun, Dropped, Received, TypeOK
  <2>3. CASE Begun(t)
    BY <2>1, <2>2, <2>3
    DEF Begun, Admissible, DependenciesSucceeded, DependenciesKept
  <2>4. CASE Dropped(t)
    BY <2>1, <2>2, <2>4 DEF Dropped, DependenciesSucceeded, DependenciesKept
  <2>5. CASE Received(t)
    BY <2>1, <2>2, <2>5 DEF Received, DependenciesKept
  <2> QED  BY <1>3, <2>3, <2>4, <2>5
<1> QED  BY <1>1, <1>2, <1>3

LEMMA SessionsStep ==
  ASSUME TypeOK, DoneEntries, SessionsApart, SessionsHeld, [Next]_vars
  PROVE  SessionsApart' /\ SessionsHeld'
<1>1. PICK t \in Tasks : Same \/ Begun(t) \/ Dropped(t) \/ Received(t)
  BY Effects, PlanAssumption DEF Tasks
<1>0. /\ plan.session \in [Tasks -> Sessions \cup {NoSession}]
      /\ activeSessions \subseteq Sessions /\ NoSession \notin Sessions
  BY PlanAssumption DEF TypeOK, PlanType
<1>2. CASE Same
  BY <1>2, TaskSets DEF Same, SessionsApart, SessionsHeld
<1>3. CASE Begun(t)
  <2>1. /\ Running' = Running \cup {t} /\ plan' = plan
        /\ activeSessions' = activeSessions \cup Keys(t)
        /\ plan.session[t] \notin activeSessions
    BY <1>3, TaskSets DEF Begun, Admissible
  <2> QED  BY <1>0, <2>1 DEF Keys, Running, SessionsApart, SessionsHeld
<1>4. CASE Dropped(t)
  BY <1>4, TaskSets DEF Dropped, SessionsApart, SessionsHeld
<1>5. CASE Received(t)
  <2>1. /\ Running' = Running \ {t} /\ plan' = plan /\ t \in Running
        /\ activeSessions' = activeSessions \ Keys(t)
    BY <1>5, TaskSets DEF Received, Released
  <2> QED  BY <1>0, <2>1 DEF Keys, Running, SessionsApart, SessionsHeld
<1> QED  BY <1>1, <1>2, <1>3, <1>4, <1>5

LEMMA WithinLimitStep ==
  ASSUME TypeOK, DoneEntries, WithinLimit, [Next]_vars
  PROVE  WithinLimit'
<1>1. Limit(plan) \in Int /\ active \in Int
  <2>1. plan.max \in Int /\ active \in Int
    BY DEF TypeOK, PlanType
  <2> QED  BY <2>1 DEF Limit
<1>2. CASE Same
  BY <1>2 DEF Same, WithinLimit, Limit
<1>3. ASSUME NEW t \in Tasks, Begun(t) \/ Dropped(t) \/ Received(t)
      PROVE  WithinLimit'
  <2>1. Limit(plan') = Limit(plan)
    BY <1>3 DEF Begun, Dropped, Received
  <2> QED  BY <1>1, <1>3, <2>1
           DEF Begun, Admissible, Dropped, Received, Released, WithinLimit
<1> QED  BY <1>2, <1>3, Effects

(* The goroutines.                                                         *)
LEMMA NotSpawning ==
  ASSUME NEW type \in EventTypes \ {"started"}, NEW t, SendEvent(type, t)
  PROVE  SpawnPending'
  BY DEF SendEvent, Event, SpawnPending

LEMMA ProcStep ==
  ASSUME TypeOK, ProcInv, [Next]_vars
  PROVE  ProcInv'
<1>1. ASSUME UNCHANGED <<state, proc, done, outbox>> PROVE ProcInv'
  BY <1>1 DEF ProcInv, ProcsRun, SpawnPending, DoneEntries
<1>2. ASSUME UNCHANGED <<state, proc, done>>, SpawnPending' PROVE ProcInv'
  BY <1>2 DEF ProcInv, ProcsRun, DoneEntries
<1>3. ASSUME Validate \/ LoopTop \/ LoopExit \/ SkipEnd \/ AdmitEnd
             \/ FailFastCancel \/ IdleBreak \/ IdleStuck \/ Close
             \/ Cancel \/ CallerCancels \/ ReadEvent \/ Terminated
             \/ UNCHANGED vars
      PROVE  ProcInv'
  BY <1>1, <1>3 DEF Validate, LoopTop, LoopExit, SkipEnd, AdmitEnd,
     FailFastCancel, IdleBreak, IdleStuck, Close, Cancel, CallerCancels,
     ReadEvent, Terminated, vars, loopVars
<1>4. CASE Finish
  <2>1. SpawnPending'
    BY <1>4, NotSpawning DEF Finish, EventTypes
  <2> QED  BY <1>2, <1>4, <2>1 DEF Finish, loopVars
<1>5. ASSUME NEW t \in Tasks, SkipTask(t) \/ BuildInputFails(t)
      PROVE  ProcInv'
  <2>1. SpawnPending'
    BY <1>5, NotSpawning DEF SkipTask, BuildInputFails, EventTypes
  <2>2. /\ state[t] = "pending" /\ UNCHANGED <<proc, done>>
        /\ \E s \in {"skipped", "failed"} : state' = [state EXCEPT ![t] = s]
    BY <1>5 DEF SkipTask, BuildInputFails, NextSkippable, Skippable,
                NextAdmissible, Admissible
  <2>3. ProcsRun'
    BY <2>2 DEF TypeOK, ProcInv, ProcsRun
  <2>4. DoneEntries'
    BY <2>2 DEF TypeOK, ProcInv, DoneEntries
  <2> QED  BY <2>1, <2>3, <2>4 DEF ProcInv
<1>6. ASSUME NEW t \in Tasks, Admit(t) PROVE ProcInv'
  <2>1. /\ state[t] = "pending" /\ UNCHANGED <<proc, done>>
        /\ state' = [state EXCEPT ![t] = "running"]
        /\ outbox' = <<Event("started", t)>>
    BY <1>6 DEF Admit, NextAdmissible, Admissible, SendEvent
  <2>2. proc[t] = "none"
    BY <1>6, <2>1 DEF ProcInv, ProcsRun
  <2>3. ProcsRun'
    BY <2>1, <2>2 DEF TypeOK, ProcInv, ProcsRun
  <2>4. DoneEntries'
    BY <2>1 DEF TypeOK, ProcInv, DoneEntries
  <2>5. SpawnPending'
    BY <1>6, <2>1, <2>2 DEF TypeOK, SpawnPending, Event
  <2> QED  BY <2>3, <2>4, <2>5 DEF ProcInv
<1>7. CASE ReceiveError \/ ReceiveSuccess
  <2> DEFINE h == Head(done).task
  <2>1. /\ h \in Tasks /\ state[h] = "running" /\ proc[h] = "ended"
        /\ done # <<>>
    BY <1>7, DoneHead DEF ProcInv, ReceiveError, ReceiveSuccess
  <2>2. /\ UNCHANGED proc /\ done' = Tail(done)
        /\ \E s \in {"succeeded", "failed"} : state' = [state EXCEPT ![h] = s]
    BY <1>7 DEF ReceiveError, ReceiveSuccess
  <2>3. SpawnPending'
    BY <1>7, NotSpawning DEF ReceiveError, ReceiveSuccess, EventTypes
  <2>4. ProcsRun'
    BY <2>1, <2>2 DEF TypeOK, ProcInv, ProcsRun
  <2>5. DoneEntries'
    <3>1. /\ Len(Tail(done)) = Len(done) - 1
          /\ \A i \in 1 .. Len(Tail(done)) : Tail(done)[i] = done[i + 1]
          /\ Len(done) \in Nat \ {0}
      BY <2>1, HeadTailProperties DEF TypeOK
    <3>2. h = done[1].task
      BY <2>1 DEF TypeOK
    <3>3. ASSUME NEW i \in 1 .. Len(Tail(done))
          PROVE  /\ state'[done'[i].task] = "running"
                 /\ proc'[done'[i].task] = "ended"
                 /\ \A j \in 1 .. Len(Tail(done)) :
                      done'[j].task = done'[i].task => i = j
      <4>1. /\ 1 \in 1 .. Len(done) /\ i + 1 \in 1 .. Len(done) /\ i + 1 # 1
            /\ done'[i] = done[i + 1]
        BY <2>2, <3>1, <3>3
      <4>2. /\ state[done[i + 1].task] = "running"
            /\ proc[done[i + 1].task] = "ended"
            /\ done[i + 1].task # h
        BY <3>2, <4>1 DEF ProcInv, DoneEntries
      <4>3. ASSUME NEW j \in 1 .. Len(Tail(done)),
                   done'[j].task = done'[i].task
            PROVE  i = j
        <5>1. j + 1 \in 1 .. Len(done) /\ done'[j] = done[j + 1]
          BY <2>2, <3>1, <4>3
        <5>2. i + 1 = j + 1
          BY <4>1, <4>3, <5>1 DEF ProcInv, DoneEntries
        <5> QED  BY <5>2, <3>1, <3>3, <4>3
      <4> QED  BY <2>1, <2>2, <4>1, <4>2, <4>3 DEF TypeOK
    <3> QED  BY <2>2, <3>3 DEF DoneEntries
  <2> QED  BY <2>3, <2>4, <2>5 DEF ProcInv
<1>8. CASE EmitPut \/ EmitDrop
  <2>1. PICK e \in Events : outbox = <<e>>
    BY <1>8 DEF TypeOK, EmitPut, EmitDrop, Emitted
  <2>2. /\ outbox' = <<>> /\ UNCHANGED <<state, done>>
        /\ proc' = IF e.type = "started" THEN [proc EXCEPT ![e.task] = "run"]
                                         ELSE proc
    BY <1>8, <2>1 DEF EmitPut, EmitDrop, Emitted, loopVars
  <2>3. e.type = "started" =>
          e.task \in Tasks /\ state[e.task] = "running" /\ proc[e.task] = "none"
    BY <2>1 DEF ProcInv, SpawnPending
  <2>4. SpawnPending'
    BY <2>2 DEF SpawnPending
  <2>5. ProcsRun'
    BY <2>2, <2>3 DEF TypeOK, ProcInv, ProcsRun
  <2>6. DoneEntries'
    BY <2>2, <2>3 DEF TypeOK, ProcInv, DoneEntries
  <2> QED  BY <2>4, <2>5, <2>6 DEF ProcInv
<1>9. ASSUME NEW t \in Tasks, Produce(t) \/ ProgressPut(t) \/ ProgressDrop(t)
      PROVE  ProcInv'
  <2>1. /\ UNCHANGED <<state, done, outbox>> /\ proc[t] \in {"run", "emit"}
        /\ \E s \in {"run", "emit"} : proc' = [proc EXCEPT ![t] = s]
    BY <1>9 DEF Produce, ProgressPut, ProgressDrop, Proc, loopVars
  <2>2. ProcsRun'
    BY <1>9, <2>1 DEF TypeOK, ProcInv, ProcsRun
  <2>3. SpawnPending'
    BY <1>9, <2>1 DEF TypeOK, ProcInv, SpawnPending
  <2>4. DoneEntries'
    BY <1>9, <2>1 DEF TypeOK, ProcInv, DoneEntries
  <2> QED  BY <2>2, <2>3, <2>4 DEF ProcInv
<1>10. ASSUME NEW t \in Tasks, AgentRunEnds(t) PROVE ProcInv'
  <2>1. PICK err \in BOOLEAN : done' = Append(done, [task |-> t, err |-> err])
    BY <1>10 DEF AgentRunEnds
  <2>2. /\ UNCHANGED <<state, outbox>> /\ proc[t] = "run"
        /\ proc' = [proc EXCEPT ![t] = "ended"]
    BY <1>10 DEF AgentRunEnds, Proc, loopVars
  <2>3. state[t] = "running"
    BY <1>10, <2>2 DEF ProcInv, ProcsRun
  <2>4. ProcsRun'
    BY <1>10, <2>2, <2>3 DEF TypeOK, ProcInv, ProcsRun
  <2>5. SpawnPending'
    BY <1>10, <2>2 DEF TypeOK, ProcInv, SpawnPending
  <2>6. DoneEntries'
    <3>1. /\ Len(done') = Len(done) + 1 /\ Len(done) \in Nat
          /\ \A i \in 1 .. Len(done) : done'[i] = done[i]
          /\ done'[Len(done) + 1].task = t
      BY <1>10, <2>1, AppendProperties DEF TypeOK
    <3>2. \A i \in 1 .. Len(done) :
             done[i].task # t /\ done[i].task \in Tasks
      <4>1. \A i \in 1 .. Len(done) : done[i] \in [task : Tasks, err : BOOLEAN]
        BY ElementOfSeq DEF TypeOK
      <4>2. \A i \in 1 .. Len(done) : proc[done[i].task] = "ended"
        BY DEF ProcInv, DoneEntries
      <4> QED  BY <2>2, <4>1, <4>2
    <3>3. ASSUME NEW i \in 1 .. Len(done')
          PROVE  /\ state'[done'[i].task] = "running"
                 /\ proc'[done'[i].task] = "ended"
      <4>1. CASE i = Len(done) + 1
        BY <1>10, <2>2, <2>3, <3>1, <4>1 DEF TypeOK
      <4>2. CASE i \in 1 .. Len(done)
        <5>1. state[done[i].task] = "running" /\ proc[done[i].task] = "ended"
          BY <4>2 DEF ProcInv, DoneEntries
        <5> QED  BY <2>2, <3>1, <3>2, <4>2, <5>1 DEF TypeOK
      <4> QED  BY <3>1, <3>3, <4>1, <4>2
    <3>4. ASSUME NEW i \in 1 .. Len(done'), NEW j \in 1 .. Len(done'),
                 done'[j].task = done'[i].task
          PROVE  i = j
      <4>1. i \in 1 .. Len(done) <=> j \in 1 .. Len(done)
        BY <3>1, <3>2, <3>4
      <4>2. CASE i \in 1 .. Len(done) /\ j \in 1 .. Len(done)
        BY <3>1, <3>4, <4>2 DEF ProcInv, DoneEntries
      <4> QED  BY <3>1, <3>4, <4>1, <4>2
    <3> QED  BY <3>3, <3>4 DEF DoneEntries
  <2> QED  BY <2>4, <2>5, <2>6 DEF ProcInv
<1> QED
  BY <1>3, <1>4, <1>5, <1>6, <1>7, <1>8, <1>9, <1>10 DEF Next, Loop, RunTask

-----------------------------------------------------------------------------
(* The inductive invariant and what follows from it.                       *)
LEMMA IInvInit == Init => IInv
<1> SUFFICES ASSUME Init PROVE IInv
  OBVIOUS
<1>1. TypeOK
  BY TypeInit
<1>2. /\ state = [t \in Tasks |-> "pending"] /\ proc = [t \in Tasks |-> "none"]
      /\ active = 0 /\ completed = 0 /\ activeSessions = {}
      /\ done = <<>> /\ outbox = <<>> /\ pc = "start"
  BY DEF Init
<1>3. Running = {} /\ EndedTasks = {}
  BY <1>2 DEF Running, EndedTasks, Ended
<1>4. Counted
  BY <1>2, <1>3, FS_EmptySet DEF Counted
<1>5. WithinLimit
  <2>1. plan.max \in Int
    BY <1>1 DEF TypeOK, PlanType
  <2> QED  BY <1>2, <2>1 DEF WithinLimit, Limit
<1>6. Accepted /\ DependenciesKept
  BY <1>2 DEF Accepted, Working, DependenciesKept
<1>7. SessionsApart /\ SessionsHeld
  BY <1>2, <1>3 DEF SessionsApart, SessionsHeld
<1>8. ProcInv
  BY <1>2 DEF ProcInv, ProcsRun, SpawnPending, DoneEntries
<1> QED  BY <1>1, <1>4, <1>5, <1>6, <1>7, <1>8 DEF IInv, LoopInv

LEMMA IInvStep == IInv /\ [Next]_vars => IInv'
<1> SUFFICES ASSUME IInv, [Next]_vars PROVE IInv'
  OBVIOUS
<1>1. TypeOK /\ LoopInv /\ ProcInv /\ DoneEntries
  BY DEF IInv, ProcInv
<1>2. TypeOK'
  BY <1>1, TypeStep
<1>3. LoopInv'
  BY <1>1, CountedStep, AcceptedStep, DependenciesKeptStep, SessionsStep,
     WithinLimitStep DEF LoopInv
<1>4. ProcInv'
  BY <1>1, ProcStep
<1> QED  BY <1>2, <1>3, <1>4 DEF IInv

THEOREM InductiveInvariant == Spec => []IInv
  BY IInvInit, IInvStep, PTL DEF Spec

LEMMA LiveRun == IInv => Live \subseteq Running
  BY DEF IInv, ProcInv, ProcsRun, Live, Running

(* The loop's counters and sets always agree with the states of the tasks. *)
THEOREM BookkeepingCorrect == Spec => []Bookkeeping
<1>1. IInv => Bookkeeping
  <2> SUFFICES ASSUME IInv PROVE Bookkeeping
    OBVIOUS
  <2>1. active = Cardinality(Running)
        /\ completed = Cardinality({t \in Tasks : state[t] \in Ended})
    BY DEF IInv, LoopInv, Counted, EndedTasks
  <2>2. activeSessions = {plan.session[t] : t \in Running} \ {NoSession}
    <3>1. /\ plan.session \in [Tasks -> Sessions \cup {NoSession}]
          /\ activeSessions \subseteq Sessions /\ NoSession \notin Sessions
      BY PlanAssumption DEF IInv, TypeOK, PlanType
    <3> QED  BY <3>1 DEF IInv, LoopInv, SessionsHeld, Running
  <2> QED  BY <2>1, <2>2 DEF IInv, ProcInv, DoneEntries, Bookkeeping
<1> QED  BY <1>1, InductiveInvariant, PTL

(* However tasks end, fail and are admitted, at most MaxParallel agent     *)
(* runs (one when it is 0) execute at the same time.                       *)
THEOREM ParallelLimitHolds == Spec => []ParallelLimit
<1>1. IInv => ParallelLimit
  <2> SUFFICES ASSUME IInv PROVE ParallelLimit
    OBVIOUS
  <2>1. Cardinality(Live) <= Cardinality(Running)
    BY LiveRun, FiniteTasks, FS_Subset
  <2>2. Cardinality(Running) \in Nat /\ Cardinality(Live) \in Nat
    BY LiveRun, FiniteTasks, FS_Subset, FS_CardinalityType
  <2>3. Cardinality(Running) <= Limit(plan)
    BY DEF IInv, LoopInv, Counted, WithinLimit
  <2>4. Limit(plan) \in Int
    <3>1. plan.max \in Int
      BY DEF IInv, TypeOK, PlanType
    <3> QED  BY <3>1 DEF Limit
  <2> QED  BY <2>1, <2>2, <2>3, <2>4 DEF ParallelLimit
<1> QED  BY <1>1, InductiveInvariant, PTL

(* A task executes only after everything it depends on, at any distance,   *)
(* has succeeded.  The succeeded tasks are closed under dependencies, so   *)
(* they contain whatever the dependencies of a running task lead to.       *)
THEOREM DependencyOrderHolds == Spec => []DependencyOrder
<1>1. IInv => DependencyOrder
  <2> SUFFICES ASSUME IInv, NEW t \in Live, NEW u \in Tasks,
                      DependsOn(plan, t, u)
               PROVE  state[u] = "succeeded"
    BY DEF DependencyOrder
  <2> DEFINE Succeeded == {v \in Tasks : state[v] = "succeeded"}
  <2>1. t \in Tasks /\ state[t] = "running"
    BY LiveRun DEF Running
  <2>2. \A v \in Tasks : plan.deps[v] \subseteq Tasks
    BY <2>1 DEF IInv, LoopInv, Accepted, ValidPlan, KnownDependencies
  <2>3. /\ plan.deps[t] \subseteq Succeeded
        /\ \A v \in Succeeded : plan.deps[v] \subseteq Succeeded
    BY <2>1, <2>2 DEF IInv, LoopInv, DependenciesKept
  <2>4. Succeeded \in SUBSET Tasks
    OBVIOUS
  <2>5. u \in Succeeded
    BY <2>3, <2>4 DEF DependsOn
  <2> QED  BY <2>5
<1> QED  BY <1>1, InductiveInvariant, PTL

(* Two agent runs never execute on the same session at the same time.      *)
THEOREM SessionExclusiveHolds == Spec => []SessionExclusive
<1>1. IInv => SessionExclusive
  BY LiveRun DEF IInv, LoopInv, SessionsApart, SessionExclusive
<1> QED  BY <1>1, InductiveInvariant, PTL

LEMMA EndedKept ==
  ASSUME IInv, [Next]_vars, NEW t \in Tasks, state[t] \in Ended
  PROVE  state'[t] = state[t] /\ resErr'[t] = resErr[t]
<1>1. TypeOK /\ DoneEntries
  BY DEF IInv, ProcInv
<1>2. state'[t] = state[t]
  <2>1. state \in [Tasks -> States]
    BY <1>1 DEF TypeOK
  <2>2. ASSUME NEW u \in Tasks, Begun(u) \/ Dropped(u) \/ Received(u)
        PROVE  u # t /\ state'[t] = state[t]
    BY <2>1, <2>2 DEF Begun, Admissible, Dropped, Received, Ended
  <2> QED  BY <1>1, <2>2, Effects DEF Same
<1>3. resErr'[t] = resErr[t]
  <2>1. resErr \in [Tasks -> Errors]
    BY <1>1 DEF TypeOK
  <2>2. ASSUME NEW u \in Tasks, SkipTask(u) \/ BuildInputFails(u)
        PROVE  resErr'[t] = resErr[t]
    BY <2>1, <2>2 DEF SkipTask, BuildInputFails, NextSkippable, Skippable,
                      NextAdmissible, Admissible, Ended
  <2>3. ASSUME ReceiveError PROVE resErr'[t] = resErr[t]
    <3>1. state[Head(done).task] = "running" /\ Head(done).task \in Tasks
      BY <1>1, <2>3, DoneHead DEF ReceiveError
    <3> QED  BY <2>1, <2>3, <3>1 DEF ReceiveError, Ended
  <2> QED
    BY <2>2, <2>3 DEF Next, Loop, Validate, LoopTop, LoopExit, SkipEnd,
       Admit, AdmitEnd, FailFastCancel, IdleBreak, IdleStuck, ReceiveSuccess,
       Finish, Close, EmitPut, EmitDrop, Emitted, RunTask, Produce,
       ProgressPut, ProgressDrop, AgentRunEnds, Cancel, CallerCancels,
       ReadEvent, Terminated, vars, loopVars
<1> QED  BY <1>2, <1>3

(* A task ends once: no later step changes its state or its error.         *)
THEOREM EndsOnceHolds == Spec => EndsOnce
<1> DEFINE Kept == \A t \in Tasks : state[t] \in Ended =>
                     state'[t] = state[t] /\ resErr'[t] = resErr[t]
<1>1. [Next]_vars /\ IInv => [Kept]_vars
  BY EndedKept
<1> QED  BY <1>1, InductiveInvariant, PTL DEF Spec, EndsOnce

-----------------------------------------------------------------------------
(* Why a workflow run skips what it skips and reports the error it         *)
(* reports, and the proof that it keeps the promises of TaskGraph.         *)

(* Something t depends on has failed.                                      *)
Doomed(t) == \E u \in Tasks : DependsOn(plan, t, u) /\ state[u] = "failed"

(* While nothing was cancelled: what was skipped depends on a failure, and *)
(* so does all that is pending once the loop has set failFast by itself.   *)
SkipReason ==
  cause = NoErr =>
    \A t \in Tasks :
      (state[t] = "skipped" \/ (failFast /\ state[t] = "pending")) => Doomed(t)

(* The admission pass leaves nothing admissible behind it.                 *)
PassDone ==
  /\ pc \in {"admit", "cancel_admit"} =>
       \A t \in Tasks : t < at => ~Admissible(t)
  /\ (pc = "wait" /\ ~failFast) => \A t \in Tasks : ~Admissible(t)

CancelHasError == pc \in {"cancel_admit", "cancel_top"} => firstErr # NoErr

AllEnded ==
  pc \in {"finish", "closing", "closed"} => completed = N \/ firstErr = BadPlan

PromiseInv == IInv /\ SkipReason /\ PassDone /\ CancelHasError /\ AllEnded

(* Reaching further along dependencies.                                    *)
LEMMA DirectDependency ==
  ASSUME NEW t \in Tasks, NEW d \in plan.deps[t]
  PROVE  /\ DependsOn(plan, t, d)
         /\ \A u : DependsOn(plan, d, u) => DependsOn(plan, t, u)
  BY DEF DependsOn

LEMMA DoomedByDependency ==
  ASSUME NEW t \in Tasks, NEW d \in plan.deps[t], d \in Tasks,
         state[d] = "failed" \/ Doomed(d)
  PROVE  Doomed(t)
  BY DirectDependency DEF Doomed

LEMMA DoomedKept ==
  ASSUME IInv, [Next]_vars, NEW t \in Tasks, Doomed(t)
  PROVE  Doomed(t)'
<1>1. TypeOK /\ DoneEntries
  BY DEF IInv, ProcInv
<1>2. PICK u \in Tasks : DependsOn(plan, t, u) /\ state[u] = "failed"
  BY DEF Doomed
<1>3. state \in [Tasks -> States]
  BY <1>1 DEF TypeOK
<1>4. plan' = plan /\ state'[u] = "failed"
  BY <1>1, <1>2, <1>3, Effects DEF Same, Begun, Admissible, Dropped, Received
<1> QED  BY <1>2, <1>4 DEF Doomed

LEMMA AcceptedDeps ==
  ASSUME IInv, pc \in Working
  PROVE  ValidPlan(plan) /\ \A t \in Tasks : plan.deps[t] \subseteq Tasks
  BY DEF IInv, LoopInv, Accepted, ValidPlan, KnownDependencies

(* With no task active and none admissible, all that is pending depends on *)
(* a failure: a minimal pending task that does not would be admissible.    *)
LEMMA StuckIsDoomed ==
  ASSUME IInv, SkipReason, cause = NoErr, pc = "wait", active = 0,
         \A t \in Tasks : ~Admissible(t),
         NEW t \in Tasks, state[t] = "pending"
  PROVE  Doomed(t)
<1> DEFINE Odd == {u \in Tasks : state[u] = "pending" /\ ~Doomed(u)}
<1>1. ValidPlan(plan) /\ \A u \in Tasks : plan.deps[u] \subseteq Tasks
  BY AcceptedDeps DEF Working
<1>2. Running = {}
  BY FiniteTasks, FS_EmptySet DEF IInv, LoopInv, Counted
<1>3. activeSessions = {}
  BY <1>2 DEF IInv, TypeOK, LoopInv, SessionsHeld
<1>4. active < Limit(plan)
  <2>1. plan.max \in Int
    BY DEF IInv, TypeOK, PlanType
  <2> QED  BY <2>1 DEF Limit
<1>5. ASSUME NEW u \in Odd, plan.deps[u] \cap Odd = {}
      PROVE  FALSE
  <2>1. PICK d \in plan.deps[u] : state[d] # "succeeded"
    BY <1>3, <1>4, <1>5 DEF Admissible, DependenciesSucceeded
  <2>2. d \in Tasks /\ d \notin Odd
    BY <1>1, <1>5, <2>1
  <2>3. state[d] \in {"pending", "failed", "skipped"}
    BY <1>2, <2>1, <2>2 DEF IInv, TypeOK, States, Running
  <2>4. state[d] = "failed" \/ Doomed(d)
    BY <2>2, <2>3 DEF SkipReason
  <2> QED  BY <1>5, <2>1, <2>2, <2>4, DoomedByDependency
<1>6. Odd = {}
  <2>1. Odd \in SUBSET Tasks
    OBVIOUS
  <2> QED  BY <1>1, <1>5, <2>1 DEF ValidPlan, Acyclic
<1> QED  BY <1>6

(* Positive and negative numbers stand for different errors.               *)
LEMMA TaskErrors == \A t \in Tasks : t # NoErr /\ t # BadPlan
  BY PlanAssumption DEF Tasks, NoErr, BadPlan

LEMMA CancelHasErrorStep ==
  ASSUME PromiseInv, [Next]_vars
  PROVE  CancelHasError'
<1>1. ASSUME NEW t \in Tasks, BuildInputFails(t) PROVE firstErr' # NoErr
  BY <1>1, TaskErrors DEF BuildInputFails, FirstErr
<1>2. ASSUME ReceiveError PROVE firstErr' # NoErr
  <2>1. Head(done).task \in Tasks
    BY <1>2, DoneHead DEF PromiseInv, IInv, ProcInv, ReceiveError
  <2> QED  BY <1>2, <2>1, TaskErrors DEF ReceiveError, FirstErr
<1> QED
  BY <1>1, <1>2 DEF PromiseInv, CancelHasError, Next, Loop, Validate, LoopTop,
     LoopExit, SkipTask, SkipEnd, Admit, AdmitEnd, FailFastCancel, IdleBreak,
     IdleStuck, ReceiveSuccess, Finish, Close, EmitPut, EmitDrop, Emitted,
     RunTask, Produce, ProgressPut, ProgressDrop, AgentRunEnds, Cancel,
     CallerCancels, ReadEvent, Terminated, vars, loopVars, At, Goto

LEMMA AllEndedStep ==
  ASSUME PromiseInv, [Next]_vars
  PROVE  AllEnded'
  BY DEF PromiseInv, AllEnded, Next, Loop, Validate, LoopTop,
     LoopExit, SkipTask, SkipEnd, Admit, BuildInputFails, AdmitEnd,
     FailFastCancel, IdleBreak, IdleStuck, ReceiveError, ReceiveSuccess,
     Finish, Close, EmitPut, EmitDrop, Emitted, RunTask, Produce, ProgressPut,
     ProgressDrop, AgentRunEnds, Cancel, CallerCancels, ReadEvent, Terminated,
     vars, loopVars, At, Goto

LEMMA PassDoneStep ==
  ASSUME PromiseInv, [Next]_vars
  PROVE  PassDone'
<1> USE DEF PromiseInv
<1>1. TypeOK /\ IInv /\ PassDone
  BY DEF IInv
<1>2. ASSUME UNCHANGED <<plan, state, active, activeSessions>>
      PROVE  \A t \in Tasks : Admissible(t)' <=> Admissible(t)
  BY <1>2 DEF Admissible, DependenciesSucceeded
<1>3. ASSUME NEW t \in Tasks, Admit(t) \/ BuildInputFails(t)
      PROVE  PassDone'
  <2>1. /\ t >= at /\ state[t] = "pending" /\ pc = "admit"
        /\ \A u \in at .. t - 1 : ~Admissible(u)
    BY <1>3 DEF Admit, BuildInputFails, At, NextAdmissible, Admissible
  <2>2. /\ plan' = plan /\ active' >= active /\ active' \in Int
        /\ activeSessions \subseteq activeSessions'
        /\ \E s \in {"running", "failed"} : state' = [state EXCEPT ![t] = s]
        /\ at' = t + 1 /\ pc' \in {"admit", "cancel_admit"}
    BY <1>1, <1>3 DEF Admit, BuildInputFails, TypeOK, Goto, At
  <2>3. \A u \in Tasks : plan.deps[u] \subseteq Tasks
    BY <1>1, <2>1, AcceptedDeps DEF Working
  <2>4. Limit(plan) \in Int
    <3>1. plan.max \in Int
      BY <1>1 DEF TypeOK, PlanType
    <3> QED  BY <3>1 DEF Limit
  <2>5. state \in [Tasks -> States] /\ active \in Int /\ at \in Nat
    BY <1>1 DEF TypeOK
  <2>6. ASSUME NEW u \in Tasks, u < t + 1, Admissible(u)'
        PROVE  FALSE
    <3>1. u # t /\ state[u] = "pending"
      BY <1>3, <2>2, <2>5, <2>6 DEF Admissible
    <3>2. active < Limit(plan) /\ plan.session[u] \notin activeSessions
      BY <2>2, <2>4, <2>5, <2>6 DEF Admissible
    <3>3. DependenciesSucceeded(u)
      BY <1>3, <2>2, <2>3, <2>5, <2>6 DEF Admissible, DependenciesSucceeded
    <3>4. Admissible(u)
      BY <3>1, <3>2, <3>3 DEF Admissible
    <3>5. u < at \/ u \in at .. t - 1
      BY <1>3, <2>5, <2>6, <3>1 DEF Tasks
    <3> QED  BY <1>1, <2>1, <3>4, <3>5, <2>6 DEF PassDone
  <2> QED  BY <2>2, <2>6 DEF PassDone
<1>4. CASE SkipEnd
  <2>1. at' = 1 /\ pc' = (IF failFast THEN "wait" ELSE "admit")
        /\ failFast' = failFast
    BY <1>4 DEF SkipEnd, Goto
  <2>2. \A t \in Tasks : ~(t < 1)
    BY DEF Tasks
  <2> QED  BY <2>1, <2>2 DEF PassDone
<1>5. CASE AdmitEnd
  <2>1. /\ \A t \in at .. N : ~Admissible(t)
        /\ \A t \in Tasks : t < at => ~Admissible(t)
        /\ pc' = "wait"
        /\ UNCHANGED <<plan, state, active, activeSessions>>
    BY <1>1, <1>5 DEF AdmitEnd, At, Goto, loopVars, PassDone
  <2>2. \A t \in Tasks : ~Admissible(t)
    BY <1>1, <2>1, PlanAssumption DEF Tasks, TypeOK
  <2> QED  BY <1>2, <2>1, <2>2 DEF PassDone
<1>6. CASE FailFastCancel
  <2>1. /\ (pc = "cancel_admit" /\ pc' = "admit") \/ pc' = "top"
        /\ at' = at /\ UNCHANGED <<plan, state, active, activeSessions>>
    BY <1>6 DEF FailFastCancel, Goto
  <2> QED  BY <1>1, <1>2, <2>1 DEF PassDone
<1>7. ASSUME UNCHANGED <<plan, pc, at, state, failFast, active, activeSessions>>
      PROVE  PassDone'
  BY <1>1, <1>2, <1>7 DEF PassDone
<1>8. ASSUME EmitPut \/ EmitDrop PROVE PassDone'
  BY <1>7, <1>8 DEF EmitPut, EmitDrop, Emitted, loopVars
<1>9. ASSUME NEW t \in Tasks, RunTask(t) PROVE PassDone'
  BY <1>7, <1>9 DEF RunTask, Produce, ProgressPut, ProgressDrop, AgentRunEnds,
     loopVars
<1>10. ASSUME Cancel \/ CallerCancels \/ ReadEvent \/ Terminated
              \/ UNCHANGED vars
       PROVE  PassDone'
  BY <1>7, <1>10 DEF Cancel, CallerCancels, ReadEvent, Terminated, vars,
     loopVars
<1>11. ASSUME \/ Validate \/ LoopTop \/ LoopExit \/ IdleBreak \/ IdleStuck
              \/ ReceiveError \/ ReceiveSuccess \/ Finish \/ Close
              \/ \E t \in Tasks : SkipTask(t)
       PROVE  PassDone'
  <2>1. pc' \notin {"admit", "cancel_admit", "wait"}
    BY <1>11 DEF Validate, LoopTop, LoopExit, IdleBreak, IdleStuck,
       ReceiveError, ReceiveSuccess, Finish, Close, SkipTask, At, Goto
  <2> QED  BY <2>1 DEF PassDone
<1> QED
  BY <1>3, <1>4, <1>5, <1>6, <1>8, <1>9, <1>10, <1>11 DEF Next, Loop

LEMMA SkippedIsDoomed ==
  ASSUME PromiseInv, cause = NoErr, NEW t \in Tasks, SkipTask(t)
  PROVE  Doomed(t)
<1>1. IInv /\ SkipReason /\ state[t] = "pending" /\ pc \in Working
  BY DEF PromiseInv, SkipTask, At, NextSkippable, Skippable, Working
<1>2. CASE failFast
  BY <1>1, <1>2 DEF SkipReason
<1>3. CASE ~failFast
  <2>1. PICK d \in plan.deps[t] : state[d] \in {"failed", "skipped"}
    BY <1>3 DEF SkipTask, NextSkippable, Skippable, HasFailedDependency
  <2>2. d \in Tasks
    BY <1>1, <2>1, AcceptedDeps
  <2>3. state[d] = "failed" \/ Doomed(d)
    BY <1>1, <2>1, <2>2 DEF SkipReason
  <2> QED  BY <2>1, <2>2, <2>3, DoomedByDependency
<1> QED  BY <1>2, <1>3

LEMMA SkipReasonStep ==
  ASSUME PromiseInv, [Next]_vars
  PROVE  SkipReason'
<1>1. /\ TypeOK /\ IInv /\ SkipReason /\ CancelHasError /\ PassDone
      /\ state \in [Tasks -> States] /\ DoneEntries
  BY DEF PromiseInv, IInv, ProcInv, TypeOK
<1> SUFFICES ASSUME cause' = NoErr, NEW t \in Tasks,
                    \/ state'[t] = "skipped"
                    \/ failFast' /\ state'[t] = "pending"
             PROVE  Doomed(t)'
  BY DEF SkipReason
<1>2. cause = NoErr
  BY <1>1 DEF CancelHasError, Next, Loop, Validate, LoopTop,
     LoopExit, SkipTask, SkipEnd, Admit, BuildInputFails, AdmitEnd,
     FailFastCancel, IdleBreak, IdleStuck, ReceiveError, ReceiveSuccess,
     Finish, Close, EmitPut, EmitDrop, Emitted, RunTask, Produce, ProgressPut,
     ProgressDrop, AgentRunEnds, Cancel, CallerCancels, ReadEvent, Terminated,
     vars, loopVars, Cancelled, UserCancel, CallerGone, NoErr
<1>3. CASE state'[t] = "skipped"
  <2>1. state[t] = "skipped" \/ SkipTask(t)
    <3>1. ASSUME NEW u \in Tasks, SkipTask(u), u # t
          PROVE  state'[t] = state[t]
      BY <1>1, <3>1 DEF SkipTask
    <3>2. ASSUME NEW u \in Tasks, Admit(u) \/ BuildInputFails(u)
          PROVE  state[t] = "skipped"
      BY <1>1, <1>3, <3>2 DEF Admit, BuildInputFails
    <3>3. ASSUME ReceiveError \/ ReceiveSuccess PROVE state[t] = "skipped"
      BY <1>1, <1>3, <3>3 DEF ReceiveError, ReceiveSuccess
    <3> QED
      BY <1>3, <3>1, <3>2, <3>3 DEF Next, Loop, Validate, LoopTop, LoopExit,
         SkipEnd, AdmitEnd, FailFastCancel, IdleBreak, IdleStuck, Finish,
         Close, EmitPut, EmitDrop, Emitted, RunTask, Produce, ProgressPut,
         ProgressDrop, AgentRunEnds, Cancel, CallerCancels, ReadEvent,
         Terminated, vars, loopVars
  <2>2. Doomed(t)
    BY <1>1, <1>2, <2>1, SkippedIsDoomed DEF SkipReason
  <2> QED  BY <1>1, <2>2, DoomedKept
<1>4. CASE failFast' /\ state'[t] = "pending"
  <2>1. state[t] = "pending"
    BY <1>1, <1>4, Effects DEF Same, Begun, Dropped, Received
  <2>2. failFast \/ IdleStuck
    BY <1>1, <1>2, <1>4 DEF CancelHasError, Next, Loop, Validate, LoopTop,
       LoopExit, SkipTask, SkipEnd, Admit, BuildInputFails, AdmitEnd,
       FailFastCancel, IdleBreak, ReceiveError, ReceiveSuccess, Finish, Close,
       EmitPut, EmitDrop, Emitted, RunTask, Produce, ProgressPut,
       ProgressDrop, AgentRunEnds, Cancel, CallerCancels, ReadEvent,
       Terminated, vars, loopVars
  <2>3. Doomed(t)
    <3>1. CASE failFast
      BY <1>1, <1>2, <2>1, <3>1 DEF SkipReason
    <3>2. CASE ~failFast /\ IdleStuck
      <4>1. pc = "wait" /\ active = 0 /\ \A u \in Tasks : ~Admissible(u)
        BY <1>1, <3>2 DEF IdleStuck, At, PassDone
      <4> QED  BY <1>1, <1>2, <2>1, <4>1, StuckIsDoomed
    <3> QED  BY <2>2, <3>1, <3>2
  <2> QED  BY <1>1, <2>3, DoomedKept
<1> QED  BY <1>3, <1>4

LEMMA PromiseInvInit == Init => PromiseInv
<1> SUFFICES ASSUME Init PROVE PromiseInv
  OBVIOUS
<1>1. IInv
  BY IInvInit
<1>2. SkipReason /\ PassDone /\ CancelHasError /\ AllEnded
  BY DEF Init, SkipReason, PassDone, CancelHasError, AllEnded
<1> QED  BY <1>1, <1>2 DEF PromiseInv

LEMMA PromiseInvStep == PromiseInv /\ [Next]_vars => PromiseInv'
<1>1. PromiseInv /\ [Next]_vars => IInv'
  BY IInvStep DEF PromiseInv
<1> QED
  BY <1>1, SkipReasonStep, PassDoneStep, CancelHasErrorStep, AllEndedStep
  DEF PromiseInv

THEOREM PromiseInvariant == Spec => []PromiseInv
  BY PromiseInvInit, PromiseInvStep, PTL DEF Spec

-----------------------------------------------------------------------------
LEMMA AllTasksEnded ==
  ASSUME IInv, completed = N
  PROVE  \A u \in Tasks : state[u] \in Ended
<1>1. IsFiniteSet(Tasks) /\ Cardinality(Tasks) = N
  BY PlanAssumption, FS_Interval DEF Tasks
<1>2. EndedTasks \in SUBSET Tasks /\ Cardinality(EndedTasks) = N
  BY DEF IInv, LoopInv, Counted, EndedTasks
<1>3. EndedTasks = Tasks
  BY <1>1, <1>2, FS_Subset
<1> QED  BY <1>3 DEF EndedTasks

(* A run in Continue mode that nobody cancelled has skipped exactly the    *)
(* tasks that depend on a failed one, at any distance, whatever the plan;  *)
(* every other task has run.                                               *)
THEOREM SkipsExactlyDependentsHolds == Spec => []SkipsExactlyDependents
<1>1. PromiseInv => SkipsExactlyDependents
  <2> SUFFICES ASSUME PromiseInv, pc = "closed", cause = NoErr,
                      firstErr # BadPlan, NEW t \in Tasks
               PROVE  state[t] = "skipped" <=> Doomed(t)
    BY DEF SkipsExactlyDependents, Doomed
  <2>1. IInv /\ SkipReason /\ completed = N
    BY DEF PromiseInv, AllEnded
  <2>2. \A u \in Tasks : state[u] \in Ended
    BY <2>1, AllTasksEnded
  <2>3. state[t] = "skipped" => Doomed(t)
    BY <2>1 DEF SkipReason
  <2>4. ASSUME NEW u \in Tasks, DependsOn(plan, t, u), state[u] = "failed",
               state[t] # "skipped"
        PROVE  FALSE
    <3> DEFINE Succeeded == {v \in Tasks : state[v] = "succeeded"}
    <3>1. state[t] \in {"succeeded", "failed"}
      BY <2>2, <2>4 DEF Ended
    <3>2. \A v \in Tasks : plan.deps[v] \subseteq Tasks
      BY <2>1, <3>1 DEF IInv, LoopInv, Accepted, ValidPlan, KnownDependencies
    <3>3. /\ plan.deps[t] \subseteq Succeeded
          /\ \A v \in Succeeded : plan.deps[v] \subseteq Succeeded
      BY <2>1, <3>1, <3>2 DEF IInv, LoopInv, DependenciesKept
    <3>4. Succeeded \in SUBSET Tasks
      OBVIOUS
    <3>5. u \in Succeeded
      BY <2>4, <3>3, <3>4 DEF DependsOn
    <3> QED  BY <2>4, <3>5
  <2> QED  BY <2>3, <2>4 DEF Doomed
<1> QED  BY <1>1, PromiseInvariant, PTL

-----------------------------------------------------------------------------
(* What a run reports.  Every error it records first has an explanation;   *)
(* once something went wrong one is recorded.                              *)
Explained ==
  \/ firstErr = NoErr
  \/ firstErr = BadPlan /\ ~ValidPlan(plan)
  \/ firstErr = cause
  \/ \E t \in Tasks : state[t] = "failed" /\ firstErr = resErr[t]

Trouble == failFast \/ \E t \in Tasks : state[t] \in {"failed", "skipped"}
TroubleTold == Trouble => firstErr # NoErr

ErrorInv == PromiseInv /\ Explained /\ TroubleTold

(* The loop finds nothing runnable only after something went wrong, so     *)
(* the "no runnable tasks" error never becomes the error of a run.         *)
LEMMA StuckHasError ==
  ASSUME ErrorInv, IdleStuck
  PROVE  firstErr # NoErr
<1> SUFFICES ASSUME ~Trouble PROVE FALSE
  BY DEF ErrorInv, TroubleTold
<1> DEFINE Waiting == {u \in Tasks : state[u] = "pending"}
<1>1. /\ IInv /\ pc = "wait" /\ active = 0 /\ completed < N
      /\ \A t \in Tasks : ~Admissible(t)
  BY DEF ErrorInv, PromiseInv, IdleStuck, At, PassDone, Trouble
<1>2. ValidPlan(plan) /\ \A u \in Tasks : plan.deps[u] \subseteq Tasks
  BY <1>1, AcceptedDeps DEF Working
<1>3. Running = {}
  BY <1>1, FiniteTasks, FS_EmptySet DEF IInv, LoopInv, Counted
<1>4. activeSessions = {}
  BY <1>1, <1>3 DEF IInv, TypeOK, LoopInv, SessionsHeld
<1>5. active < Limit(plan)
  <2>1. plan.max \in Int
    BY <1>1 DEF IInv, TypeOK, PlanType
  <2> QED  BY <1>1, <2>1 DEF Limit
<1>6. \A u \in Tasks : state[u] \in {"pending", "succeeded"}
  BY <1>1, <1>3 DEF IInv, TypeOK, States, Running, Trouble
<1>7. ASSUME NEW u \in Waiting, plan.deps[u] \cap Waiting = {}
      PROVE  FALSE
  BY <1>1, <1>2, <1>4, <1>5, <1>6, <1>7
  DEF Admissible, DependenciesSucceeded
<1>8. Waiting = {}
  <2>1. Waiting \in SUBSET Tasks
    OBVIOUS
  <2> QED  BY <1>2, <1>7, <2>1 DEF ValidPlan, Acyclic
<1>9. EndedTasks = Tasks
  BY <1>6, <1>8 DEF EndedTasks, Ended
<1>10. Cardinality(Tasks) = N
  BY PlanAssumption, FS_Interval DEF Tasks
<1> QED  BY <1>1, <1>9, <1>10, PlanAssumption DEF IInv, LoopInv, Counted

(* What went before stays: the plan, a cause once there is one, and the    *)
(* state and error of a task that has failed.                              *)
LEMMA FailureKept ==
  ASSUME IInv, [Next]_vars
  PROVE  /\ \A t \in Tasks : state[t] = "failed" =>
              state'[t] = "failed" /\ resErr'[t] = resErr[t]
         /\ cause # NoErr => cause' = cause
         /\ plan' = plan
         /\ ValidPlan(plan)' <=> ValidPlan(plan)
<1>1. TypeOK /\ DoneEntries
  BY DEF IInv, ProcInv
<1>2. plan' = plan
  BY <1>1, Effects DEF Same, Begun, Dropped, Received
<1>3. ValidPlan(plan)' <=> ValidPlan(plan)
  BY <1>2 DEF ValidPlan, KnownDependencies, Acyclic, SessionsOrdered, DependsOn
<1>4. cause # NoErr => cause' = cause
  BY DEF Next, Loop, Validate, LoopTop,
     LoopExit, SkipTask, SkipEnd, Admit, BuildInputFails, AdmitEnd,
     FailFastCancel, IdleBreak, IdleStuck, ReceiveError, ReceiveSuccess,
     Finish, Close, EmitPut, EmitDrop, Emitted, RunTask, Produce, ProgressPut,
     ProgressDrop, AgentRunEnds, Cancel, CallerCancels, ReadEvent, Terminated,
     vars, loopVars, Cancelled
<1>5. ASSUME NEW t \in Tasks, state[t] = "failed"
      PROVE  state'[t] = "failed" /\ resErr'[t] = resErr[t]
  BY <1>5, EndedKept DEF Ended
<1> QED  BY <1>2, <1>3, <1>4, <1>5

LEMMA ErrorInvInit == Init => ErrorInv
  BY PromiseInvInit DEF Init, ErrorInv, Explained, TroubleTold, Trouble

(* The step that records a task's error has just failed that task.         *)
LEMMA TaskErrorStep ==
  ASSUME ErrorInv,
         ReceiveError \/ \E t \in Tasks : BuildInputFails(t)
  PROVE  /\ firstErr' # NoErr
         /\ \/ firstErr' = firstErr
            \/ firstErr' = cause'
            \/ \E t \in Tasks : state'[t] = "failed" /\ firstErr' = resErr'[t]
<1>1. /\ TypeOK /\ DoneEntries
      /\ state \in [Tasks -> States] /\ resErr \in [Tasks -> Errors]
  BY DEF ErrorInv, PromiseInv, IInv, ProcInv, TypeOK
<1>2. ASSUME NEW t \in Tasks, BuildInputFails(t)
      PROVE  /\ firstErr' = (IF firstErr = NoErr THEN t ELSE firstErr)
             /\ state'[t] = "failed" /\ resErr'[t] = t
  BY <1>1, <1>2 DEF BuildInputFails, FirstErr
<1>3. ASSUME ReceiveError
      PROVE  /\ firstErr' # NoErr
             /\ \/ firstErr' = firstErr
                \/ \E t \in Tasks : state'[t] = "failed" /\ firstErr' = resErr'[t]
  <2>1. Head(done).task \in Tasks
    BY <1>1, <1>3, DoneHead DEF ReceiveError
  <2> DEFINE t == Head(done).task
             e == IF cause # NoErr THEN cause ELSE t
  <2>2. /\ firstErr' = (IF firstErr = NoErr THEN e ELSE firstErr)
        /\ state'[t] = "failed" /\ resErr'[t] = e
    BY <1>1, <1>3, <2>1 DEF ReceiveError, FirstErr
  <2> QED  BY <2>1, <2>2, TaskErrors
<1> QED  BY <1>2, <1>3, TaskErrors

(* Every other step that changes the first error of the run.               *)
LEMMA OtherErrorStep ==
  ASSUME ErrorInv, [Next]_vars,
         ~ReceiveError, ~\E t \in Tasks : BuildInputFails(t)
  PROVE  \/ firstErr' = firstErr
         \/ /\ firstErr' # NoErr
            /\ \/ firstErr' = BadPlan /\ ~ValidPlan(plan)
               \/ firstErr' = cause /\ cause' = cause
<1>1. ASSUME Validate
      PROVE  firstErr' = firstErr \/ (firstErr' = BadPlan /\ ~ValidPlan(plan))
  BY <1>1 DEF Validate
<1>3. ASSUME LoopTop
      PROVE  \/ firstErr' = firstErr
             \/ /\ firstErr' # NoErr
                /\ firstErr' = cause /\ cause' = cause
  BY <1>3 DEF LoopTop, FirstErr
<1>4. ASSUME IdleStuck PROVE firstErr' = firstErr
  BY <1>4, StuckHasError DEF IdleStuck, FirstErr
<1>5. BadPlan # NoErr
  BY DEF BadPlan, NoErr
<1> QED
  BY <1>1, <1>3, <1>4, <1>5 DEF Next, Loop, LoopExit, SkipTask, SkipEnd,
     Admit, AdmitEnd, FailFastCancel, IdleBreak, ReceiveSuccess, Finish, Close,
     EmitPut, EmitDrop, Emitted, RunTask, Produce, ProgressPut, ProgressDrop,
     AgentRunEnds, Cancel, CallerCancels, ReadEvent, Terminated, vars, loopVars

LEMMA ExplainedStep ==
  ASSUME ErrorInv, [Next]_vars
  PROVE  Explained'
<1>1. IInv /\ Explained
  BY DEF ErrorInv, PromiseInv
<1>2. ASSUME firstErr' = firstErr PROVE Explained'
  BY <1>1, <1>2, FailureKept DEF Explained
<1>3. CASE ReceiveError \/ \E t \in Tasks : BuildInputFails(t)
  BY <1>2, <1>3, TaskErrorStep DEF Explained
<1>4. CASE ~ReceiveError /\ ~\E t \in Tasks : BuildInputFails(t)
  BY <1>1, <1>2, <1>4, OtherErrorStep, FailureKept DEF Explained
<1> QED  BY <1>3, <1>4

LEMMA TroubleStep ==
  ASSUME ErrorInv, [Next]_vars, Trouble'
  PROVE  firstErr' # NoErr
<1>1. /\ IInv /\ TroubleTold /\ CancelHasError /\ TypeOK /\ DoneEntries
      /\ state \in [Tasks -> States]
  BY DEF ErrorInv, PromiseInv, IInv, ProcInv, TypeOK
<1>2. CASE ReceiveError \/ \E t \in Tasks : BuildInputFails(t)
  BY <1>2, TaskErrorStep
<1>3. CASE ~ReceiveError /\ ~\E t \in Tasks : BuildInputFails(t)
  <2>1. SUFFICES ASSUME firstErr = NoErr, firstErr' = firstErr PROVE FALSE
    BY <1>3, OtherErrorStep
  <2>2. ~Trouble
    BY <1>1, <2>1 DEF TroubleTold
  <2>3. ASSUME NEW t \in Tasks, SkipTask(t) PROVE FALSE
    <3>1. PICK d \in plan.deps[t] : state[d] \in {"failed", "skipped"}
      BY <2>2, <2>3
      DEF SkipTask, NextSkippable, Skippable, HasFailedDependency, Trouble
    <3>2. d \in Tasks
      BY <1>1, <2>3, <3>1, AcceptedDeps DEF SkipTask, At, Working
    <3> QED  BY <2>2, <3>1, <3>2 DEF Trouble
  <2>4. ASSUME NEW t \in Tasks, Admit(t) PROVE ~Trouble'
    BY <1>1, <2>2, <2>4 DEF Admit, Trouble
  <2>5. ASSUME ReceiveSuccess PROVE ~Trouble'
    BY <1>1, <2>2, <2>5 DEF ReceiveSuccess, Trouble
  <2>6. ~LoopTop \/ failFast' = failFast
    BY <2>1 DEF LoopTop, FirstErr
  <2>7. ~IdleStuck
    BY <2>1, StuckHasError
  <2>8. ~FailFastCancel
    BY <1>1, <2>1 DEF FailFastCancel, CancelHasError
  <2>9. ASSUME failFast' = failFast, state' = state PROVE FALSE
    BY <2>2, <2>9 DEF Trouble
  <2>10. LoopTop => state' = state
    BY DEF LoopTop
  <2> QED
    BY <1>3, <2>3, <2>4, <2>5, <2>6, <2>7, <2>8, <2>9, <2>10 DEF Next, Loop,
       Validate, LoopExit, SkipEnd, AdmitEnd, IdleBreak, Finish, Close,
       EmitPut, EmitDrop, Emitted, RunTask, Produce, ProgressPut,
       ProgressDrop, AgentRunEnds, Cancel, CallerCancels, ReadEvent,
       Terminated, vars, loopVars
<1> QED  BY <1>2, <1>3

THEOREM ErrorInvariant == Spec => []ErrorInv
<1>1. ErrorInv /\ [Next]_vars => ErrorInv'
  <2>1. ErrorInv /\ [Next]_vars => PromiseInv'
    BY PromiseInvStep DEF ErrorInv
  <2> QED  BY <2>1, ExplainedStep, TroubleStep DEF ErrorInv, TroubleTold
<1> QED  BY <1>1, ErrorInvInit, PTL DEF Spec

(* What Run.Result returns is explained by what became of the tasks: no    *)
(* error only when every task succeeded; otherwise the error of a task     *)
(* that failed, the cause of a cancellation or the rejection of the plan,  *)
(* and never the "no runnable tasks" error of the loop.                    *)
THEOREM ErrorsExplainedHolds == Spec => []ErrorsExplained
<1>1. ErrorInv => ErrorsExplained
  <2> SUFFICES ASSUME ErrorInv, pc = "closed" PROVE ErrorsExplained
    BY DEF ErrorsExplained
  <2>1. IInv /\ AllEnded /\ Explained /\ TroubleTold
    BY DEF ErrorInv, PromiseInv
  <2>2. CASE firstErr = NoErr
    <3>1. completed = N
      BY <2>1, <2>2 DEF AllEnded, NoErr, BadPlan
    <3>2. \A t \in Tasks : state[t] \in Ended
      BY <2>1, <3>1, AllTasksEnded
    <3>3. \A t \in Tasks : state[t] = "succeeded"
      BY <2>1, <2>2, <3>2 DEF TroubleTold, Trouble, Ended
    <3> QED  BY <2>2, <3>3 DEF ErrorsExplained
  <2>3. CASE firstErr # NoErr
    BY <2>1, <2>3 DEF Explained, ErrorsExplained
  <2> QED  BY <2>2, <2>3
<1> QED  BY <1>1, ErrorInvariant, PTL

-----------------------------------------------------------------------------
(* A failing run that builds no input: the failure of a task leads the     *)
(* loop to cancel_top at once, and no admission pass is under way by then, *)
(* since the only failures of such a pass are those of BuildInput.         *)
NoBuilds == Mode(plan) = FailFast /\ plan.builds = {}

FailFastInv ==
  NoBuilds =>
    /\ pc # "cancel_admit"
    /\ pc = "admit" => ~failFast
    /\ (\E t \in Tasks : state[t] = "failed") => failFast \/ pc = "cancel_top"

LEMMA FailFastInvInit == Init => FailFastInv
  BY DEF Init, FailFastInv

LEMMA FailFastInvStep ==
  ASSUME IInv, FailFastInv, [Next]_vars
  PROVE  FailFastInv'
<1>1. TypeOK /\ DoneEntries /\ state \in [Tasks -> States]
  BY DEF IInv, ProcInv, TypeOK
<1>2. plan' = plan
  BY FailureKept
<1> SUFFICES ASSUME NoBuilds
             PROVE  /\ pc' # "cancel_admit"
                    /\ pc' = "admit" => ~failFast'
                    /\ (\E t \in Tasks : state'[t] = "failed") =>
                         failFast' \/ pc' = "cancel_top"
  BY <1>2 DEF FailFastInv, NoBuilds, Mode
<1>3. ~\E t \in Tasks : BuildInputFails(t)
  BY DEF BuildInputFails, NoBuilds
<1>4. ReceiveError => pc' = "cancel_top"
  BY DEF ReceiveError, NoBuilds, Goto
<1>5. ASSUME ~ReceiveError, NEW t \in Tasks, state'[t] = "failed"
      PROVE  state[t] = "failed"
  <2>1. ASSUME NEW u \in Tasks, SkipTask(u) \/ Admit(u)
        PROVE  state[t] = "failed"
    BY <1>1, <1>5, <2>1 DEF SkipTask, Admit
  <2>2. ASSUME ReceiveSuccess PROVE state[t] = "failed"
    BY <1>1, <1>5, <2>2 DEF ReceiveSuccess
  <2> QED
    BY <1>3, <1>5, <2>1, <2>2 DEF Next, Loop, Validate, LoopTop, LoopExit,
       SkipEnd, AdmitEnd, FailFastCancel, IdleBreak, IdleStuck, Finish, Close,
       EmitPut, EmitDrop, Emitted, RunTask, Produce, ProgressPut,
       ProgressDrop, AgentRunEnds, Cancel, CallerCancels, ReadEvent,
       Terminated, vars, loopVars
<1>6. ASSUME ~ReceiveError
      PROVE  /\ pc' # "cancel_admit"
             /\ pc' = "admit" => ~failFast'
             /\ failFast \/ pc = "cancel_top" => failFast' \/ pc' = "cancel_top"
  BY <1>3, <1>6 DEF FailFastInv, Next, Loop, Validate, LoopTop, LoopExit,
     SkipTask, SkipEnd, Admit, AdmitEnd, FailFastCancel, IdleBreak, IdleStuck,
     ReceiveSuccess, Finish, Close, EmitPut, EmitDrop, Emitted, RunTask,
     Produce, ProgressPut, ProgressDrop, AgentRunEnds, Cancel, CallerCancels,
     ReadEvent, Terminated, vars, loopVars, At, Goto
<1> QED  BY <1>4, <1>5, <1>6 DEF FailFastInv

(* In FailFast mode, when no task builds its input, nothing is started     *)
(* after a task has failed: what was pending is only ever skipped.         *)
THEOREM FailFastStopsHolds == Spec => FailFastStops
<1> DEFINE Stops ==
      (/\ Mode(plan) = FailFast
       /\ plan.builds = {}
       /\ \E t \in Tasks : state[t] = "failed")
      => \A t \in Tasks : state[t] = "pending" =>
                             state'[t] \in {"pending", "skipped"}
<1>1. ASSUME IInv, FailFastInv, [Next]_vars PROVE Stops
  <2> SUFFICES ASSUME NoBuilds, \E u \in Tasks : state[u] = "failed",
                      NEW t \in Tasks, state[t] = "pending"
               PROVE  state'[t] \in {"pending", "skipped"}
    BY DEF NoBuilds
  <2>1. TypeOK /\ DoneEntries /\ state \in [Tasks -> States]
    BY <1>1 DEF IInv, ProcInv, TypeOK
  <2>2. ~\E u \in Tasks : BuildInputFails(u)
    BY DEF BuildInputFails, NoBuilds
  <2>3. ~\E u \in Tasks : Admit(u)
    BY <1>1 DEF FailFastInv, Admit, At
  <2>4. ASSUME NEW u \in Tasks, SkipTask(u)
        PROVE  state'[t] \in {"pending", "skipped"}
    BY <2>1, <2>4 DEF SkipTask
  <2>5. ASSUME ReceiveError \/ ReceiveSuccess PROVE state'[t] = "pending"
    <3>1. state[Head(done).task] = "running"
      BY <2>1, <2>5, DoneHead DEF ReceiveError, ReceiveSuccess
    <3> QED  BY <2>1, <2>5, <3>1 DEF ReceiveError, ReceiveSuccess
  <2> QED
    BY <1>1, <2>2, <2>3, <2>4, <2>5 DEF Next, Loop, Validate, LoopTop,
       LoopExit, SkipEnd, AdmitEnd, FailFastCancel, IdleBreak, IdleStuck,
       Finish, Close, EmitPut, EmitDrop, Emitted, RunTask, Produce,
       ProgressPut, ProgressDrop, AgentRunEnds, Cancel, CallerCancels,
       ReadEvent, Terminated, vars, loopVars
<1>2. [Next]_vars /\ IInv /\ FailFastInv => [Stops]_vars
  BY <1>1
<1>3. IInv /\ FailFastInv /\ [Next]_vars => FailFastInv'
  BY FailFastInvStep
<1> QED
  BY <1>2, <1>3, FailFastInvInit, InductiveInvariant, PTL
  DEF Spec, FailFastStops

-----------------------------------------------------------------------------
(* What Run.Events has told of a task: nothing before its first event, its *)
(* start and progress while it runs, its story once its last event is in.  *)
OnItsWay(t) == outbox # <<>> /\ Head(outbox).task = t

Untold(t) == Positions(t) = {}

Opened(t) ==
  \E first \in Positions(t) :
    /\ log[first].type = "started"
    /\ \A i \in Positions(t) \ {first} : first < i /\ log[i].type = "progress"

Ending(t) ==
  \/ Untold(t) /\ state[t] = "skipped" /\ outbox = <<Event("skipped", t)>>
  \/ /\ Untold(t) /\ state[t] = "failed" /\ t \in plan.builds
     /\ outbox = <<Event("failed", t)>>
  \/ Opened(t) /\ state[t] = "succeeded" /\ outbox = <<Event("completed", t)>>
  \/ Opened(t) /\ state[t] = "failed" /\ outbox = <<Event("failed", t)>>

TaskTold(t) ==
  /\ state[t] = "pending" => Untold(t) /\ ~OnItsWay(t)
  /\ (state[t] = "running" /\ proc[t] = "none") =>
       Untold(t) /\ outbox = <<Event("started", t)>>
  /\ (state[t] = "running" /\ proc[t] # "none") => Opened(t) /\ ~OnItsWay(t)
  /\ (state[t] \in Ended /\ OnItsWay(t)) => Ending(t)
  /\ (state[t] \in Ended /\ ~OnItsWay(t)) => StoryOf(t)

(* And of the run: its outcome, by the last event, when no task runs.      *)
Outcome == IF firstErr = NoErr THEN "final_output" ELSE "run_error"

RunTold ==
  IF pc \in {"closing", "closed"}
    THEN \/ /\ pc = "closing" /\ Untold(Root)
            /\ outbox = <<Event(Outcome, Root)>>
         \/ /\ outbox = <<>> /\ Positions(Root) = {Len(log)}
            /\ log[Len(log)].type = Outcome
    ELSE Untold(Root) /\ ~OnItsWay(Root)

TellingInv == ~callerDone => RunTold /\ \A t \in Tasks : TaskTold(t)

(* A plan that was refused has started nothing.                            *)
Refused == cause # BadPlan /\ (firstErr = BadPlan => ~ValidPlan(plan))

LEMMA RefusedStep ==
  ASSUME IInv, Refused, [Next]_vars
  PROVE  Refused'
<1>1. plan' = plan /\ (ValidPlan(plan)' <=> ValidPlan(plan))
  BY FailureKept
<1>2. pc \in Working => firstErr # BadPlan
  BY DEF Refused, IInv, LoopInv, Accepted
<1>3. UserCancel # BadPlan /\ CallerGone # BadPlan /\ NoRunnable # BadPlan
  BY DEF UserCancel, CallerGone, NoRunnable, BadPlan
<1>4. CASE Validate
  BY <1>1, <1>4 DEF Validate, Refused
<1>5. CASE LoopTop
  BY <1>1, <1>5 DEF LoopTop, FirstErr, Refused
<1>6. CASE FailFastCancel
  BY <1>1, <1>2, <1>6 DEF FailFastCancel, Refused, Working
<1>7. CASE IdleStuck
  BY <1>1, <1>3, <1>7 DEF IdleStuck, FirstErr, Refused
<1>8. CASE Cancel \/ CallerCancels
  BY <1>1, <1>3, <1>8 DEF Cancel, CallerCancels, Cancelled, Refused, loopVars
<1>9. ASSUME NEW t \in Tasks, BuildInputFails(t) PROVE Refused'
  BY <1>1, <1>9, TaskErrors DEF BuildInputFails, FirstErr, Refused
<1>10. CASE ReceiveError
  <2>1. Head(done).task \in Tasks
    BY <1>10, DoneHead DEF IInv, ProcInv, ReceiveError
  <2> QED
    BY <1>1, <1>10, <2>1, TaskErrors DEF ReceiveError, FirstErr, Refused
<1>11. ASSUME UNCHANGED <<firstErr, cause>> PROVE Refused'
  BY <1>1, <1>11 DEF Refused
<1> QED
  BY <1>4, <1>5, <1>6, <1>7, <1>8, <1>9, <1>10, <1>11 DEF Next, Loop,
     LoopExit, SkipTask, SkipEnd, Admit, AdmitEnd, IdleBreak, ReceiveSuccess,
     Finish, Close, EmitPut, EmitDrop, Emitted, RunTask, Produce, ProgressPut,
     ProgressDrop, AgentRunEnds, ReadEvent, Terminated, vars, loopVars

(* No task runs when the loop has ended.                                   *)
LEMMA NoneRuns ==
  ASSUME ErrorInv, Refused, pc \in {"finish", "closing", "closed"},
         NEW t \in Tasks
  PROVE  state[t] # "running"
<1>1. CASE completed = N
  BY <1>1, AllTasksEnded DEF ErrorInv, PromiseInv, Ended
<1>2. CASE firstErr = BadPlan
  BY <1>2 DEF Refused, ErrorInv, PromiseInv, IInv, LoopInv, Accepted
<1> QED  BY <1>1, <1>2 DEF ErrorInv, PromiseInv, AllEnded

(* What one more event makes of the stream.                                *)
Placed(t, e) ==
  /\ Len(log) \in Nat /\ Len(log') = Len(log) + 1 /\ log'[Len(log) + 1] = e
  /\ \A i \in Positions(t) : i \in 1 .. Len(log) /\ log'[i] = log[i]
  /\ Positions(t)' = IF e.task = t THEN Positions(t) \cup {Len(log) + 1}
                                   ELSE Positions(t)

LEMMA PutPlaces ==
  ASSUME TypeOK, NEW t, NEW e \in Events, log' = Append(log, e)
  PROVE  Placed(t, e)
<1>1. log \in Seq(Events) /\ Len(log) \in Nat
  BY DEF TypeOK
<1>2. /\ Len(log') = Len(log) + 1 /\ log'[Len(log) + 1] = e
      /\ \A i \in 1 .. Len(log) : log'[i] = log[i]
  BY <1>1, AppendProperties
<1>3. 1 .. Len(log') = 1 .. Len(log) \cup {Len(log) + 1}
  BY <1>1, <1>2
<1>4. Positions(t)' = IF e.task = t THEN Positions(t) \cup {Len(log) + 1}
                                    ELSE Positions(t)
  BY <1>2, <1>3 DEF Positions
<1> QED  BY <1>1, <1>2, <1>4 DEF Placed, Positions

LEMMA OtherPut ==
  ASSUME NEW t, NEW e, Placed(t, e), e.task # t
  PROVE  /\ Untold(t) => Untold(t)'
         /\ Opened(t) => Opened(t)'
         /\ (StoryOf(t) /\ state'[t] = state[t] /\ plan' = plan) => StoryOf(t)'
  BY DEF Placed, Untold, Opened, StoryOf

LEMMA StartedPut ==
  ASSUME NEW t, Untold(t), Placed(t, Event("started", t))
  PROVE  Opened(t)'
  BY DEF Placed, Untold, Opened, Event

LEMMA NextPut ==
  ASSUME NEW t, Opened(t), Placed(t, Event("progress", t))
  PROVE  Opened(t)'
  BY DEF Placed, Opened, Event

LEMMA LastPut ==
  ASSUME NEW t, NEW e, Ending(t), outbox = <<e>>, Placed(t, e),
         state'[t] = state[t], plan' = plan
  PROVE  StoryOf(t)'
<1>1. CASE Untold(t)
  <2>1. e = Event("skipped", t) \/ e = Event("failed", t)
    BY <1>1 DEF Ending, Untold, Opened
  <2>2. Positions(t)' = {Len(log) + 1} /\ log'[Len(log) + 1] = e
    BY <1>1, <2>1 DEF Placed, Untold, Event
  <2>3. \/ state[t] = "skipped" /\ e.type = "skipped"
        \/ state[t] = "failed" /\ t \in plan.builds /\ e.type = "failed"
    BY <1>1 DEF Ending, Event, Untold, Opened
  <2> QED  BY <2>2, <2>3 DEF StoryOf
<1>2. CASE Opened(t)
  <2>1. \/ state[t] = "succeeded" /\ e = Event("completed", t)
        \/ state[t] = "failed" /\ e = Event("failed", t)
    BY <1>2 DEF Ending, Untold, Opened
  <2>2. /\ Positions(t)' = Positions(t) \cup {Len(log) + 1}
        /\ log'[Len(log) + 1] = e
    BY <2>1 DEF Placed, Event
  <2>3. PICK first \in Positions(t) :
          /\ log[first].type = "started"
          /\ \A i \in Positions(t) \ {first} :
               first < i /\ log[i].type = "progress"
    BY <1>2 DEF Opened
  <2>4. \A i \in Positions(t) : i < Len(log) + 1 /\ log'[i] = log[i]
    BY DEF Placed
  <2> DEFINE last == Len(log) + 1
  <2>5. first \in Positions(t)' /\ last \in Positions(t)'
    BY <2>2
  <2>6. \A i \in Positions(t)' \ {first, last} :
          first < i /\ i < last /\ log'[i].type = "progress"
    BY <2>2, <2>3, <2>4
  <2>7. /\ first < last /\ log'[first].type = "started"
        /\ \/ state'[t] = "succeeded" /\ log'[last].type = "completed"
           \/ state'[t] = "failed" /\ log'[last].type = "failed"
    BY <2>1, <2>2, <2>3, <2>4 DEF Event
  <2> QED  BY <2>5, <2>6, <2>7 DEF StoryOf
<1> QED  BY <1>1, <1>2 DEF Ending

(* The event in the outbox is put.                                         *)
LEMMA OutboxPut ==
  ASSUME TypeOK, EmitPut
  PROVE  \E e \in Events :
           /\ outbox = <<e>> /\ outbox' = <<>> /\ Head(outbox) = e
           /\ log' = Append(log, e)
           /\ proc' = IF e.type = "started" THEN [proc EXCEPT ![e.task] = "run"]
                                            ELSE proc
           /\ UNCHANGED <<plan, pc, state, firstErr>>
<1>1. PICK e \in Events : outbox = <<e>>
  BY DEF TypeOK, EmitPut, Emitted
<1>2. Head(outbox) = e
  BY <1>1
<1> QED  BY <1>1, <1>2 DEF EmitPut, Emitted, Put, loopVars

(* What was told of a task stays true ...                                  *)
LEMMA TaskKept ==
  ASSUME NEW t \in Tasks, TaskTold(t), UNCHANGED <<log, plan>>,
         state'[t] = state[t], proc'[t] = "none" <=> proc[t] = "none",
         \/ outbox' = outbox
         \/ /\ outbox = <<>>
            /\ \E e \in Events : outbox' = <<e>> /\ e.task # t
  PROVE  TaskTold(t)'
<1>1. /\ Untold(t)' = Untold(t) /\ Opened(t)' = Opened(t)
      /\ StoryOf(t)' = StoryOf(t)
  BY DEF Untold, Opened, StoryOf, Positions
<1>2. CASE outbox' = outbox
  <2>1. OnItsWay(t)' = OnItsWay(t) /\ Ending(t)' = Ending(t)
    BY <1>1, <1>2 DEF OnItsWay, Ending
  <2> QED  BY <1>1, <1>2, <2>1 DEF TaskTold
<1>3. CASE outbox = <<>> /\ \E e \in Events : outbox' = <<e>> /\ e.task # t
  <2>1. ~OnItsWay(t) /\ ~OnItsWay(t)'
    BY <1>3 DEF OnItsWay
  <2>2. outbox # <<Event("started", t)>>
    BY <1>3
  <2> QED  BY <1>1, <2>1, <2>2 DEF TaskTold
<1> QED  BY <1>2, <1>3

(* ... when another event is put, too ...                                  *)
LEMMA TaskOtherPut ==
  ASSUME NEW t \in Tasks, TaskTold(t), NEW e \in Events, Placed(t, e),
         e.task # t, state'[t] = state[t], proc'[t] = proc[t], plan' = plan,
         outbox' = outbox \/ (outbox = <<e>> /\ outbox' = <<>>)
  PROVE  TaskTold(t)'
<1>1. /\ Untold(t) => Untold(t)'
      /\ Opened(t) => Opened(t)'
      /\ StoryOf(t) => StoryOf(t)'
  BY OtherPut
<1>2. CASE outbox' = outbox
  <2>1. OnItsWay(t)' = OnItsWay(t) /\ (Ending(t) => Ending(t)')
    BY <1>1, <1>2 DEF OnItsWay, Ending
  <2> QED  BY <1>1, <1>2, <2>1 DEF TaskTold
<1>3. CASE outbox = <<e>> /\ outbox' = <<>>
  <2>1. ~OnItsWay(t) /\ ~OnItsWay(t)'
    BY <1>3 DEF OnItsWay
  <2>2. outbox # <<Event("started", t)>>
    BY <1>3 DEF Event
  <2> QED  BY <1>1, <2>1, <2>2 DEF TaskTold
<1> QED  BY <1>2, <1>3

(* ... and its own event is what its state calls for.                      *)
LEMMA TaskOwnPut ==
  ASSUME TypeOK, NEW t \in Tasks, TaskTold(t), NEW e \in Events, Placed(t, e),
         e.task = t, outbox = <<e>>, outbox' = <<>>, UNCHANGED <<plan, state>>,
         proc' = IF e.type = "started" THEN [proc EXCEPT ![e.task] = "run"]
                                       ELSE proc
  PROVE  TaskTold(t)'
<1>1. OnItsWay(t) /\ ~OnItsWay(t)'
  BY DEF OnItsWay
<1>2. state[t] \in States /\ proc \in [Tasks -> {"none", "run", "emit", "ended"}]
  BY DEF TypeOK
<1>3. CASE state[t] = "running"
  <2>1. Untold(t) /\ e = Event("started", t)
    BY <1>1, <1>3 DEF TaskTold
  <2>2. Opened(t)'
    BY <2>1, StartedPut
  <2>3. proc'[t] = "run"
    BY <1>2, <2>1 DEF Event
  <2> QED  BY <1>1, <1>3, <2>2, <2>3 DEF TaskTold, Ended
<1>4. CASE state[t] \in Ended
  <2>1. StoryOf(t)'
    BY <1>1, <1>4, LastPut DEF TaskTold
  <2> QED  BY <1>1, <1>4, <2>1 DEF TaskTold, Ended
<1>5. state[t] # "pending"
  BY <1>1 DEF TaskTold
<1> QED  BY <1>2, <1>3, <1>4, <1>5 DEF States, Ended

LEMMA TaskToldStep ==
  ASSUME IInv, NEW t \in Tasks, TaskTold(t), [Next]_vars, ~callerDone'
  PROVE  TaskTold(t)'
<1>1. TypeOK /\ ProcsRun /\ DoneEntries /\ state \in [Tasks -> States]
      /\ proc \in [Tasks -> {"none", "run", "emit", "ended"}]
  BY DEF IInv, ProcInv, TypeOK
<1>2. CASE EmitPut
  <2>1. PICK e \in Events :
          /\ outbox = <<e>> /\ outbox' = <<>>
          /\ log' = Append(log, e)
          /\ proc' = IF e.type = "started" THEN [proc EXCEPT ![e.task] = "run"]
                                           ELSE proc
          /\ UNCHANGED <<plan, state>>
    BY <1>1, <1>2, OutboxPut
  <2>2. Placed(t, e)
    BY <1>1, <2>1, PutPlaces
  <2>3. CASE e.task = t
    BY <1>1, <2>1, <2>2, <2>3, TaskOwnPut
  <2>4. CASE e.task # t
    <3>1. proc'[t] = proc[t]
      BY <1>1, <2>1, <2>4
    <3> QED  BY <2>1, <2>2, <2>4, <3>1, TaskOtherPut
  <2> QED  BY <2>3, <2>4
<1>3. ASSUME NEW u \in Tasks, ProgressPut(u) PROVE TaskTold(t)'
  <2> DEFINE e == Event("progress", u)
  <2>1. e \in Events /\ e.task = u
    BY DEF Event, Events, EventTypes
  <2>2. /\ log' = Append(log, e) /\ UNCHANGED <<plan, state, outbox>>
        /\ proc[u] = "emit" /\ proc' = [proc EXCEPT ![u] = "run"]
    BY <1>3 DEF ProgressPut, Put, Proc, loopVars
  <2>3. Placed(t, e)
    BY <1>1, <2>1, <2>2, PutPlaces
  <2>4. CASE u = t
    <3>1. state[t] = "running" /\ proc[t] # "none"
      BY <1>1, <2>2, <2>4 DEF ProcsRun
    <3>2. Opened(t)' /\ ~OnItsWay(t)
      BY <2>3, <2>4, <3>1, NextPut DEF TaskTold
    <3>3. ~OnItsWay(t)' /\ state'[t] = "running" /\ proc'[t] # "none"
      BY <1>1, <2>2, <2>4, <3>1, <3>2 DEF OnItsWay
    <3> QED  BY <3>2, <3>3 DEF TaskTold, Ended
  <2>5. CASE u # t
    <3>1. proc'[t] = proc[t]
      BY <1>1, <2>2, <2>5
    <3> QED  BY <2>1, <2>2, <2>3, <2>5, <3>1, TaskOtherPut
  <2> QED  BY <2>4, <2>5
<1>4. ASSUME NEW u \in Tasks, Produce(u) \/ AgentRunEnds(u) PROVE TaskTold(t)'
  <2>1. /\ UNCHANGED <<log, plan, state, outbox>> /\ proc[u] = "run"
        /\ proc' = [proc EXCEPT ![u] = "emit"] \/ proc' = [proc EXCEPT ![u] = "ended"]
    BY <1>4 DEF Produce, AgentRunEnds, Proc, loopVars
  <2>2. proc'[t] = "none" <=> proc[t] = "none"
    BY <1>1, <2>1
  <2> QED  BY <2>1, <2>2, TaskKept
<1>5. ASSUME NEW u \in Tasks, NEW type \in EventTypes,
             outbox = <<>>, outbox' = <<Event(type, u)>>,
             UNCHANGED <<log, plan, proc>>,
             \E s \in States : state' = [state EXCEPT ![u] = s],
             u = t => /\ state'[t] \in Ended => Ending(t)'
                      /\ state'[t] = "running" =>
                           type = "started" /\ state[t] = "pending" /\ proc[t] = "none"
                      /\ state'[t] # "pending"
      PROVE  TaskTold(t)'
  <2>1. CASE u = t
    <3>1. OnItsWay(t)'
      BY <1>5, <2>1 DEF OnItsWay, Event
    <3>2. Untold(t)' = Untold(t)
      BY <1>5 DEF Untold, Positions
    <3> QED  BY <1>5, <2>1, <3>1, <3>2 DEF TaskTold, Ended
  <2>2. CASE u # t
    <3>1. Event(type, u) \in Events /\ Event(type, u).task # t
      BY <2>2 DEF Event, Events
    <3>2. state'[t] = state[t]
      BY <1>1, <1>5, <2>2
    <3> QED  BY <1>5, <3>1, <3>2, TaskKept
  <2> QED  BY <2>1, <2>2
<1>6. ASSUME UNCHANGED <<log, plan, state, proc, outbox>>
      PROVE  TaskTold(t)'
  BY <1>6, TaskKept
<1>7. ASSUME NEW u \in Tasks, Admit(u) PROVE TaskTold(t)'
  <2>1. /\ outbox = <<>> /\ outbox' = <<Event("started", u)>>
        /\ UNCHANGED <<log, plan, proc>> /\ state[u] = "pending"
        /\ state' = [state EXCEPT ![u] = "running"]
    BY <1>7 DEF Admit, At, SendEvent, NextAdmissible, Admissible
  <2>2. proc[u] = "none" /\ state'[u] = "running"
    BY <1>1, <2>1 DEF ProcsRun
  <2>3. "started" \in EventTypes /\ "running" \in States /\ "running" \notin Ended
    BY DEF EventTypes, States, Ended
  <2> QED  BY <1>5, <2>1, <2>2, <2>3
<1>8. ASSUME NEW u \in Tasks, SkipTask(u) \/ BuildInputFails(u) PROVE TaskTold(t)'
  <2>1. PICK s \in {"skipped", "failed"} :
          /\ outbox = <<>> /\ outbox' = <<Event(s, u)>>
          /\ UNCHANGED <<log, plan, proc>> /\ state[u] = "pending"
          /\ state' = [state EXCEPT ![u] = s]
          /\ s = "failed" => u \in plan.builds
    BY <1>8 DEF SkipTask, BuildInputFails, At, SendEvent, NextSkippable, Skippable,
       NextAdmissible, Admissible
  <2>2. state'[u] = s
    BY <1>1, <2>1
  <2>3. s \in EventTypes /\ s \in States
    BY DEF EventTypes, States
  <2>4. ASSUME u = t PROVE Ending(t)'
    <3>1. Untold(t)'
      BY <2>1, <2>4 DEF TaskTold, Untold, Positions
    <3> QED  BY <2>1, <2>2, <2>4, <3>1 DEF Ending
  <2> QED  BY <1>5, <2>1, <2>2, <2>3, <2>4
<1>9. ASSUME ReceiveError \/ ReceiveSuccess PROVE TaskTold(t)'
  <2>1. PICK u \in Tasks : u = Head(done).task
    BY <1>1, <1>9, DoneHead DEF ReceiveError, ReceiveSuccess
  <2>2. state[u] = "running" /\ proc[u] = "ended"
    BY <1>1, <1>9, <2>1, DoneHead DEF ReceiveError, ReceiveSuccess
  <2>3. PICK type \in {"completed", "failed"} :
          /\ outbox = <<>> /\ outbox' = <<Event(type, u)>>
          /\ UNCHANGED <<log, plan, proc>>
          /\ state' = [state EXCEPT ![u] = IF type = "failed" THEN "failed"
                                                             ELSE "succeeded"]
    BY <1>9, <2>1 DEF ReceiveError, ReceiveSuccess, At, SendEvent
  <2> DEFINE s == IF type = "failed" THEN "failed" ELSE "succeeded"
  <2>4. state'[u] = s
    BY <1>1, <2>3
  <2>5. type \in EventTypes /\ s \in States
    BY DEF EventTypes, States
  <2>6. ASSUME u = t PROVE Ending(t)'
    <3>1. Opened(t)'
      BY <2>2, <2>3, <2>6 DEF TaskTold, Opened, Positions
    <3>2. CASE type = "failed"
      <4>1. state'[t] = "failed" /\ outbox' = <<Event("failed", t)>>
        BY <2>3, <2>4, <2>6, <3>2
      <4> QED  BY <3>1, <4>1 DEF Ending
    <3>3. CASE type = "completed"
      <4>1. state'[t] = "succeeded" /\ outbox' = <<Event("completed", t)>>
        BY <2>3, <2>4, <2>6, <3>3
      <4> QED  BY <3>1, <4>1 DEF Ending
    <3> QED  BY <3>2, <3>3
  <2>7. \E x \in States : state' = [state EXCEPT ![u] = x]
    BY <2>3, <2>5
  <2>8. state'[u] # "running" /\ state'[u] # "pending"
    BY <2>4
  <2> HIDE DEF s
  <2> QED  BY <1>5, <2>3, <2>5, <2>6, <2>7, <2>8
<1>10. CASE Finish
  <2>1. PICK type \in {"run_error", "final_output"} :
          /\ outbox = <<>> /\ outbox' = <<Event(type, Root)>>
          /\ UNCHANGED <<log, plan, proc, state>>
    BY <1>10 DEF Finish, At, SendEvent, loopVars
  <2>2. Event(type, Root) \in Events /\ Event(type, Root).task # t
    BY PlanAssumption DEF Event, Events, EventTypes, Root, Tasks
  <2> QED  BY <2>1, <2>2, TaskKept
<1>11. ~EmitDrop /\ \A u \in Tasks : ~ProgressDrop(u)
  BY DEF EmitDrop, Emitted, ProgressDrop
<1>12. ASSUME \/ Validate \/ LoopTop \/ LoopExit \/ SkipEnd \/ AdmitEnd
              \/ FailFastCancel \/ IdleBreak \/ IdleStuck \/ Close
              \/ Cancel \/ CallerCancels \/ ReadEvent \/ Terminated
              \/ UNCHANGED vars
       PROVE  TaskTold(t)'
  BY <1>6, <1>12 DEF Validate, LoopTop, LoopExit, SkipEnd, AdmitEnd,
     FailFastCancel, IdleBreak, IdleStuck, Close, Cancel, CallerCancels,
     ReadEvent, Terminated, vars, loopVars
<1> QED
  BY <1>2, <1>3, <1>4, <1>7, <1>8, <1>9, <1>10, <1>11, <1>12
  DEF Next, Loop, RunTask

(* The run's own event comes last, and agrees with its outcome.            *)
LEMMA RunToldStep ==
  ASSUME ErrorInv, Refused, RunTold, [Next]_vars, ~callerDone'
  PROVE  RunTold'
<1>1. IInv /\ TypeOK /\ ProcsRun
  BY DEF ErrorInv, PromiseInv, IInv, ProcInv
<1>2. Root \notin Tasks
  BY PlanAssumption DEF Root, Tasks
<1>3. CASE EmitPut
  <2>1. PICK e \in Events :
          /\ outbox = <<e>> /\ outbox' = <<>> /\ Head(outbox) = e
          /\ log' = Append(log, e)
          /\ UNCHANGED <<pc, firstErr>>
    BY <1>1, <1>3, OutboxPut
  <2>2. Placed(Root, e) /\ Outcome' = Outcome
    BY <1>1, <2>1, PutPlaces DEF Outcome
  <2>3. CASE pc \in {"closing", "closed"}
    <3>1. pc = "closing" /\ Untold(Root) /\ e = Event(Outcome, Root)
      BY <2>1, <2>3 DEF RunTold
    <3>2. Positions(Root)' = {Len(log')} /\ log'[Len(log')].type = Outcome
      BY <2>2, <3>1 DEF Placed, Untold, Event
    <3> QED  BY <2>1, <2>2, <3>1, <3>2 DEF RunTold
  <2>4. CASE pc \notin {"closing", "closed"}
    <3>1. Untold(Root) /\ e.task # Root
      BY <2>1, <2>4 DEF RunTold, OnItsWay
    <3>2. Untold(Root)'
      BY <2>2, <3>1, OtherPut
    <3> QED  BY <2>1, <2>4, <3>2 DEF RunTold, OnItsWay
  <2> QED  BY <2>3, <2>4
<1>4. ASSUME NEW u \in Tasks, ProgressPut(u) PROVE RunTold'
  <2> DEFINE e == Event("progress", u)
  <2>1. e \in Events /\ e.task # Root
    BY <1>2 DEF Event, Events, EventTypes
  <2>2. log' = Append(log, e) /\ UNCHANGED <<pc, outbox>> /\ proc[u] = "emit"
    BY <1>4 DEF ProgressPut, Put, Proc
  <2>3. pc \notin {"closing", "closed"}
    BY <1>1, <2>2, NoneRuns DEF ProcsRun
  <2>4. Placed(Root, e)
    BY <1>1, <2>1, <2>2, PutPlaces
  <2>5. Untold(Root)'
    BY <2>1, <2>3, <2>4, OtherPut DEF RunTold
  <2> QED  BY <2>2, <2>3, <2>5 DEF RunTold, OnItsWay
<1>5. CASE Finish
  <2>1. /\ pc = "finish" /\ pc' = "closing" /\ UNCHANGED <<log, firstErr>>
        /\ outbox' = <<Event(Outcome, Root)>>
    BY <1>5 DEF Finish, At, Goto, SendEvent, Outcome, loopVars
  <2>2. Untold(Root)' /\ Outcome' = Outcome
    BY <2>1 DEF RunTold, Untold, Positions, Outcome
  <2> QED  BY <2>1, <2>2 DEF RunTold
<1>6. CASE Close
  <2>1. /\ pc = "closing" /\ pc' = "closed" /\ outbox = <<>> /\ outbox' = outbox
        /\ UNCHANGED <<log, firstErr>>
    BY <1>6 DEF Close, At, Goto, loopVars
  <2> QED  BY <2>1 DEF RunTold, Positions, Outcome
<1>7. ASSUME pc \notin {"closing", "closed"}, pc' \notin {"closing", "closed"},
             log' = log,
             \/ outbox' = outbox
             \/ \E type, u : u \in Tasks /\ outbox' = <<Event(type, u)>>
      PROVE  RunTold'
  <2>1. Untold(Root) /\ ~OnItsWay(Root)
    BY <1>7 DEF RunTold
  <2>2. Untold(Root)'
    BY <1>7, <2>1 DEF Untold, Positions
  <2>3. ~OnItsWay(Root)'
    BY <1>2, <1>7, <2>1 DEF OnItsWay, Event
  <2> QED  BY <1>7, <2>2, <2>3 DEF RunTold
<1>8. ASSUME NEW u \in Tasks, SkipTask(u) \/ Admit(u) \/ BuildInputFails(u)
      PROVE  RunTold'
  BY <1>7, <1>8 DEF SkipTask, Admit, BuildInputFails, At, Goto, SendEvent
<1>9. ASSUME ReceiveError \/ ReceiveSuccess PROVE RunTold'
  <2>1. Head(done).task \in Tasks
    BY <1>1, <1>9, DoneHead DEF IInv, ProcInv, ReceiveError, ReceiveSuccess
  <2> QED
    BY <1>7, <1>9, <2>1 DEF ReceiveError, ReceiveSuccess, At, Goto, SendEvent
<1>10. ASSUME \/ Validate \/ LoopTop \/ LoopExit \/ SkipEnd \/ AdmitEnd
              \/ FailFastCancel \/ IdleBreak \/ IdleStuck
       PROVE  RunTold'
  BY <1>7, <1>10 DEF Validate, LoopTop, LoopExit, SkipEnd, AdmitEnd,
     FailFastCancel, IdleBreak, IdleStuck, At, Goto
<1>11. ASSUME \/ Cancel \/ CallerCancels \/ ReadEvent \/ Terminated \/ UNCHANGED vars
              \/ \E u \in Tasks : Produce(u) \/ AgentRunEnds(u)
       PROVE  RunTold'
  <2>1. UNCHANGED <<pc, log, outbox, firstErr>>
    BY <1>11 DEF Cancel, CallerCancels, ReadEvent, Terminated, Produce,
       AgentRunEnds, vars, loopVars
  <2> QED  BY <2>1 DEF RunTold, Untold, OnItsWay, Positions, Outcome
<1>12. ~EmitDrop /\ \A u \in Tasks : ~ProgressDrop(u)
  BY DEF EmitDrop, Emitted, ProgressDrop
<1> QED
  BY <1>3, <1>4, <1>5, <1>6, <1>8, <1>9, <1>10, <1>11, <1>12
  DEF Next, Loop, RunTask

(* When the caller's context is alive at the end, Run.Events has carried   *)
(* each task's story, in order, and then the one terminal event of the     *)
(* run, which agrees with the error Run.Result returns: execute and        *)
(* runTask in src/workflow/workflow.go.                                    *)
THEOREM EventsTellTheRunHolds == Spec => []EventsTellTheRun
<1>1. Init => Refused /\ TellingInv
  <2> SUFFICES ASSUME Init PROVE Refused /\ TellingInv
    OBVIOUS
  <2>1. Refused
    BY DEF Init, Refused, NoErr, BadPlan
  <2>2. log = <<>> /\ outbox = <<>> /\ pc = "start"
        /\ \A t \in Tasks : state[t] = "pending"
    BY DEF Init
  <2>3. \A t : Untold(t) /\ ~OnItsWay(t)
    BY <2>2 DEF Untold, Positions, OnItsWay
  <2> QED  BY <2>1, <2>2, <2>3 DEF TellingInv, RunTold, TaskTold, Ended
<1>2. ErrorInv /\ Refused /\ TellingInv /\ [Next]_vars => Refused' /\ TellingInv'
  <2> SUFFICES ASSUME ErrorInv, Refused, TellingInv, [Next]_vars
               PROVE  Refused' /\ TellingInv'
    OBVIOUS
  <2>1. IInv
    BY DEF ErrorInv, PromiseInv
  <2>2. ASSUME ~callerDone' PROVE ~callerDone
    BY <2>2 DEF Next, Loop, Validate, LoopTop, LoopExit, SkipTask, SkipEnd,
       Admit, BuildInputFails, AdmitEnd, FailFastCancel, IdleBreak, IdleStuck,
       ReceiveError, ReceiveSuccess, Finish, Close, EmitPut, EmitDrop, Emitted,
       RunTask, Produce, ProgressPut, ProgressDrop, AgentRunEnds, Cancel,
       CallerCancels, ReadEvent, Terminated, vars
  <2>3. TellingInv'
    BY <2>1, <2>2, RunToldStep, TaskToldStep DEF TellingInv
  <2> QED  BY <2>1, <2>3, RefusedStep
<1>3. ErrorInv /\ TellingInv => EventsTellTheRun
  <2> SUFFICES ASSUME ErrorInv, TellingInv, pc = "closed", ~callerDone
               PROVE  /\ firstErr # BadPlan => \A t \in Tasks : StoryOf(t)
                      /\ Positions(Root) = {Len(log)}
                      /\ log[Len(log)].type = Outcome
    BY DEF EventsTellTheRun, Outcome
  <2>1. outbox = <<>> /\ Positions(Root) = {Len(log)} /\ log[Len(log)].type = Outcome
    BY DEF TellingInv, RunTold
  <2>2. ASSUME firstErr # BadPlan, NEW t \in Tasks PROVE StoryOf(t)
    <3>1. state[t] \in Ended
      BY <2>2, AllTasksEnded DEF ErrorInv, PromiseInv, AllEnded
    <3> QED  BY <2>1, <3>1 DEF TellingInv, TaskTold, OnItsWay
  <2> QED  BY <2>1, <2>2
<1> QED  BY <1>1, <1>2, <1>3, ErrorInvariant, PTL DEF Spec

-----------------------------------------------------------------------------
(* TaskGraph reads plans as Workflow does.                                 *)
LEMMA SamePlans ==
  /\ Promised!Tasks = Tasks
  /\ \A p : Promised!ValidPlan(p) <=> ValidPlan(p)
  /\ \A p : Promised!Limit(p) = Limit(p)
  /\ \A t : Promised!Doomed(t) <=> Doomed(t)
  /\ \A S : Promised!Cardinality(S) = Cardinality(S)
<1>1. Promised!Tasks = Tasks
  BY DEF Promised!Tasks, Tasks
<1>2. ASSUME NEW p, NEW t, NEW u
      PROVE  Promised!DependsOn(p, t, u) <=> DependsOn(p, t, u)
  BY <1>1 DEF Promised!DependsOn, DependsOn
<1>3. ASSUME NEW p PROVE Promised!ValidPlan(p) <=> ValidPlan(p)
  <2>1. Promised!KnownDependencies(p) <=> KnownDependencies(p)
    BY <1>1 DEF Promised!KnownDependencies, KnownDependencies
  <2>2. Promised!Acyclic(p) <=> Acyclic(p)
    BY <1>1 DEF Promised!Acyclic, Acyclic
  <2>3. Promised!SessionsOrdered(p) <=> SessionsOrdered(p)
    BY <1>1, <1>2 DEF Promised!SessionsOrdered, SessionsOrdered
  <2> QED  BY <2>1, <2>2, <2>3 DEF Promised!ValidPlan, ValidPlan
<1>4. ASSUME NEW p PROVE Promised!Limit(p) = Limit(p)
  BY DEF Promised!Limit, Limit
<1>5. ASSUME NEW t PROVE Promised!Doomed(t) <=> Doomed(t)
  BY <1>1, <1>2 DEF Promised!Doomed, Doomed
<1>6. ASSUME NEW S PROVE Promised!Cardinality(S) = Cardinality(S)
  BY DEF Promised!Cardinality, Cardinality
<1> QED  BY <1>1, <1>3, <1>4, <1>5, <1>6

(* Every step of a run is a step TaskGraph allows, or leaves the states of *)
(* the tasks alone: a plan's tasks start, fail, end and are skipped only   *)
(* as promised.                                                            *)
THEOREM KeepsPromisesHolds == Spec => KeepsPromises
<1> USE DEF Promised!gvars
<1>1. Init => Promised!GInit
  <2>1. SUFFICES ASSUME Init PROVE Promised!GInit
    OBVIOUS
  <2>2. plan \in Plans /\ state = [t \in Tasks |-> "pending"]
    BY <2>1 DEF Init
  <2>3. (cause # NoErr) = FALSE
    BY <2>1 DEF Init
  <2> QED  BY <2>2, <2>3, SamePlans DEF Promised!GInit
<1>2. ASSUME PromiseInv, [Next]_vars
      PROVE  [Promised!GNext]_<<plan, state, cause # NoErr>>
  <2>1. TypeOK /\ DoneEntries /\ IInv
    BY <1>2 DEF PromiseInv, IInv, ProcInv
  <2>2. ASSUME NEW t \in Tasks, Admit(t) PROVE Promised!Start(t)
    <3>1. NextAdmissible(t) /\ pc \in Working
      BY <2>2 DEF Admit, At, Working
    <3>2. /\ ValidPlan(plan) /\ state[t] = "pending"
          /\ \A d \in plan.deps[t] : state[d] = "succeeded"
      BY <2>1, <3>1, AcceptedDeps
      DEF NextAdmissible, Admissible, DependenciesSucceeded
    <3>3. Cardinality(Running) < Limit(plan)
      BY <2>1, <3>1 DEF NextAdmissible, Admissible, IInv, LoopInv, Counted
    <3>4. \A u \in Running : plan.session[t] # NoSession =>
                                plan.session[u] # plan.session[t]
      <4>1. plan.session[t] \in Sessions \cup {NoSession}
        BY <2>1, <2>2 DEF TypeOK, PlanType
      <4>2. plan.session[t] \notin activeSessions
        BY <3>1 DEF NextAdmissible, Admissible
      <4> QED  BY <2>1, <4>1, <4>2 DEF IInv, LoopInv, SessionsHeld
    <3>5. /\ state' = [state EXCEPT ![t] = "running"]
          /\ UNCHANGED <<plan, cause>>
      BY <2>2 DEF Admit
    <3> QED  BY <3>2, <3>3, <3>4, <3>5, SamePlans
             DEF Promised!Start, Promised!Ready, Promised!Set,
                 Promised!RunningTasks, Running
  <2>3. ASSUME NEW t \in Tasks, BuildInputFails(t) PROVE Promised!FailInput(t)
    <3>1. NextAdmissible(t) /\ pc \in Working
      BY <2>3 DEF BuildInputFails, At, Working
    <3>2. /\ ValidPlan(plan) /\ state[t] = "pending"
          /\ \A d \in plan.deps[t] : state[d] = "succeeded"
      BY <2>1, <3>1, AcceptedDeps
      DEF NextAdmissible, Admissible, DependenciesSucceeded
    <3>3. /\ t \in plan.builds /\ state' = [state EXCEPT ![t] = "failed"]
          /\ UNCHANGED <<plan, cause>>
      BY <2>3 DEF BuildInputFails
    <3> QED  BY <3>2, <3>3, SamePlans
             DEF Promised!FailInput, Promised!Ready, Promised!Set
  <2>4. ASSUME NEW t \in Tasks, SkipTask(t) PROVE Promised!Skip(t)
    <3>1. cause # NoErr \/ Doomed(t)
      BY <1>2, <2>4, SkippedIsDoomed
    <3>2. /\ state[t] = "pending" /\ state' = [state EXCEPT ![t] = "skipped"]
          /\ UNCHANGED <<plan, cause>>
      BY <2>4 DEF SkipTask, NextSkippable, Skippable
    <3> QED  BY <3>1, <3>2, SamePlans DEF Promised!Skip, Promised!Set
  <2>5. ASSUME ReceiveError \/ ReceiveSuccess
        PROVE  \E t \in Tasks : Promised!End(t)
    <3>1. Head(done).task \in Tasks /\ state[Head(done).task] = "running"
      BY <2>1, <2>5, DoneHead DEF ReceiveError, ReceiveSuccess
    <3>2. Promised!End(Head(done).task)
      BY <2>5, <3>1 DEF ReceiveError, ReceiveSuccess, Promised!End,
         Promised!Set
    <3> QED  BY <3>1, <3>2
  <2>6. ASSUME FailFastCancel \/ Cancel \/ CallerCancels
        PROVE  Promised!Stop \/ UNCHANGED <<plan, state, cause # NoErr>>
    <3>1. UNCHANGED <<plan, state>> /\ (cause # NoErr => cause' # NoErr)
      BY <2>6 DEF FailFastCancel, Cancel, CallerCancels, Cancelled, loopVars
    <3>2. CASE cause' # NoErr
      BY <3>1, <3>2 DEF Promised!Stop
    <3>3. CASE cause' = NoErr
      BY <3>1, <3>3
    <3> QED  BY <3>2, <3>3
  <2>7. ASSUME Validate \/ LoopTop \/ LoopExit \/ SkipEnd \/ AdmitEnd
               \/ IdleBreak \/ IdleStuck \/ Finish \/ Close
               \/ EmitPut \/ EmitDrop \/ ReadEvent \/ Terminated
               \/ UNCHANGED vars \/ \E t \in Tasks : RunTask(t)
        PROVE  UNCHANGED <<plan, state, cause # NoErr>>
    <3>1. UNCHANGED <<plan, state, cause>>
      BY <2>7 DEF Validate, LoopTop, LoopExit, SkipEnd, AdmitEnd, IdleBreak,
         IdleStuck, Finish, Close, EmitPut, EmitDrop, Emitted, ReadEvent,
         Terminated, RunTask, Produce, ProgressPut, ProgressDrop,
         AgentRunEnds, vars, loopVars
    <3> QED  BY <3>1
  <2>8. CASE \E t \in Tasks : \/ Promised!Start(t) \/ Promised!End(t)
                             \/ Promised!FailInput(t) \/ Promised!Skip(t)
    BY <2>8 DEF Promised!GNext, Promised!Tasks, Tasks
  <2> QED
    BY <1>2, <2>2, <2>3, <2>4, <2>5, <2>6, <2>7, <2>8
    DEF Next, Loop, Promised!GNext
<1> QED
  BY <1>1, <1>2, PromiseInvariant, PTL DEF Spec, KeepsPromises, Promised!GSpec

=============================================================================
