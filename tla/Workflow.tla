------------------------------ MODULE Workflow ------------------------------
(***************************************************************************)
(* The workflow runner (src/workflow/workflow.go).  One goroutine runs the *)
(* scheduling loop of execute; every admitted task has a goroutine in      *)
(* runTask, which forwards the events of its agent run and then reports on *)
(* the channel done; the caller reads Run.Events, may call Run.Cancel and  *)
(* may cancel the context it started the run with.                         *)
(*                                                                         *)
(* The agent run of a task is external here: it produces up to MaxProgress *)
(* operational events and ends, with or without an error, whether or not   *)
(* its context is cancelled.                                               *)
(***************************************************************************)
EXTENDS WorkflowPlan, Sequences, FiniteSets

CONSTANTS
  Plans,        \* the plans callers submit
  EventCap,     \* capacity of Run.Events (256 in the code)
  MaxProgress   \* bound: operational events one task forwards

ASSUME WorkflowAssumption ==
  /\ Plans \subseteq PlanType
  /\ EventCap \in Nat \ {0}
  /\ MaxProgress \in Nat

(* Errors.  A positive number is the error of that task's agent run or of  *)
(* its BuildInput.                                                         *)
NoErr       == 0
BadPlan     == -1
NoRunnable  == -2
UserCancel  == -3       \* the cause given to Run.Cancel
CallerGone  == -4       \* the caller's context was cancelled
Errors == Tasks \cup {NoErr, BadPlan, NoRunnable, UserCancel, CallerGone}

VARIABLES
  plan,            \* the plan, never modified
  pc,              \* where the scheduling loop is
  at,              \* the position its inner loop has reached in p.Tasks
  state,           \* taskState by task
  resErr,          \* results[t].Err, NoErr while there is none
  firstErr,
  failFast,
  active, completed, activeSessions,
  done,            \* the channel done
  cause,           \* context.Cause(taskCtx)
  callerDone,      \* emitCtx is cancelled
  outbox,          \* the event the loop is sending, empty or one event
  proc,            \* the goroutine of each task
  sent,            \* operational events each task has produced
  log,             \* every event put into Run.Events, in order
  unread           \* how many of them the caller has not read yet

loopVars == <<at, state, resErr, firstErr, failFast, active, completed,
              activeSessions>>
vars == <<plan, pc, at, state, resErr, firstErr, failFast, active, completed,
          activeSessions, done, cause, callerDone, outbox, proc, sent, log,
          unread>>

States == {"pending", "running", "succeeded", "failed", "skipped"}
Ended  == {"succeeded", "failed", "skipped"}

Locations == {"start", "top", "skip", "admit", "cancel_admit", "wait",
              "cancel_top", "finish", "closing", "closed"}

EventTypes == {"started", "progress", "completed", "failed", "skipped",
               "run_error", "final_output"}
Event(type, t) == [type |-> type, task |-> t]
Root == 0               \* the task field of the run's own events
Events == [type : EventTypes, task : Tasks \cup {Root}]
Terminal == {"run_error", "final_output"}

Init ==
  /\ plan \in Plans
  /\ pc = "start"
  /\ at = 1
  /\ state = [t \in Tasks |-> "pending"]
  /\ resErr = [t \in Tasks |-> NoErr]
  /\ firstErr = NoErr
  /\ failFast = FALSE
  /\ active = 0
  /\ completed = 0
  /\ activeSessions = {}
  /\ done = <<>>
  /\ cause = NoErr
  /\ callerDone = FALSE
  /\ outbox = <<>>
  /\ proc = [t \in Tasks |-> "none"]
  /\ sent = [t \in Tasks |-> 0]
  /\ log = <<>>
  /\ unread = 0

-----------------------------------------------------------------------------
(* Helpers of the loop.                                                    *)

(* The loop stands at l, with no event left to send.                       *)
At(l) == pc = l /\ outbox = <<>>
Goto(l) == pc' = l
SendEvent(type, t) == outbox' = <<Event(type, t)>>

(* Variant: an error is recorded only once the run is failing fast.        *)
FirstErrLate(e) ==
  firstErr' = IF failFast /\ firstErr = NoErr THEN e ELSE firstErr

FirstErr(e) == firstErr' = IF firstErr = NoErr THEN e ELSE firstErr

(* Variant: a dependency only has to have been started.                    *)
DependenciesStarted(t) == \A d \in plan.deps[t] : state[d] # "pending"

DependenciesSucceeded(t) == \A d \in plan.deps[t] : state[d] = "succeeded"

(* Variant: a dependency that has not succeeded yet counts as failed.      *)
HasUnmetDependency(t) == \E d \in plan.deps[t] : state[d] # "succeeded"

HasFailedDependency(t) ==
  \E d \in plan.deps[t] : state[d] \in {"failed", "skipped"}

(* Variants: skipping without looking at the state; one task too many;     *)
(* admission by capacity alone.                                            *)
SkippableTwice(t) ==
  state[t] # "skipped" /\ (failFast \/ HasFailedDependency(t))
AdmissibleBeyond(t) ==
  /\ active <= Limit(plan)
  /\ state[t] = "pending"
  /\ DependenciesSucceeded(t)
  /\ plan.session[t] \notin activeSessions
AdmissibleByCapacity(t) == active < Limit(plan) /\ state[t] = "pending"

(* The tasks the rest of the skip pass and of the admission pass act on.   *)
Skippable(t) ==
  /\ state[t] = "pending"
  /\ failFast \/ HasFailedDependency(t)
Admissible(t) ==
  /\ active < Limit(plan)
  /\ state[t] = "pending"
  /\ DependenciesSucceeded(t)
  /\ plan.session[t] \notin activeSessions
NextSkippable(t) ==
  t >= at /\ Skippable(t) /\ \A u \in at .. t - 1 : ~Skippable(u)
NextAdmissible(t) ==
  t >= at /\ Admissible(t) /\ \A u \in at .. t - 1 : ~Admissible(u)

(* Variant: a task without a session gets a key all the same.              *)
KeysOfAny(t) == {plan.session[t]}

Keys(t) == {plan.session[t]} \ {NoSession}

RoomForEvent == unread < EventCap
Put(event) == log' = Append(log, event) /\ unread' = unread + 1

-----------------------------------------------------------------------------
(* The scheduling loop.                                                    *)

Validate ==
  /\ At("start")
  /\ IF ValidPlan(plan)
       THEN Goto("top") /\ UNCHANGED firstErr
       ELSE Goto("finish") /\ firstErr' = BadPlan
  /\ UNCHANGED <<plan, at, state, resErr, failFast, active, completed,
                 activeSessions, done, cause, callerDone, outbox, proc, sent,
                 log, unread>>

LoopTop ==
  /\ At("top")
  /\ completed < N
  /\ IF cause # NoErr
       THEN failFast' = TRUE /\ FirstErr(cause)
       ELSE UNCHANGED <<failFast, firstErr>>
  /\ at' = 1
  /\ Goto("skip")
  /\ UNCHANGED <<plan, state, resErr, active, completed, activeSessions, done,
                 cause, callerDone, outbox, proc, sent, log, unread>>

LoopExit ==
  /\ At("top")
  /\ completed = N
  /\ Goto("finish")
  /\ UNCHANGED <<plan, loopVars, done, cause, callerDone, outbox, proc, sent,
                 log, unread>>

(* The event of a skipped task carries firstErr only under failFast.       *)
SkipTask(t) ==
  /\ At("skip")
  /\ NextSkippable(t)
  /\ state' = [state EXCEPT ![t] = "skipped"]
  /\ resErr' = [resErr EXCEPT ![t] = IF failFast THEN firstErr ELSE NoErr]
  /\ completed' = completed + 1
  /\ SendEvent("skipped", t)
  /\ at' = t + 1
  /\ UNCHANGED <<plan, pc, firstErr, failFast, active, activeSessions, done,
                 cause, callerDone, proc, sent, log, unread>>

SkipEnd ==
  /\ At("skip")
  /\ \A t \in at .. N : ~Skippable(t)
  /\ Goto(IF failFast THEN "wait" ELSE "admit")
  /\ at' = 1
  /\ UNCHANGED <<plan, state, resErr, firstErr, failFast, active, completed,
                 activeSessions, done, cause, callerDone, outbox, proc, sent,
                 log, unread>>

(* The goroutine of t starts once its started event has been dealt with.   *)
Admit(t) ==
  /\ At("admit")
  /\ NextAdmissible(t)
  /\ state' = [state EXCEPT ![t] = "running"]
  /\ active' = active + 1
  /\ activeSessions' = activeSessions \cup Keys(t)
  /\ SendEvent("started", t)
  /\ at' = t + 1
  /\ UNCHANGED <<plan, pc, resErr, firstErr, failFast, completed, done, cause,
                 callerDone, proc, sent, log, unread>>

BuildInputFails(t) ==
  /\ At("admit")
  /\ NextAdmissible(t)
  /\ t \in plan.builds
  /\ state' = [state EXCEPT ![t] = "failed"]
  /\ resErr' = [resErr EXCEPT ![t] = t]
  /\ completed' = completed + 1
  /\ FirstErr(t)
  /\ SendEvent("failed", t)
  /\ at' = t + 1
  /\ Goto(IF Mode(plan) = FailFast THEN "cancel_admit" ELSE "admit")
  /\ UNCHANGED <<plan, failFast, active, activeSessions, done, cause,
                 callerDone, proc, sent, log, unread>>

AdmitEnd ==
  /\ At("admit")
  /\ \A t \in at .. N : ~Admissible(t)
  /\ Goto("wait")
  /\ UNCHANGED <<plan, loopVars, done, cause, callerDone, outbox, proc, sent,
                 log, unread>>

(* Variant: neither statement is executed.                                 *)
FailFastLost ==
  /\ outbox = <<>>
  /\ \/ pc = "cancel_admit" /\ Goto("admit")
     \/ pc = "cancel_top" /\ Goto("top")
  /\ UNCHANGED <<plan, loopVars, cause, done, callerDone, outbox, proc, sent,
                 log, unread>>

(* failFast = true; run.cancel(err).  Only the first cause counts, and     *)
(* while there is none the error at hand is the first one of the run.      *)
FailFastCancel ==
  /\ outbox = <<>>
  /\ \/ pc = "cancel_admit" /\ Goto("admit")
     \/ pc = "cancel_top" /\ Goto("top")
  /\ failFast' = TRUE
  /\ cause' = IF cause = NoErr THEN firstErr ELSE cause
  /\ UNCHANGED <<plan, at, state, resErr, firstErr, active, completed,
                 activeSessions, done, callerDone, outbox, proc, sent, log,
                 unread>>

IdleBreak ==
  /\ At("wait")
  /\ active = 0
  /\ completed = N
  /\ Goto("finish")
  /\ UNCHANGED <<plan, loopVars, done, cause, callerDone, outbox, proc, sent,
                 log, unread>>

IdleStuck ==
  /\ At("wait")
  /\ active = 0
  /\ completed < N
  /\ FirstErr(NoRunnable)
  /\ failFast' = TRUE
  /\ Goto("top")
  /\ UNCHANGED <<plan, at, state, resErr, active, completed, activeSessions,
                 done, cause, callerDone, outbox, proc, sent, log, unread>>

(* Variants: the session stays busy; the task stays counted as active.     *)
ReleasedButSession(t) ==
  /\ active' = active - 1
  /\ activeSessions' = activeSessions
  /\ completed' = completed + 1
ReleasedButActive(t) ==
  /\ active' = active
  /\ activeSessions' = activeSessions \ Keys(t)
  /\ completed' = completed + 1

Released(t) ==
  /\ active' = active - 1
  /\ activeSessions' = activeSessions \ Keys(t)
  /\ completed' = completed + 1

ReceiveError ==
  /\ At("wait")
  /\ active > 0
  /\ done # <<>>
  /\ Head(done).err
  /\ LET t == Head(done).task
         taskErr == IF cause # NoErr THEN cause ELSE t
     IN  /\ Released(t)
         /\ state' = [state EXCEPT ![t] = "failed"]
         /\ resErr' = [resErr EXCEPT ![t] = taskErr]
         /\ FirstErr(taskErr)
         /\ SendEvent("failed", t)
  /\ done' = Tail(done)
  /\ Goto(IF Mode(plan) = FailFast THEN "cancel_top" ELSE "top")
  /\ UNCHANGED <<plan, at, failFast, cause, callerDone, proc, sent, log,
                 unread>>

ReceiveSuccess ==
  /\ At("wait")
  /\ active > 0
  /\ done # <<>>
  /\ ~Head(done).err
  /\ LET t == Head(done).task
     IN  /\ Released(t)
         /\ state' = [state EXCEPT ![t] = "succeeded"]
         /\ SendEvent("completed", t)
  /\ done' = Tail(done)
  /\ Goto("top")
  /\ UNCHANGED <<plan, at, resErr, firstErr, failFast, cause, callerDone, proc,
                 sent, log, unread>>

Finish ==
  /\ At("finish")
  /\ SendEvent(IF firstErr # NoErr THEN "run_error" ELSE "final_output", Root)
  /\ Goto("closing")
  /\ UNCHANGED <<plan, loopVars, done, cause, callerDone, proc, sent, log,
                 unread>>

Close ==
  /\ At("closing")
  /\ Goto("closed")
  /\ UNCHANGED <<plan, loopVars, done, cause, callerDone, outbox, proc, sent,
                 log, unread>>

(* emit: the event goes into Run.Events, or is dropped when the caller's   *)
(* context is cancelled; then the loop goes on, and runTask begins.        *)
Emitted ==
  /\ outbox # <<>>
  /\ outbox' = <<>>
  /\ LET e == Head(outbox)
     IN  proc' = IF e.type = "started" THEN [proc EXCEPT ![e.task] = "run"]
                                       ELSE proc
  /\ UNCHANGED <<plan, pc, loopVars, done, cause, callerDone, sent>>

EmitPut ==
  /\ Emitted
  /\ RoomForEvent
  /\ Put(Head(outbox))

(* Variant: a full channel drops the event, as with a select default.      *)
EmitDropWhenFull ==
  /\ Emitted
  /\ callerDone \/ ~RoomForEvent
  /\ UNCHANGED <<log, unread>>

EmitDrop ==
  /\ Emitted
  /\ callerDone
  /\ UNCHANGED <<log, unread>>

Loop ==
  \/ Validate \/ LoopTop \/ LoopExit
  \/ \E t \in Tasks : SkipTask(t) \/ Admit(t) \/ BuildInputFails(t)
  \/ SkipEnd \/ AdmitEnd \/ FailFastCancel
  \/ IdleBreak \/ IdleStuck \/ ReceiveError \/ ReceiveSuccess
  \/ Finish \/ Close \/ EmitPut \/ EmitDrop

-----------------------------------------------------------------------------
(* The goroutine of a task.                                                *)

Proc(t, from, to) == proc[t] = from /\ proc' = [proc EXCEPT ![t] = to]

Produce(t) ==
  /\ sent[t] < MaxProgress
  /\ Proc(t, "run", "emit")
  /\ sent' = [sent EXCEPT ![t] = @ + 1]
  /\ UNCHANGED <<plan, pc, loopVars, done, cause, callerDone, outbox, log,
                 unread>>

ProgressPut(t) ==
  /\ Proc(t, "emit", "run")
  /\ RoomForEvent
  /\ Put(Event("progress", t))
  /\ UNCHANGED <<plan, pc, loopVars, done, cause, callerDone, outbox, sent>>

(* Variant: a plain send, which does not look at the caller's context.     *)
ProgressSend(t) ==
  /\ Proc(t, "emit", "run")
  /\ RoomForEvent
  /\ Put(Event("progress", t))
  /\ UNCHANGED <<plan, pc, loopVars, done, cause, callerDone, outbox, sent>>

ProgressDrop(t) ==
  /\ Proc(t, "emit", "run")
  /\ callerDone
  /\ UNCHANGED <<plan, pc, loopVars, done, cause, callerDone, outbox, sent,
                 log, unread>>

(* Variant: the result is taken before the events are drained.             *)
AgentRunEndsUndrained(t) ==
  /\ proc[t] \in {"run", "emit"}
  /\ state[t] = "running"
  /\ \A i \in 1 .. Len(done) : done[i].task # t
  /\ proc' = [proc EXCEPT ![t] = IF @ = "run" THEN "ended" ELSE @]
  /\ \E err \in BOOLEAN : done' = Append(done, [task |-> t, err |-> err])
  /\ UNCHANGED <<plan, pc, loopVars, cause, callerDone, outbox, sent, log,
                 unread>>

AgentRunEnds(t) ==
  /\ Proc(t, "run", "ended")
  /\ \E err \in BOOLEAN : done' = Append(done, [task |-> t, err |-> err])
  /\ UNCHANGED <<plan, pc, loopVars, cause, callerDone, outbox, sent, log,
                 unread>>

RunTask(t) ==
  Produce(t) \/ ProgressPut(t) \/ ProgressDrop(t) \/ AgentRunEnds(t)

-----------------------------------------------------------------------------
(* The caller.                                                             *)

Cancelled(c) == cause' = IF cause = NoErr THEN c ELSE cause

Cancel ==
  /\ pc # "closed"
  /\ cause = NoErr
  /\ Cancelled(UserCancel)
  /\ UNCHANGED <<plan, pc, loopVars, done, callerDone, outbox, proc, sent, log,
                 unread>>

(* taskCtx is a child of the caller's context.                             *)
CallerCancels ==
  /\ pc # "closed"
  /\ ~callerDone
  /\ callerDone' = TRUE
  /\ Cancelled(CallerGone)
  /\ UNCHANGED <<plan, pc, loopVars, done, outbox, proc, sent, log, unread>>

ReadEvent ==
  /\ unread > 0
  /\ unread' = unread - 1
  /\ UNCHANGED <<plan, pc, loopVars, done, cause, callerDone, outbox, proc,
                 sent, log>>

(* Nothing is left to do: the run is over and every event was read.        *)
Terminated == pc = "closed" /\ unread = 0 /\ UNCHANGED vars

Next ==
  \/ Loop
  \/ \E t \in Tasks : RunTask(t)
  \/ Cancel \/ CallerCancels \/ ReadEvent
  \/ Terminated

Spec == Init /\ [][Next]_vars

(* The goroutines run whenever they can.  Nothing makes the caller read    *)
(* events, cancel, or stop cancelling.                                     *)
Fairness == WF_vars(Loop) /\ \A t \in Tasks : WF_vars(RunTask(t))
FairSpec == Spec /\ Fairness

-----------------------------------------------------------------------------
(* Properties.                                                             *)

(* Every variable holds a value of its kind.                               *)
TypeOK ==
  /\ plan \in PlanType
  /\ pc \in Locations
  /\ at \in Nat
  /\ state \in [Tasks -> States]
  /\ resErr \in [Tasks -> Errors]
  /\ firstErr \in Errors
  /\ failFast \in BOOLEAN
  /\ active \in Int
  /\ completed \in Int
  /\ activeSessions \subseteq Sessions
  /\ done \in Seq([task : Tasks, err : BOOLEAN])
  /\ cause \in Errors
  /\ callerDone \in BOOLEAN
  /\ outbox = <<>> \/ \E e \in Events : outbox = <<e>>
  /\ proc \in [Tasks -> {"none", "run", "emit", "ended"}]
  /\ sent \in [Tasks -> Nat]
  /\ log \in Seq(Events)
  /\ unread \in Nat

Running == {t \in Tasks : state[t] = "running"}
Live    == {t \in Tasks : proc[t] \in {"run", "emit"}}

(* The counters and sets the loop decides on (active, completed,           *)
(* activeSessions, the content of done) agree with the states of the       *)
(* tasks, whatever the order in which tasks end, fail and are skipped.     *)
Bookkeeping ==
  /\ active = Cardinality(Running)
  /\ completed = Cardinality({t \in Tasks : state[t] \in Ended})
  /\ activeSessions = {plan.session[t] : t \in Running} \ {NoSession}
  /\ \A i \in 1 .. Len(done) :
       /\ state[done[i].task] = "running" /\ proc[done[i].task] = "ended"
       /\ \A j \in 1 .. Len(done) : done[j].task = done[i].task => i = j

(* At most MaxParallel agent runs execute at once.                         *)
ParallelLimit == Cardinality(Live) <= Limit(plan)

(* An agent run executes only when all its task depends on, directly or    *)
(* through other tasks, has succeeded: BuildInput and the agent see final  *)
(* results.                                                                *)
DependencyOrder ==
  \A t \in Live, u \in Tasks :
    DependsOn(plan, t, u) => state[u] = "succeeded"

(* Two agent runs never use the same session at the same time.             *)
SessionExclusive ==
  \A t, u \in Live :
    (t # u /\ plan.session[t] # NoSession) => plan.session[t] # plan.session[u]

(* Without a cancellation, a plan in Continue mode skips exactly the tasks *)
(* that depend on a failed one, directly or through others; every other    *)
(* task has run.  So the "no runnable tasks" error of the loop is dead.    *)
SkipsExactlyDependents ==
  (pc = "closed" /\ cause = NoErr /\ Mode(plan) = Continue /\ firstErr # BadPlan) =>
    \A t \in Tasks :
      state[t] = "skipped" <=>
        \E u \in Tasks : DependsOn(plan, t, u) /\ state[u] = "failed"

(* What the run reports matches what became of its tasks: without an error *)
(* every task succeeded; with one, it is the error of a failed task or the *)
(* cause of a cancellation, and never the "no runnable tasks" error.       *)
ErrorsExplained ==
  pc = "closed" =>
    \/ firstErr = BadPlan /\ ~ValidPlan(plan)
    \/ firstErr = NoErr /\ \A t \in Tasks : state[t] = "succeeded"
    \/ firstErr # NoErr /\ firstErr = cause
    \/ \E t \in Tasks : state[t] = "failed" /\ firstErr = resErr[t]

(* Where the events of t are in the stream.                                *)
Positions(t) == {i \in 1 .. Len(log) : log[i].task = t}

(* The events of one task tell its story in order: started, its progress,  *)
(* one terminal event that agrees with its result; or only the terminal    *)
(* event when it never ran.                                                *)
StoryOf(t) ==
  \E first, last \in Positions(t) :
    /\ \A i \in Positions(t) \ {first, last} :
         first < i /\ i < last /\ log[i].type = "progress"
    /\ \/ state[t] = "skipped" /\ first = last /\ log[last].type = "skipped"
       \/ /\ state[t] = "failed" /\ t \in plan.builds
          /\ first = last /\ log[last].type = "failed"
       \/ /\ first < last /\ log[first].type = "started"
          /\ \/ state[t] = "succeeded" /\ log[last].type = "completed"
             \/ state[t] = "failed" /\ log[last].type = "failed"

(* When the caller's context is alive at the end, Run.Events has carried   *)
(* the whole run: each task's story, then one terminal event, the last,    *)
(* that agrees with the result Run.Result returns.                         *)
EventsTellTheRun ==
  (pc = "closed" /\ ~callerDone) =>
    /\ firstErr # BadPlan => \A t \in Tasks : StoryOf(t)
    /\ Positions(Root) = {Len(log)}
    /\ log[Len(log)].type =
         IF firstErr = NoErr THEN "final_output" ELSE "run_error"

(* A task ends once: its final state and its error never change, and a     *)
(* task that was skipped or has failed is never started afterwards.        *)
EndsOnce ==
  [][\A t \in Tasks : state[t] \in Ended =>
       state'[t] = state[t] /\ resErr'[t] = resErr[t]]_vars

(* FailFast, when no input is built: after a failure nothing is started.   *)
FailFastStops ==
  [][(/\ Mode(plan) = FailFast
      /\ plan.builds = {}
      /\ \E t \in Tasks : state[t] = "failed")
     => \A t \in Tasks : state[t] = "pending" =>
                            state'[t] \in {"pending", "skipped"}]_vars

(* FailFast as its comment states it: once a task has failed, every task   *)
(* not yet started is skipped.  The code does not keep this: the admission *)
(* pass in which a BuildInput fails goes on admitting tasks.               *)
FailFastSkipsUnstarted ==
  [][(Mode(plan) = FailFast /\ \E t \in Tasks : state[t] = "failed")
     => \A t \in Tasks : state[t] = "pending" =>
                            state'[t] \in {"pending", "skipped"}]_vars

(* The run implements the promises of TaskGraph.                           *)
Promised == INSTANCE TaskGraph WITH status <- state, stopped <- cause # NoErr
KeepsPromises == Promised!GSpec

-----------------------------------------------------------------------------
(* Liveness, under Fairness only.                                          *)

(* A caller that keeps making room in Run.Events sees the run end.         *)
ReadRunEnds == []<>RoomForEvent => <>(pc = "closed")

(* A caller that stops reading but cancels its context is not waited for:  *)
(* the run ends, with every agent run finished.                            *)
AbandonedRunEnds == callerDone ~> (pc = "closed" /\ Live = {})
=============================================================================
