----------------------------- MODULE TaskGraph ------------------------------
(***************************************************************************)
(* What running a workflow plan promises, without the scheduling loop, the *)
(* goroutines and the channels that do it: each task of an accepted plan   *)
(* is started at most once, when everything it depends on has succeeded,   *)
(* within the plan's parallelism and never beside a task of the same       *)
(* session; it is skipped only after the run was stopped or because        *)
(* something it depends on has failed.                                     *)
(***************************************************************************)
EXTENDS WorkflowPlan, FiniteSets

CONSTANT Plans          \* the plans callers submit

VARIABLES
  plan,                 \* the submitted plan
  status,               \* what became of each task so far
  stopped               \* a cancellation or a fail-fast failure happened

gvars == <<plan, status, stopped>>

Ended == {"succeeded", "failed", "skipped"}

RunningTasks == {t \in Tasks : status[t] = "running"}

(* Something t depends on, directly or not, has failed.                    *)
Doomed(t) == \E u \in Tasks : DependsOn(plan, t, u) /\ status[u] = "failed"

GInit ==
  /\ plan \in Plans
  /\ status = [t \in Tasks |-> "pending"]
  /\ stopped = FALSE

Set(t, s) == status' = [status EXCEPT ![t] = s]

Ready(t) ==
  /\ ValidPlan(plan)
  /\ status[t] = "pending"
  /\ \A d \in plan.deps[t] : status[d] = "succeeded"

Start(t) ==
  /\ Ready(t)
  /\ Cardinality(RunningTasks) < Limit(plan)
  /\ \A u \in RunningTasks :
       plan.session[t] # NoSession => plan.session[u] # plan.session[t]
  /\ Set(t, "running")
  /\ UNCHANGED <<plan, stopped>>

End(t) ==
  /\ status[t] = "running"
  /\ \E s \in {"succeeded", "failed"} : Set(t, s)
  /\ UNCHANGED <<plan, stopped>>

(* The input of t could not be built: it fails without having run.         *)
FailInput(t) ==
  /\ Ready(t)
  /\ t \in plan.builds
  /\ Set(t, "failed")
  /\ UNCHANGED <<plan, stopped>>

Skip(t) ==
  /\ status[t] = "pending"
  /\ stopped \/ Doomed(t)
  /\ Set(t, "skipped")
  /\ UNCHANGED <<plan, stopped>>

Stop ==
  /\ stopped' = TRUE
  /\ UNCHANGED <<plan, status>>

GNext ==
  \/ \E t \in Tasks : Start(t) \/ End(t) \/ FailInput(t) \/ Skip(t)
  \/ Stop

GSpec == GInit /\ [][GNext]_gvars
=============================================================================
