---------------------------- MODULE WorkflowPlan ----------------------------
(***************************************************************************)
(* The task graphs of package workflow (src/workflow/workflow.go): what a  *)
(* Plan is, and which plans validatePlan accepts.                          *)
(*                                                                         *)
(* A task is its position in Plan.Tasks, so task IDs are unique and not    *)
(* empty, and every task has an agent.  A dependency is an ID: the         *)
(* position of a task, or Unknown for an ID that no task of the plan has.  *)
(* A task's dependencies are distinct: validatePlan refuses a repeat.      *)
(***************************************************************************)
EXTENDS Integers

CONSTANTS
  N,            \* number of tasks of a plan
  Sessions,     \* the keys of the sessions tasks may share
  NoSession     \* the key of a task without a session

ASSUME PlanAssumption ==
  /\ N \in Nat \ {0}
  /\ NoSession \notin Sessions

Tasks   == 1 .. N
Unknown == 0

Continue == "continue"
FailFast == "fail_fast"

(***************************************************************************)
(* A plan as the caller writes it.  builds is the set of tasks that have   *)
(* a BuildInput function; mode "" stands for a FailureMode left empty and  *)
(* "other" for one that is neither Continue nor FailFast.                  *)
(***************************************************************************)
PlanType ==
  [ deps    : [Tasks -> SUBSET (Tasks \cup {Unknown})],
    session : [Tasks -> Sessions \cup {NoSession}],
    builds  : SUBSET Tasks,
    max     : Int,
    mode    : {"", "other", Continue, FailFast} ]

(* The tasks that task t waits for, directly or through others: the least  *)
(* set that holds t's dependencies and is closed under dependencies.       *)
(* validateSessions computes membership with the recursive dependsOn.      *)
DependsOn(p, t, u) ==
  \A S \in SUBSET Tasks :
    (/\ p.deps[t] \subseteq S
     /\ \A v \in S : p.deps[v] \subseteq S) => u \in S

(* No task depends on itself or on an unknown ID.                          *)
KnownDependencies(p) ==
  \A t \in Tasks : p.deps[t] \subseteq Tasks \ {t}

(* Variant: the check that follows is not called.                          *)
AcyclicUnchecked(p) == \A t \in Tasks : p.deps[t] \subseteq Tasks

(* validateCycles: a dependency cycle exists exactly when some set of      *)
(* tasks gives each of its members a dependency inside the set.            *)
Acyclic(p) ==
  \A S \in SUBSET Tasks \ {{}} : \E t \in S : p.deps[t] \cap S = {}

(* validateSessions: two tasks that share a session are ordered.           *)
SessionsOrdered(p) ==
  \A t, u \in Tasks :
    (t # u /\ p.session[t] # NoSession /\ p.session[t] = p.session[u])
      => DependsOn(p, t, u) \/ DependsOn(p, u, t)

ValidPlan(p) ==
  /\ p.max >= 0
  /\ p.mode # "other"
  /\ KnownDependencies(p)
  /\ Acyclic(p)
  /\ SessionsOrdered(p)

(* The defaults execute fills in: one task at a time, Continue.            *)
Limit(p) == IF p.max <= 0 THEN 1 ELSE p.max
Mode(p)  == IF p.mode = "" THEN Continue ELSE p.mode
=============================================================================
