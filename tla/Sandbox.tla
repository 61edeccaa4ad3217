------------------------------- MODULE Sandbox --------------------------------
(***************************************************************************)
(* The sandbox (src/sandbox) and the shell tool on top of it               *)
(* (src/builtins): what a sandbox enforces on each system and says it      *)
(* enforces, and the life of the commands it runs, while their contexts    *)
(* are cancelled, their timers fire and the sandbox is closed.             *)
(*                                                                         *)
(* The kernel, the processes and os/exec are external.  The processes of a *)
(* command are its root, the kin in its process group or its job, and      *)
(* strays: processes that left the group, or of a command without a job.   *)
(* Files, output and the environment are left out.                         *)
(***************************************************************************)
EXTENDS Naturals, FiniteSets

CONSTANTS
  Runs,         \* bound: the calls of Run, each with a command of its own
  Systems,      \* among "linux", "windows" and "other"
  Crowded,      \* bound: the systems on which all Runs are called, not one
  LandlockABIs  \* versions of the kernel's Landlock, 0 for none

ASSUME SandboxAssumption ==
  /\ Systems \subseteq {"linux", "windows", "other"}
  /\ LandlockABIs \subseteq Nat

VARIABLES
  os, abi, prlimit,     \* the host
  noNetwork, limits, lax,       \* the configuration
  stage,        \* of the sandbox: "new", "refused" or "ready"
  caps,         \* its capabilities
  thread,       \* what the spawn thread is restricted in, nothing without one
  active, closed,       \* the commands to kill on Close, and its flag
  snapshot, killing,    \* what Close found active, and what it has yet to kill
  pc,           \* where each Run is
  alive,        \* the processes of its command
  applied,      \* the restrictions they are under
  job,          \* they are in a Job Object
  ctx,          \* "live", "done", or "watched" once exec has acted on it
  timer,        \* "off", "armed", or "fired" until it has killed
  fired,        \* the flag that a timeout or a cancellation sets
  outcome       \* what Run returned

host == <<os, abi, prlimit, noNetwork, limits, lax>>
box == <<stage, caps, thread, closed, snapshot, killing>>
process == <<alive, applied, job>>
vars == <<host, box, active, pc, process, ctx, timer, fired, outcome>>

Init ==
  /\ os \in Systems
  /\ abi \in IF os = "linux" THEN LandlockABIs ELSE {0}
  /\ prlimit \in IF os = "linux" THEN BOOLEAN ELSE {FALSE}
  /\ noNetwork \in IF os = "linux" THEN BOOLEAN ELSE {TRUE}
  /\ limits \in IF prlimit THEN {TRUE} ELSE {os = "windows"}
  /\ lax \in BOOLEAN
  /\ stage = "new" /\ caps = {} /\ thread = {}
  /\ active = {} /\ closed = FALSE /\ snapshot = {} /\ killing = {}
  /\ pc = [r \in Runs |-> "idle"]
  /\ alive = [r \in Runs |-> {}]
  /\ applied = [r \in Runs |-> {}]
  /\ job = [r \in Runs |-> FALSE]
  /\ ctx = [r \in Runs |-> "live"]
  /\ timer = [r \in Runs |-> "off"]
  /\ fired = [r \in Runs |-> FALSE]
  /\ outcome = [r \in Runs |-> "none"]

-----------------------------------------------------------------------------
(* Construction.                                                           *)

(* initPlatform: what the host enforces, with a ruleset when it could be   *)
(* built.                                                                  *)
initPlatform(ruleset) ==
  {"tree"}
    \cup (IF ruleset THEN {"fs"} ELSE {})
    \cup (IF ruleset /\ noNetwork /\ abi >= 4 THEN {"net"} ELSE {})
    \cup (IF limits /\ (os = "windows" \/ prlimit) THEN {"limits"} ELSE {})

(* A sandbox that is not lax is not made without these.                    *)
strictError(can) ==
  CASE os = "linux" -> "fs" \notin can \/ (noNetwork /\ "net" \notin can)
    [] os = "windows" -> "tree" \notin can
    [] OTHER -> TRUE

(* Variant: a lax sandbox that could not restrict its thread still says it *)
(* enforces the ruleset.                                                   *)
startPlatformBoasting(can, ruleset, restricts) ==
  /\ thread' = IF ruleset /\ restricts THEN can \cap {"fs", "net"} ELSE {}
  /\ caps' = can

(* The kernel may refuse the ruleset when the spawn thread is restricted.  *)
startPlatform(can, ruleset, restricts) ==
  /\ thread' = IF ruleset /\ restricts THEN can \cap {"fs", "net"} ELSE {}
  /\ caps' = IF ruleset /\ ~restricts THEN can \ {"fs", "net"} ELSE can

(* The kernel may refuse the ruleset already when it is built.             *)
New ==
  /\ stage = "new"
  /\ \E ruleset \in IF abi >= 1 THEN BOOLEAN ELSE {FALSE}, restricts \in BOOLEAN :
       LET can == initPlatform(ruleset)
       IN  /\ startPlatform(can, ruleset, restricts)
           /\ stage' = IF ~lax /\ (strictError(can) \/ (ruleset /\ ~restricts))
                         THEN "refused" ELSE "ready"
  /\ UNCHANGED <<host, active, closed, snapshot, killing, pc, process, ctx,
                 timer, fired, outcome>>

(* The shell tool is registered only with a sandbox that confines.         *)
NewShellTool == IF os = "linux" THEN "fs" \in caps ELSE "tree" \in caps

-----------------------------------------------------------------------------
(* Run.                                                                    *)

Goto(r, location) == pc' = [pc EXCEPT ![r] = location]
Returns(r, result) == Goto(r, "returned") /\ outcome' = [outcome EXCEPT ![r] = result]

Callers == IF os \in Crowded THEN Runs ELSE {CHOOSE r \in Runs : TRUE}

(* Run is called directly, or by the shell tool unless the command matches *)
(* a deny rule.                                                            *)
Call(r) ==
  /\ r \in Callers
  /\ stage = "ready"
  /\ pc[r] = "idle"
  /\ \/ Goto(r, "called") /\ UNCHANGED outcome
     \/ NewShellTool /\ Returns(r, "denied")
  /\ UNCHANGED <<host, box, active, process, ctx, timer, fired>>

Check(r) ==
  /\ pc[r] = "called"
  /\ IF closed THEN Returns(r, "closed") ELSE Goto(r, "checked") /\ UNCHANGED outcome
  /\ UNCHANGED <<host, box, active, process, ctx, timer, fired>>

(* The command is started by prlimit when there are limits.                *)
wrapCommand == IF prlimit /\ limits THEN {"limits"} ELSE {}

(* spawn starts it on the spawn thread when there is one, whose            *)
(* restrictions it inherits.                                               *)
Inherited == thread \cup wrapCommand

(* Start fails under a done context.                                       *)
Spawn(r) ==
  /\ pc[r] = "checked"
  /\ \/ /\ Returns(r, "unstarted")
        /\ UNCHANGED process
     \/ /\ ctx[r] = "live"
        /\ alive' = [alive EXCEPT ![r] = {"root"}]
        /\ applied' = [applied EXCEPT ![r] = Inherited]
        /\ Goto(r, IF os = "windows" THEN "started" ELSE "spawned")
        /\ UNCHANGED <<job, outcome>>
  /\ UNCHANGED <<host, box, active, ctx, timer, fired>>

(* Windows: assign the process to a job, unless a call fails.              *)
Assign(r) ==
  /\ pc[r] = "started"
  /\ \/ UNCHANGED <<job, applied>>
     \/ /\ "root" \in alive[r]
        /\ job' = [job EXCEPT ![r] = TRUE]
        /\ applied' = [applied EXCEPT ![r] = IF limits THEN {"limits"} ELSE {}]
  /\ Goto(r, "spawned")
  /\ UNCHANGED <<host, box, active, alive, ctx, timer, fired, outcome>>

Register(r) ==
  /\ pc[r] = "spawned"
  /\ active' = active \cup {r}
  /\ timer' = [timer EXCEPT ![r] = "armed"]
  /\ Goto(r, "waiting")
  /\ UNCHANGED <<host, box, process, ctx, fired, outcome>>

(* Variant: without a WaitDelay, Wait is as long as a process may write.   *)
WaitForOutput(r) ==
  /\ pc[r] = "waiting"
  /\ alive[r] = {}
  /\ Goto(r, "waited")
  /\ UNCHANGED <<host, box, active, process, ctx, timer, fired, outcome>>

(* Closing a job ends what is in it.                                       *)
release(r) == IF job[r] THEN alive[r] \ {"kin"} ELSE alive[r]

(* Wait returns after the root has ended and its output is read, or the    *)
(* WaitDelay is over.                                                      *)
Wait(r) ==
  /\ pc[r] = "waiting"
  /\ "root" \notin alive[r]
  /\ alive' = [alive EXCEPT ![r] = release(r)]
  /\ Goto(r, "waited")
  /\ UNCHANGED <<host, box, active, applied, job, ctx, timer, fired, outcome>>

(* What to return: the flag decides before the exit status, which with the *)
(* output makes the other results.                                         *)
Decide(r) ==
  /\ pc[r] = "waited"
  /\ Goto(r, "decided")
  /\ outcome' = [outcome EXCEPT ![r] =
       IF ~fired[r] THEN "finished" ELSE IF ctx[r] = "live" THEN "timeout" ELSE "cancelled"]
  /\ UNCHANGED <<host, box, active, process, ctx, timer, fired>>

(* The deferred calls; a timer that has fired cannot be stopped.  What is  *)
(* local to the call is forgotten.                                         *)
Leave(r) ==
  /\ pc[r] = "decided"
  /\ timer' = [timer EXCEPT ![r] = IF @ = "armed" THEN "off" ELSE @]
  /\ active' = active \ {r}
  /\ Goto(r, "returned")
  /\ ctx' = [ctx EXCEPT ![r] = "live"]
  /\ fired' = [fired EXCEPT ![r] = FALSE]
  /\ UNCHANGED <<host, box, alive, applied, job, outcome>>

-----------------------------------------------------------------------------
(* Kill.                                                                   *)

(* Variant: the process is killed, not its group.                          *)
GroupDirect(r) == IF job[r] THEN {"root", "kin"} ELSE {"root"}

(* A signal to the process group reaches the root and its kin.             *)
Group(r) == IF os # "windows" \/ job[r] THEN {"root", "kin"} ELSE {"root"}

(* The group or the job is killed, or the root when there is none.         *)
kill(r) ==
  /\ alive' = [alive EXCEPT ![r] = @ \ Group(r)]
  /\ UNCHANGED <<applied, job>>

Cancel(r) ==
  /\ pc[r] \notin {"idle", "returned"}
  /\ ctx[r] = "live"
  /\ ctx' = [ctx EXCEPT ![r] = "done"]
  /\ UNCHANGED <<host, box, active, pc, process, timer, fired, outcome>>

(* exec calls cmd.Cancel from Start until Wait, which waits for it.        *)
Watch(r) ==
  /\ pc[r] \in {"started", "spawned", "waiting"}
  /\ ctx[r] = "done"
  /\ ctx' = [ctx EXCEPT ![r] = "watched"]
  /\ fired' = [fired EXCEPT ![r] = TRUE]
  /\ kill(r)
  /\ UNCHANGED <<host, box, active, pc, timer, outcome>>

Timeout(r) ==
  /\ timer[r] = "armed"
  /\ timer' = [timer EXCEPT ![r] = "fired"]
  /\ fired' = [fired EXCEPT ![r] = TRUE]
  /\ UNCHANGED <<host, box, active, pc, process, ctx, outcome>>

TimeoutKills(r) ==
  /\ timer[r] = "fired"
  /\ timer' = [timer EXCEPT ![r] = "off"]
  /\ kill(r)
  /\ UNCHANGED <<host, box, active, pc, ctx, fired, outcome>>

Close ==
  /\ stage = "ready"
  /\ ~closed
  /\ closed' = TRUE
  /\ snapshot' = active /\ killing' = active
  /\ UNCHANGED <<host, stage, caps, thread, active, pc, process, ctx, timer,
                 fired, outcome>>

CloseKills(r) ==
  /\ r \in killing
  /\ killing' = killing \ {r}
  /\ kill(r)
  /\ UNCHANGED <<host, stage, caps, thread, closed, snapshot, active, pc, ctx,
                 timer, fired, outcome>>

-----------------------------------------------------------------------------
(* The processes.                                                          *)

Forks(r) ==
  /\ alive[r] \cap {"root", "kin"} # {}
  /\ \E child \in IF os # "windows" THEN {"kin", "stray"}
                  ELSE IF job[r] THEN {"kin"} ELSE {"stray"} :
       /\ child \notin alive[r]
       /\ alive' = [alive EXCEPT ![r] = @ \cup {child}]
  /\ UNCHANGED <<host, box, active, pc, applied, job, ctx, timer, fired, outcome>>

Exits(r) ==
  /\ \E p \in alive[r] : alive' = [alive EXCEPT ![r] = @ \ {p}]
  /\ UNCHANGED <<host, box, active, pc, applied, job, ctx, timer, fired, outcome>>

Step(r) ==
  \/ Check(r) \/ Spawn(r) \/ Assign(r) \/ Register(r) \/ Wait(r) \/ Decide(r) \/ Leave(r)
  \/ Timeout(r) \/ TimeoutKills(r)

Next ==
  \/ New \/ Close
  \/ \E r \in Runs :
       \/ Step(r) \/ Call(r) \/ Cancel(r) \/ Watch(r) \/ CloseKills(r)
       \/ Forks(r) \/ Exits(r)

Spec == Init /\ [][Next]_vars

(* Goroutines go on while they can and an armed timer fires; nothing is    *)
(* asked of the processes.                                                 *)
FairSpec == Spec /\ \A r \in Runs : WF_vars(Step(r))

-----------------------------------------------------------------------------
(* Properties.                                                             *)

(* What a sandbox says it enforces holds for every command it runs, on     *)
(* Linux and for the jobs of Windows, even when the kernel refused the     *)
(* ruleset; a Linux sandbox that is not lax enforces what it was asked to, *)
(* the shell tool there is always confined, and a denied command never     *)
(* runs.                                                                   *)
Confined ==
  /\ (stage = "ready" /\ os = "linux" /\ ~lax) =>
       {"fs"} \cup (IF noNetwork THEN {"net"} ELSE {}) \subseteq caps
  /\ \A r \in Runs : alive[r] # {} =>
       /\ (os = "linux" \/ job[r]) => caps \ {"tree"} \subseteq applied[r]
       /\ (os = "linux" /\ NewShellTool) => "fs" \in applied[r]
       /\ outcome[r] # "denied"

(* A command that timed out or was cancelled leaves no process of its      *)
(* group or job once the kill that was begun is done, even when it ended   *)
(* by itself in between; nor does one that Close found running; a job      *)
(* leaves none ever.  A root alive after Close is of a Run that goes on.   *)
KillsReachTheTree ==
  /\ \A r \in Runs :
       /\ (outcome[r] \in {"timeout", "cancelled"} /\ timer[r] # "fired")
            => alive[r] \subseteq {"stray"}
       /\ (pc[r] \in {"waited", "decided", "returned"} /\ job[r]) => alive[r] \subseteq {"stray"}
       /\ r \in snapshot \ killing => alive[r] \subseteq {"stray"}
       /\ pc[r] = "returned" => "root" \notin alive[r]

(* Every Run returns: whatever its processes do, a command is killed in    *)
(* the end, and no process that outlives the kill keeps Run waiting.       *)
RunsReturn == \A r \in Runs : pc[r] = "called" ~> pc[r] = "returned"
=============================================================================
