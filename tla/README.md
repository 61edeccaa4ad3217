# Verification of smart-agent-sdk-go

TLA+ specifications of the SDK's control logic, the TLC configurations that
check them and theorems TLAPS proves about them. Everything is translated from
the Go source; `PROJECT.json` maps each definition to its lines.

## 1. The system

| Part | State it keeps | Operations | Hard behaviour | What makes it correct |
|---|---|---|---|---|
| `workflow` | task states, counters, busy sessions, `done`, `Run.Events`, two contexts | `Run`, `Cancel`, `Wait`; one goroutine per task | failures, cancellation and admission in any order; a full event channel | dependencies, parallelism, session exclusion, exact skipping, faithful events, termination |
| `agent` run loop | transcript, turn, current agent, pending calls | `Run`, `RunWithHistory`, `RunWithSession` | tool failures, handoffs, guardrails, turn limit | calls and results match in every request, up to what a window cut off; guardrails gate, the result tells what happened |
| `agent` session write-back | length of the loaded history | `withInstructions`, `compressHistory`, `persistTurn` | concurrent runs, history compressed or its prompt replaced under the write-back | sessions grow by whole turns, failed runs write nothing |
| `agent` streaming, delegation | event buffer of 256, child runs | `RunStream*`, `sendEvent`, `streamDelegatedTool` | readers that stop, cancellation, children in other goroutines | one terminal event, no stuck goroutine |
| `session` stores | items with IDs, in memory, in a file, in SQLite | `List`, `Append`, `Replace`, `Clear` | crashes between write and rename, failing storage, several processes, transactions | each operation is atomic; IDs are unique; nothing is left behind or locked |
| `session` compressors | Summarizer's rolling cache | `Compress` | stale cache, failing model | the summary stands for exactly the folded messages |
| `model` resilience | attempts, token bucket | `WithRetry`, `WithTimeout`, `Fallback`, `WithRateLimit` | timeouts racing answers, cancellation while waiting, waiters waking up together | attempts follow from the failures before them; the rate is kept and nobody oversleeps |
| `model` streams, `sse`, `openai` | partial events, partial tool calls | `Next`, `Add`, `streamTurn` | interleaved fragments, premature end | the assembled message is the one sent, or the turn fails |
| `tool` policies | none | `Authorize`, `Approve` | an approval after a cancellation | no call runs without its authorization |
| `mcp` | session, process, closed flag | `Connect`, `Reconnect`, `Close`, `Tools`, tool calls; a transport that adds credentials | failing handshakes and closes, old sessions, redirects, rotating tokens | no process is left behind; no credential goes elsewhere |
| `sandbox`, shell tool | capabilities, active commands, closed flag | `New`, `Run`, `Close` | kernels that refuse, `Close` racing `Run`, timeouts, cancellation | commands are confined as announced; kills reach the tree; `Run` returns |
| `audit`, `tracing`, `skill`, `tokenizer`, `guardrail`, file tool | little or none | | | formatting, callbacks, lookups: not modelled |

They interact by calls: `workflow` starts an agent run per task; a run calls
models (which may be wrapped by the resilience layers), tools (which may be
guarded, remote, sandboxed or delegations to other runs), guardrails and a
session; compressors sit between the session and the model.

## 2. The modules

| Module | Models |
|---|---|
| `WorkflowPlan` | plans and `validatePlan`; a task is its position in `Plan.Tasks` |
| `TaskGraph` | the promise of a workflow run, without loop, goroutines and channels |
| `Workflow` | `execute`, `runTask`, `emit`, `Cancel`, the caller's context and reader |
| `MCWorkflow` | plans for TLC |
| `WorkflowProofs` | the theorems about `Workflow` |
| `Transcript` | messages and what a turn is |
| `Conversation` | the promise of running agents over one session |
| `AgentRun` | `RunWithSession`, `loop`, handoffs, guardrails, write-back |
| `MCAgentRun` | agents and model answers for TLC |
| `AgentRunProofs` | the theorems about `AgentRun` |
| `StreamRun` | `RunStream*`, `sendEvent`, `streamDelegatedTool`: goroutines, channels and contexts of a streamed run and of the run it delegates to |
| `StreamRunProofs` | the theorems about `StreamRun` |
| `AtomicSession` | the promise of a session, whatever stores it |
| `SessionStore` | `InMemory`, `FileSession` and the SQLite store, their clients and processes |
| `SessionStoreProofs` | the theorems about `SessionStore` |
| `Resilience` | `Fallback` over `WithRateLimit`, `WithRetry`, `WithTimeout` |
| `MCResilience` | the tutorial's chain for TLC |
| `ResilienceProofs` | the theorems about `Resilience` |
| `ToolPolicy` | what the policies of package `tool` say of a call |
| `McpClient` | the MCP client, its remote tools behind their policy, its HTTP transport |
| `MCMcpClient` | policies for TLC |
| `McpClientProofs` | the theorems about `McpClient` |
| `Sandbox` | construction on three systems, commands, timers, `Close`; the shell tool |
| `SandboxProofs` | the theorems about `Sandbox` |
| `ModelStream` | the SSE decoder, the two stream readers, the accumulator, `streamTurn` |
| `ModelStreamProofs` | the theorems about `ModelStream` |

### Workflow

`pc` is the position of the scheduling loop: `top` (the `for` and the check of
`taskCtx`), `skip`, `admit` (the two inner loops, at position `at`), `wait` (the
receive from `done`), then `finish`, `closing`, `closed`. `cancel_admit` and
`cancel_top` are the points where FailFast sets its flag and cancels. An event
the loop is sending stands in `outbox`, because the send can block and the task
goroutines and the caller go on meanwhile; nothing else happens in the loop until
it is put into `Run.Events` (`log`, of which `unread` are in the channel) or
dropped because the caller's context is done. `state`, `active`, `completed`,
`activeSessions`, `firstErr`, `failFast` are the variables of `execute`;
`resErr` is the `Err` of the results; `cause` is `context.Cause(taskCtx)`.
`proc[t]` is the goroutine of task `t`: it forwards progress events and then
reports on `done`, whose capacity (the number of tasks) never blocks it.

The agent run of a task is external: it produces any number of events up to
`MaxProgress` and ends with or without error, whether or not it was cancelled.
`BuildInput` may fail for the tasks in `plan.builds`. The dependencies of a plan
are sets and the tasks positions, so repeated IDs, which `validatePlan` refuses,
cannot be written.

### AgentRun

`run[r]` is the local state of one run, `session` the messages of the session
store. `pc` follows the code: `new` (before `List`), `compress`, the guardrail
stage `input`, the turn loop `turn`, `chat`, `tools`, the stage `output`,
`persist`, `ended`. `base` is `len(history)` as `persistTurn` gets it, after
compression. A call of the model, a tool, a guardrail or the store is external
and returns any outcome; `CallFails` is the error return of those that fail the
run. The caller may cancel (looked at only at the top of a turn), and may append
the messages of a `MaxTurnsError` (`CarryForward`), as its comment suggests. A
message carries its role, run, turn and position instead of text.

What a request may look like depends on the sliding window: it cuts the history
after a number of messages, wherever that is, and when it falls between an
assistant message and the results of its calls the request has results without a
call (`CutOff`), which providers refuse. `RequestsValid` allows these, at the head
of the history, and no others.

Runs that start from the messages of an earlier result (`RunWithHistory`), usage
totals, hooks and spans are left out.

### StreamRun

A run is a goroutine with a channel. `pc[r]` is its position, `out[r]` the send it
is blocked in: the event, where it goes on when the event is in the channel
(`Put`) and where when its context ended (`Abort`, absent for the two terminal
sends, which are plain). `log[r]` are the events put into the channel, the last
`unread[r]` of them not yet received. There are two runs: the caller's, `root`,
and a `child` that a delegated call starts (`Delegate`, `Spawn`), whose events
the root forwards (`Forward`) or, when it cannot, throws away (`Drain`). The
root's context ends by `Cancel`, the child's with it or by `ToolTimeout`. The
model, tools, guardrails and stores succeed or fail (`Fails`); what they say is
the matter of `AgentRun`. A turn asks for one call; child runs do not delegate.

### SessionStore

One module for the three stores, because their calls have one shape: look at the
context, lock (`Lock`: the handle's mutex, or SQLite's immediate transaction),
read and compute (`Use`), store (`WriteTemp` and `Rename`, or `Commit`), unlock
(`Return`). `kind` says which store it is. An item is its identifier; the `UNIQUE`
constraint and the duplicate check of `readItems` become `IsInjective`. Clients of
a file share one handle, as the tutorial demands, and clients of SQLite are
processes. A storage step may fail (`StorageFails`), a context end between any two
steps, a process die (`Crash`). Items of the v1 format stand for data of an older
version. `KeepsPromises` maps the store to `AtomicSession`, with the moment a call
takes effect where the code has it: the assignment, the rename, the commit.

### Resilience

The chain is any number of candidates. Each is retried outside its timeout with a
policy of its own (`Policies`), as `src/model/retry.go:44-45` asks, and the first
stands behind the limiter, as in `src/docs/tutorial.en.md:574-585`. A provider fails
with any of the statuses, transport failures and undecodable bodies of the
instance, a model of another make with an error of no known kind. `Fallback` joins
the errors; only the last is kept. A chain of no models is left out.

A call's `log` holds its attempts: the candidate, whether the context was alive
and the outcome. The bucket counts ticks, `Period` of which make a token, so that
its arithmetic is exact where the code's is in floating point. The limiter stands
outside the retries: retries are not throttled. A cancelled call may still take
a token, because `Wait` looks at the context only when it must sleep.

### McpClient

`lock` is the client's mutex, held over the handshake and the close as in the
code; tools and pages are fetched without it. A goroutine carries the session it
works with (`mine`) and a process it has taken from the client and must cancel
(`held`). A server process is in `running` until it dies, and in `killed` once its
context is cancelled. Over HTTP every request goes through `RoundTrip`, `Provide`,
`Transmit`; a server may redirect, a token may rotate (`RotateToken`). One header
with one variable stands for the configured headers, and its template is state so
that rendering into the shared header, instead of its clone, could be seen.

### Sandbox

The processes of a command are its root, `kin` (in the group or job) and `stray`
(outside). `caps` is what the sandbox announces, `thread` what its spawn thread is
restricted in, `applied` what a command is under. `timer`, `ctx` and `fired` are
the three parties that race the command: the timer's goroutine, the watcher of
os/exec and the flag `Run` decides by. `snapshot` and `killing` are the loop of
`Close` after it has let the mutex go.

### ModelStream

`wire` is one event, line by line, the server sends next; `told` what it has sent
of `message`. The decoder fills `pending`, a reader turns it into `queue`, the
turn takes events from there. `reader` has the fields of the two readers that
events depend on. A server sends pieces in any interleaving, a responses server
also whole calls, noise, or failures, and the connection is cut after any line or
within one. It is assumed that a server names a call before it sends arguments
for it, and sends its text in fragments. A replayed response
(`NewStreamFromResponse`) is one text event with all of the text and a finish
event, without its calls. The events `streamTurn` sends are those
it receives, in that order; that sends may block is `StreamRun`'s matter, and here
the end of the context is one action (`Abort`).

## 3. The runs

| Run | Instance | Shows |
|---|---|---|
| `workflow` | 3 tasks; 38 plans: no, chained, backward, forked, joined and cyclic dependencies, unknown IDs, shared sessions, both modes, limits -1, 0, 2, 3, some tasks with `BuildInput`; a channel of 2 | all safety properties, and that `Workflow` implements `TaskGraph` |
| `workflow_live` | 4 plans, 1 progress event per task, a channel of 1 | the run ends when its events are read, and when its caller gave up and cancelled; events stay in order with progress |
| `workflow_fail_fast` | as `workflow` | **violated**: FailFast starts tasks after a failure |
| `agent_run` | 2 concurrent runs started with different agents, 3 agents of which one cannot be set up, 2 turns, 6 kinds of answers, a window of 2 | calls and results match in requests, history included, up to the window's cut; guardrails gate, results tell, `AgentRun` implements `Conversation` |
| `agent_run_handoff` | as `agent_run`, only one agent with instructions | **violated**: the write-back is cut at the wrong message |
| `stream_run` | channels of 2, 2 turns of the root, 1 of the child, 1 incremental event per model call | streams end with the right terminal event; a child lives within its call; a delegation is told completely; a run that is read ends |
| `stream_run_abandoned` | as `stream_run`, channels of 1 | **violated**: a cancelled run nobody reads stays blocked |
| `session_store` | 2 clients, 3 calls of 0 or 2 messages, 1 crash; empty, filled and v1 stores | the stores implement `AtomicSession`, clean up and unlock |
| `resilience` | 2 callers, 3 calls, 2 candidates of 2 attempts, a burst of 1; rejected credentials, timeouts, undecodable answers | burst and rate are kept; nobody oversleeps; the attempts follow the rules of the chain |
| `mcp_client` | 2 goroutines, 4 calls, 2 pages, 2 tokens, 6 policies | processes, authorization, credentials |
| `sandbox` | 2 concurrent commands where only groups matter ("other"), 1 on Linux (Landlock none, 3, 4; with and without prlimit) and Windows | confinement, kills, return |
| `model_stream` | messages of up to 2 text fragments and 2 calls of up to 2 argument fragments; both protocols, a replayed and a plain response | the assembled message, the forwarded events, the end |

Three tasks are the least with a chain, a fork and a join, and with a task that
is neither the failed one nor its dependent; a channel of 1 or 2 is full in most
states. `MaxProgress` is 0 in `workflow` because progress events do not touch the
loop; `workflow_live` has them. Two runs interleave in every way at the only
place they share, the session; two turns reach a handoff and back, and the turn
limit. In `stream_run` the root can delegate twice, hand off and run out of turns,
and the events of one child turn are more than a channel takes, so that both
goroutines block in most states. `CHECK_DEADLOCK` is on for `Workflow` and
`AgentRun`, where `Terminated` is the only way to stop; `StreamRun` stops when the
run is over, and `ReadRunEnds` says that it stops nowhere else.

The other runs stop when their clients have made their calls, so
`CHECK_DEADLOCK` is off there except in `resilience`, where time goes on; that no
call stops half-way is `CallsReturn`, `RunsReturn` and `TurnEnds`.
Three calls of two clients are a reader, a writer and a conflicting writer, or a
list and two replaces of what it returned. Three calls against a burst of one make
one caller sleep while the other is admitted or gives up. The failures of
`resilience` are one of each kind the chain tells apart: one that passes, one that
another candidate may not have, one that ends the chain; the caller's own context
adds the raw context errors. Other chains, statuses and causes are the matter of
`ChainFollowsRulesHolds`. Four calls are a connect, a listing, a tool call and anything that can happen to it: the other
goroutine's reconnect or close, a redirect, a second token. Commands share only
`active`, `snapshot` and `closed`, so two of them are needed on one system only
(`Crowded`). Two calls with two fragments each interleave in every way, and a
second one distinguishes order from presence.

In `agent_run` all agents have instructions, so a handoff keeps the number of
leading system messages; `agent_run_handoff` drops just that assumption.

### Fairness

`Workflow` has weak fairness for the loop goroutine and for each task goroutine:
Go schedules every runnable goroutine. It has none for the caller. An agent run
ends eventually, which its turn limit and its models' timeouts give; a run that
never returns would keep the workflow open, in the code too. `StreamRun`
has weak fairness for each run's goroutine, likewise. `ReadRunEnds`
assumes, as its hypothesis, that room in the channel keeps appearing.
`SessionStore` has weak fairness for a call's steps and strong fairness for
`Lock`, because `sync.Mutex` hands itself over to a waiter that has waited long;
SQLite's waiters give up instead. `Sandbox` has weak fairness for the steps of
`Run` and for its timer, none for processes, contexts or callers: a command that
never ends by itself is ended by the timer. `ModelStream` has weak fairness for
the turn, none for the server: `TurnEnds` starts from the end of the stream.
`McpClient` and `Resilience` have none: a handshake, a close or a provider may
block as long as the server does, and a throttled caller may be overtaken for
ever, as in the code.

## 4. Disagreements with the documentation

1. **FailFast** (`src/workflow/workflow.go:23`: "cancels active tasks and skips
   every task not yet started"). When `BuildInput` fails, the admission pass
   continues and starts later tasks of the plan. `FailFastStops` holds: without
   `BuildInput` nothing starts after a failure.
2. **Handoffs and write-back** (`src/agent/session.go:37`, `:56-60`,
   `src/agent/errors.go:16-21`). `persistTurn` and `MaxTurnsError` skip
   `len(history)` messages of a transcript whose prompt a handoff may have added
   or removed. Handing over to an agent without instructions drops the user
   input; handing over from one without stores the target's system prompt.
3. **Abandoned streams** (`src/agent/stream.go:130-133`: "cancel the context to
   abort a run you no longer read"). The terminal event is sent without looking
   at the context, so with a full channel the goroutine stays blocked, its tools
   and session reference with it, until somebody reads.

Further points met while modelling, which the runs do not state as violations:

4. **Switching candidates** (`src/docs/tutorial.en.md:592`: the chain "only switches
   on errors a different backend could fix (429/5xx/timeout/network)", and line
   585). `switchable` (`src/model/fallback.go:41`) stops at invalid requests and
   protocol failures only, so the chain also switches on rejected credentials, which
   the comment of `Fallback` says (lines 10-12), and on errors that are no
   `ModelError`. `ChainFollowsRules` is stated as the code has it.
5. **Contexts' deadlines** (`src/model/timeout.go:11-12`: "the caller's own
   context deadline is never masked"). A caller's deadline is returned as
   `ErrorTimeout` too (line 19). It is not retried only because `Chat` looks at
   the context before the next attempt; `ChainFollowsRules` covers that.
6. **Connect after Close** returns nil when the client was connected
   (`src/mcp/mcp.go:178`), against "it cannot be used after Close" (line 395).
   `ServersAccountedFor` shows that nothing is started or open then.
7. **Close of a sandbox** (`src/sandbox/sandbox.go:292-293`: "Commands started
   afterwards fail"). A `Run` that has passed the check (line 216-220) starts its
   command after `Close`, which then lives until its timeout. On Unix, background
   processes of a command that has ended survive its timeout and `Close`, although
   `src/docs/tutorial.en.md:705` has `Close` kill any process tree still running. And
   `ErrTimeout` may be returned for a command that ended just before the kill.
   `KillsReachTheTree` is stated accordingly: about commands found by `Close`, and
   about groups of commands whose kill was decided. It says nothing of a command
   that starts after `Close`, and nothing of the moment between `fired.Store(true)`
   and `s.kill(cmd)` in the timer (lines 266-267): a command that ends by itself just
   then makes `Run` return `ErrTimeout` before the kill, although lines 51-52 promise
   that the tree "has already been killed".
8. **Windows without a job**: when a job cannot be assigned
   (`src/sandbox/windows.go:46`) only the direct child is killed although
   `Capabilities.ProcessTree` is true; the code says so itself (lines 84-85).
   `Confined` speaks of jobs there.
9. **Replayed responses**: `NewStreamFromResponse` (`src/model/stream.go:102`)
   drops the tool calls of the response, so a model wrapped by `AsStream` cannot
   call tools in a streamed run. `TurnTellsTheMessage` exempts them by name.
10. **Clean ends** (`src/model/openai/stream.go:35-37`): a connection cut within
    `[DONE]`, after a `finish_reason`, fails although the stream had finished;
    a `response.incomplete` event is not handled, so such a response is a
    protocol error.
11. **Cancelled workflows** (`src/workflow/workflow.go:341`): the terminal event
    may be dropped when the caller's context is cancelled, against
    `src/docs/tutorial.en.md:408`.

Some properties are weaker evidence than their names suggest. `SessionExclusive`
follows from `DependencyOrder` for plans `validatePlan` accepts, which orders the
tasks of a session; its mutant drops the check of the session together with that of
the dependencies, so `src/workflow/workflow.go:231` alone is not shown to be needed.
The uniqueness of identifiers in `SessionStore`'s `TypeOK` would survive reading the
next index outside SQLite's transaction; `KeepsPromises` would not. A message that
was complete before the connection was cut may still fail (point 10).

## 5. The proofs

TLC checks each property on one small instance; the theorems below state it for
every value of the constants, from the named assumptions, which TLC evaluates in
every run. Each proof module strengthens the properties to an inductive invariant
(called `IInv` unless said otherwise), proves that `Init` implies it and that each
action keeps each of its parts, and derives the properties from it.

### Workflow

For every number of tasks, set of plans, channel capacity and bound on progress
events (`PlanAssumption`, `WorkflowAssumption`):

| Theorem | Says |
|---|---|
| `TypeCorrect` | `Spec => []TypeOK` |
| `BookkeepingCorrect` | the counters and busy sessions agree with the task states |
| `ParallelLimitHolds`, `DependencyOrderHolds`, `SessionExclusiveHolds` | the limits on what runs together |
| `EndsOnceHolds` | a task ends once |
| `SkipsExactlyDependentsHolds` | Continue skips exactly the dependents of failures |
| `ErrorsExplainedHolds` | the error of a run is explained by its tasks, its cancellation or its plan; "no runnable tasks" never is one |
| `FailFastStopsHolds` | in FailFast, without `BuildInput`, nothing starts after a failure |
| `EventsTellTheRunHolds` | a run whose caller stays tells each task's story, in order, and ends with its outcome |
| `KeepsPromisesHolds` | `Workflow` implements `TaskGraph` |

`IInv` is `TypeOK`; `LoopInv`, what the loop knows (the counters
count, the busy sessions are those of the running tasks and no two running tasks
share one, a task that is running or ended well has all its dependencies
succeeded, and the plan was accepted once the loop is working); and `ProcInv`, how
goroutines and loop agree (who is in `done` is running and has ended, exactly
once; a task that is running but whose goroutine has not begun has its started
event in `outbox`). `DependencyOrder` follows because the succeeded tasks form a
set closed under dependencies, which contains the least one.

`PromiseInv` adds why a task is skipped (`SkipReason`), that an admission
pass leaves nothing admissible behind it (`PassDone`), that a cancellation has an
error (`CancelHasError`) and that the loop ends with everything ended
(`AllEnded`). For the reported error, `ErrorInv` adds that each first error has an
explanation (`Explained`) and that there is one once anything failed or was
skipped (`TroubleTold`). The step that could break it is `IdleStuck`: with nothing
active and nothing admissible, an acyclic plan has a pending task whose
dependencies are none of them pending, so one has failed or was skipped
(`StuckHasError`), and the loop's own error comes too late to be the first.
`FailFastInv` says that without `BuildInput` no admission pass is under way when a
task fails. For the events, `TellingInv` says what the stream has told of each task
(`TaskTold`: nothing before its first event, its start and progress while it runs,
its last event in the stream or in `outbox`) and of the run (`RunTold`); `Refused`
adds that a run whose plan was refused has started nothing, so no goroutine is left
to send after the terminal event. The refinement maps the admission, skipping and completion steps to
`TaskGraph`'s, cancellations to `Stop` or a stutter, and the rest to stutters.

### AgentRun

For every number of runs, agents, handoffs, guardrails, answers, turns and every
window of the compressor (`AgentRunAssumption`, which asks of names only that
agents, tools and outputs can be told apart):

| Theorem | Says |
|---|---|
| `TypeCorrect` | `Spec => []TypeOK` |
| `GuardrailsGateHolds` | nothing passes a guardrail that has not judged it; errors come before tripwires |
| `ResultTellsHolds` | transfers, final agent and tool errors agree with the messages produced |
| `RequestsValidHolds` | `HandoffsKeepPrompt => (Spec => []RequestsValid)`: the prompt, then history and turn whose calls and results match, up to results the window cut off |
| `KeepsPromisesHolds` | `HandoffsKeepPrompt => (Spec => KeepsPromises)`: the runs implement `Conversation` |

`HandoffsKeepPrompt` (no agent hands over to one that differs from it in having
instructions) is not a convenience: without it the last two are false of the code,
which section 4 reports. `agent_run_handoff` shows it of the write-back; in the same
instance with both runs started with the agent without instructions, TLC finds
`RequestsValid` violated too, because the second run's request is headed by the
prompt the first one stored. The hypothesis holds in `agent_run`.

The invariants speak of one run at a time, as predicates of its local state. For
the first three: `StageInv` (what a run may hold at each point of the code),
`FreshInv` (a run has not heard itself before its turn), `GateInv` (the verdicts
of the stages it is past), and `SessionInv`, the only relation between runs: all
that is in the session or heard from it comes from runs that are over. Without
`SessionInv` a run could take another's messages for its own. `ResultTells` needs
`TellInv`, which counts handoffs and errors among the run's own messages all
along; a handoff shifts their positions when it adds or drops a system prompt,
so the counts are carried over by a bijection between finite sets. Under the
hypothesis, `TurnsInv` adds `LayoutInv` (prompt, history, then the turn, from
`base` on), `TurnInv` (the turn is one `Conversation` allows but for the calls in
progress, numbered as the loop counts) and `SessionPlain` (no prompt in the
session). That calls and results match beyond the run's own turn is `PairedInv`:
every message is `Tidy` in the session, in every history (`HistoryInv`) and in every
turn. A result belongs to the call some places before it, so this survives moving
messages (`TidyShift`, for prompts that are put in front or replaced) and joining
two tidy lists (`TidyJoin`, for history and turn, and for the write-back to the
session); only the compressor leaves results without calls, at the head, and since
the write-back starts after the history they never reach the session. The
compressor's case in `TurnsInv` is a choice of a cut, found with the least
element of a set of naturals (`LeastNatural`).

### StreamRun

For every channel capacity, limit of turns and of incremental events
(`StreamAssumption`): `TypeCorrect`; `EndsWithOutcomeHolds`, that a closed stream
has one terminal event, the last, which agrees with the result;
`ChildWithinCallHolds`, that a delegated run lives within the call that started
it; and `DelegationToldHolds`, that the stream of a run that is not cancelled tells
a delegation whole and in order. `IInv` has `LegInv`, from where a send can begin and where it leads;
`TurnInv`, that a run within a turn has not reached its limit; `SendInv` and
`EndInv`, that only the last send carries a terminal event and that none was sent
before it; and `ChildInv`, that outside `forward` and `drain` the child has ended
and its channel is empty, which makes the second delegation start afresh. What a
delegation told so far is `Copied`: the stream has, from `began` on, the start of
the task and the events to forward among the first `Seen` of the child's, in order
and with nothing between. `TellingInv` says so at each point of the delegation. The
place of an event is a count (`Own`), so the lemmas on `Copied` are about the
cardinality of sets of positions; a child goes on sending meanwhile, which adds to
its stream beyond what was seen.

### SessionStore

For every set of clients and sizes and every bound on calls and crashes
(`StoreAssumption`): `TypeCorrect`; `TempFilesAccountedForHolds`; and
`KeepsPromisesHolds`, that the store in memory, the file and the SQLite store
implement `AtomicSession`, through failing storage, cancelled calls and crashes.
`IInv` has `ReqInv`, what calls ask; `FreshInv`, that the identifiers a pending
call brings are in no other call and not in the session, without which an append
could repeat one; `FormatInv`, where items of the v1 format cannot be; `WriteInv`,
that a call under the lock is about to store what follows from the content as it
still is, which makes the rename and the commit atomic steps; and `TempInv`. The
refinement maps the assignment, the rename and the commit to the moment the call
takes effect, ends of calls to ends, and the rest to stutters.

### Resilience

For any number of callers and calls, every burst and rate, and every chain with any
policies
(`ResilienceAssumption`): `BurstRespectedHolds` and `NoOversleepingHolds` of the
bucket, `ChainFollowsRulesHolds` of the chain. `BurstRespected` is not inductive:
`Conserved` adds that what was taken since an admission and what is left came
from a full bucket and the refill since, `Spaced` is the same between two
admissions; both are sums, multiples of `Period`. The second part, `ChainInv`, is
about one call: its attempts so far are a chain (`Chained`), in the order of the
candidates (`Ordered`), its context does not come back to life (`StillLive`), the
retry loop's counter is the number of attempts of its candidate in the log
(`TriedSoFar`), and where the call stands agrees with its last
attempt (`BeforeInv`, `AttemptInv`, `FailedInv`, `ReturnInv`). The two parts share
no variable but the callers' positions, so each is proved without the other.

### McpClient

For every set of goroutines, tools and policies, and every bound on calls, pages
and tokens (`McpAssumption`):

| Theorem | Says |
|---|---|
| `PolicyGatesHolds` | the server executes only calls the policy lets through |
| `CredentialsGuardedHolds` | every request goes to its origin with its own value |
| `ServersAccountedForHolds` | at most one live server process, owned, none after `Close` |

`IInv` has the types; `ReturnInv`, that a request goes back to the method that
sent it; `AuthorizedInv`, that a call under way has its authorization, which
carries it from the guard to the server; `OriginInv`, that a request has passed
the origin check once it is past the first look at its context; `MutexInv`, that
the lock is held through connect, reconnect and close, the handshake included; and
`ProcessInv`, who owns the process at each of these points. A goroutine that
replaces the session has taken both out of the client (`Replacing`), one that
connects has put only the process in (`Connecting`); without these
`ServersAccountedFor` is not inductive, because a step could lose either.

### Sandbox

For every set of calls, systems and versions of Landlock (`SandboxAssumption`):
`ConfinedHolds` and `KillsReachTheTreeHolds`. `IInv` has `CapsInv`, that what the
sandbox claims is provided by its spawn thread or by jobs; `LifeInv`, that a call
has no processes before its command; `AppliedInv`, that the processes are under
the restrictions of the thread or the job; and `KillInv`, that a kill that was due
is done or still to come, through the three parties that may order it.

### ModelStream

For every finite set of calls, numbers of text and argument fragments, both
protocols, and any place the connection is cut at (`StreamAssumption`):

| Theorem | Says |
|---|---|
| `InductiveInvariant` | `Spec => []IInv`: nothing is lost, doubled or reordered between server and turn |
| `ForwardedAsSentHolds` | what is forwarded is the beginning of the message, calls with their names |
| `TurnTellsTheMessageHolds` | a turn that ends well has the whole message, its calls sorted, and one finish event; one that fails was broken |

Neither property is inductive: both speak of the turn's end of the pipe. `IInv`
compares what the server has told with the message as it will be once the queued
events are received (`Ahead`). They differ by the piece `c` in flight between
server and reader, on the wire or in the decoder (`Coming`, `InFlight`), and
exactly by it (`Balance`: one text fragment, or the name, a fragment or the item
of one call). A cut may lose that piece, which `Lost` admits only when the server
was not done and the stream has ended; a stream that finishes was not cut there,
so a turn that ends well has a `Balance` with nothing in flight. What makes the
complete item of a call harmless is part of it: of a call the server sends in one
piece all or nothing was delivered before, and the reader's sets are those of what
is ahead (`Known`). Then an item is forwarded as its name, its arguments, both or
nothing (`ItemDelivery`). The queue has at most two events, and the finish event
is the last of them (`Flows`).

`HandleReads` is the lemma on `handleChunk` and `handleEvent`: reading any chunk
turns the difference into events. The steps of the decoder, of `Receive` and of
the server follow from it with a lemma each. That the calls come out in order
needs that a sorted list of a finite set of numbers exists at all; `InOrder` finds
it as the inverse of the rank of an element among the others, which is injective,
hence onto the positions there are.

### Only model-checked

- Liveness: `ReadRunEnds`, `AbandonedRunEnds`, `CallsReturn`, `RunsReturn`,
  `TurnEnds`. Fairness and `ENABLED` are outside the prover's reach.
- `AgentRun` without `HandoffsKeepPrompt` is false for two properties, see above.

## 6. Plan

1. Compose `ModelStream` with `StreamRun` (the turn's blocking sends), and
   `ToolPolicy` with delegation.
2. A model of message contents for `Summarizer`.

## 7. Not modelled

- `Summarizer`: its cache is valid when one message has the fingerprint it
  remembers (`src/session/summarize.go:112`), which only a model of message
  contents could contradict.
- Two handles on one session file, which the tutorial forbids, and the loss of
  power, against which the directory is not synced.
- Usage totals, hooks, spans, structured output; the encoding of requests.
- Refusals before anything happens: plans that are empty, have empty or duplicate
  IDs, no agent or a repeated dependency (`src/workflow/workflow.go:408-444`), agents
  `validateAgent` refuses (`src/agent/runner.go:107`), guardrails without a function
  (`src/agent/guardrail.go:85-87`, `:102-104`), chains without models
  (`src/model/fallback.go:17-22`).
- A temporary file that cannot be removed (`src/session/file.go:183`), and the time
  between its creation (line 175) and its being written and synced: it exists in the
  model once it is complete. A released job (`src/sandbox/windows.go:102-110`) is still
  a job in the model; what a late kill would reach then is gone anyway.
- Terminators of lines, the byte order mark and events of several data lines in
  the SSE decoder; header syntax; paths, environments and output of commands.
- The file tool, ready-made guardrails, the tokenizer, schema reflection, audit
  and trace formatting, skills loading, examples and test support, which have no
  control a property could be about.
