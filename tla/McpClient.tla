------------------------------ MODULE McpClient -------------------------------
(***************************************************************************)
(* The MCP client (src/mcp): goroutines connect, reconnect and close one   *)
(* client, list its tools and run them.  A session over stdio has a server *)
(* process of its own; over HTTP every request goes through the transport  *)
(* that adds the credentials.  Remote tools are guarded by the client's    *)
(* policy.                                                                 *)
(*                                                                         *)
(* The MCP protocol and the server are external: a request succeeds, fails *)
(* or is redirected.  Sessions are numbered in the order they are begun.   *)
(***************************************************************************)
EXTENDS Naturals, Sequences, ToolPolicy

CONSTANTS
  Goroutines,
  NoOne,        \* nobody holds the client's mutex
  ToolNames,    \* of the server
  Policies,     \* the policies a client may be configured with
  MaxCalls,     \* bound: calls of all goroutines
  MaxPages,     \* bound: pages of the server's tool list
  MaxTokens     \* bound: values the token takes

ASSUME McpAssumption ==
  /\ NoOne \notin Goroutines
  /\ MaxCalls \in Nat /\ MaxPages \in Nat \ {0} /\ MaxTokens \in Nat \ {0}

VARIABLES
  transport, policy,    \* the configuration
  lock, session, procCancel, closed,    \* the client
  begun, open,          \* sessions begun, and those that are open
  running, killed,      \* server processes, and those whose context is cancelled
  pc, after, reply,     \* a goroutine, where its request returns to, and how
  mine, held,           \* the session it works with, a process it must cancel
  tools, name, page,    \* the session of the tools it holds, one of them, a page
  approval,             \* what the approver said of its call
  ctxDone,
  origin, given,        \* of its HTTP request: where to, and the value provided
  token, templates,     \* the current token, and the header with its variable
  sent, served,         \* the last HTTP request sent, the last call executed
  calls

config == <<transport, policy>>
client == <<lock, session, procCancel, closed>>
servers == <<begun, open, running, killed>>
locals == <<mine, held, tools, name, page, approval>>
http == <<origin, given, token, templates, sent>>
vars == <<config, client, servers, pc, after, reply, locals, ctxDone, http, served, calls>>

None == 0
Nothing == [is |-> "nothing"]
(* The value of a token is its number, Empty, or still to be rendered.      *)
Empty == 0
Template == MaxTokens + 1

Init ==
  /\ transport \in {"stdio", "http"}
  /\ policy \in Policies
  /\ lock = NoOne /\ session = None /\ procCancel = None /\ closed = FALSE
  /\ begun = 0 /\ open = {} /\ running = {} /\ killed = {}
  /\ pc = [g \in Goroutines |-> "idle"]
  /\ after = [g \in Goroutines |-> "idle"]
  /\ reply = [g \in Goroutines |-> "none"]
  /\ mine = [g \in Goroutines |-> None] /\ held = [g \in Goroutines |-> None]
  /\ tools = [g \in Goroutines |-> None]
  /\ name = [g \in Goroutines |-> "none"]
  /\ page = [g \in Goroutines |-> 0]
  /\ approval = [g \in Goroutines |-> "none"]
  /\ ctxDone = [g \in Goroutines |-> FALSE]
  /\ origin = [g \in Goroutines |-> "none"] /\ given = [g \in Goroutines |-> Empty]
  /\ token = 1 /\ templates = Template
  /\ sent = Nothing /\ served = Nothing
  /\ calls = 0

-----------------------------------------------------------------------------
(* Helpers.                                                                *)

Goto(g, location) == pc' = [pc EXCEPT ![g] = location]

(* The call of g returns.                                                  *)
Finish(g) ==
  /\ Goto(g, "idle")
  /\ after' = [after EXCEPT ![g] = "idle"]
  /\ reply' = [reply EXCEPT ![g] = "none"]
  /\ mine' = [mine EXCEPT ![g] = None]
  /\ held' = [held EXCEPT ![g] = None]
  /\ name' = [name EXCEPT ![g] = "none"]
  /\ page' = [page EXCEPT ![g] = 0]
  /\ approval' = [approval EXCEPT ![g] = "none"]
  /\ ctxDone' = [ctxDone EXCEPT ![g] = FALSE]
  /\ origin' = [origin EXCEPT ![g] = "none"]
  /\ given' = [given EXCEPT ![g] = Empty]

Unlock == lock' = NoOne

(* Send a request to the session mine[g], and go on at location.           *)
Request(g, location) ==
  /\ Goto(g, IF transport = "http" THEN "roundtrip" ELSE "exchange")
  /\ after' = [after EXCEPT ![g] = location]
  /\ origin' = [origin EXCEPT ![g] = "own"]

Answer(g, how) ==
  /\ Goto(g, after[g])
  /\ reply' = [reply EXCEPT ![g] = how]

-----------------------------------------------------------------------------
(* Calls.                                                                  *)

Call(g) ==
  /\ pc[g] = "idle"
  /\ calls < MaxCalls
  /\ calls' = calls + 1
  /\ \/ \E op \in {"connect", "reconnect", "close"} :
          /\ lock = NoOne /\ lock' = g
          /\ Goto(g, op)
          /\ UNCHANGED name
     \/ /\ Goto(g, "tools")
        /\ UNCHANGED <<lock, name>>
     \/ /\ tools[g] # None
        /\ \E t \in ToolNames : name' = [name EXCEPT ![g] = t]
        /\ Goto(g, "run")
        /\ UNCHANGED lock
  /\ UNCHANGED <<config, session, procCancel, closed, servers, after, reply, mine, held,
                 tools, page, approval, ctxDone, http, served>>

Cancel(g) ==
  /\ pc[g] # "idle"
  /\ ~ctxDone[g]
  /\ ctxDone' = [ctxDone EXCEPT ![g] = TRUE]
  /\ UNCHANGED <<config, client, servers, pc, after, reply, locals, http, served, calls>>

(* connectLocked, up to the handshake.                                     *)
Connect(g) ==
  /\ pc[g] = "connect"
  /\ IF session # None \/ closed
       THEN /\ Finish(g) /\ Unlock
            /\ UNCHANGED <<procCancel, begun, running>>
       ELSE /\ begun' = begun + 1
            /\ mine' = [mine EXCEPT ![g] = begun + 1]
            /\ IF transport = "stdio"
                 THEN procCancel' = begun + 1 /\ running' = running \cup {begun + 1}
                 ELSE UNCHANGED <<procCancel, running>>
            /\ Request(g, "handshake")
            /\ UNCHANGED <<lock, reply, held, name, page, approval, ctxDone, given>>
  /\ UNCHANGED <<config, session, closed, open, killed, tools, token, templates, sent,
                 served, calls>>

(* Variant: the process of a failed handshake is left to itself.           *)
HandshakeUncancelled(g) ==
  /\ pc[g] = "handshake"
  /\ IF reply[g] = "ok"
       THEN /\ session' = mine[g] /\ open' = open \cup {mine[g]}
            /\ UNCHANGED procCancel
       ELSE /\ procCancel' = None
            /\ UNCHANGED <<session, open>>
  /\ Finish(g) /\ Unlock
  /\ UNCHANGED <<config, closed, begun, running, killed, tools, token, templates, sent,
                 served, calls>>

Handshake(g) ==
  /\ pc[g] = "handshake"
  /\ IF reply[g] = "ok"
       THEN /\ session' = mine[g] /\ open' = open \cup {mine[g]}
            /\ UNCHANGED <<procCancel, killed>>
       ELSE /\ killed' = killed \cup ({procCancel} \ {None})
            /\ procCancel' = None
            /\ UNCHANGED <<session, open>>
  /\ Finish(g) /\ Unlock
  /\ UNCHANGED <<config, closed, begun, running, tools, token, templates, sent, served, calls>>

(* The session and the process are the goroutine's while it closes them.   *)
Reconnect(g) ==
  /\ pc[g] = "reconnect"
  /\ IF closed
       THEN Finish(g) /\ Unlock /\ UNCHANGED <<session, procCancel>>
       ELSE /\ mine' = [mine EXCEPT ![g] = session]
            /\ held' = [held EXCEPT ![g] = procCancel]
            /\ session' = None /\ procCancel' = None
            /\ Goto(g, "reclosing")
            /\ UNCHANGED <<lock, after, reply, name, page, approval, ctxDone, origin, given>>
  /\ UNCHANGED <<config, closed, servers, tools, token, templates, sent, served, calls>>

(* Closing the old session may fail; its process is cancelled either way.  *)
Reclose(g) ==
  /\ pc[g] = "reclosing"
  /\ open' = open \ {mine[g]}
  /\ killed' = killed \cup ({held[g]} \ {None})
  /\ \/ /\ Goto(g, "connect")
        /\ held' = [held EXCEPT ![g] = None]
        /\ UNCHANGED <<lock, after, reply, mine, name, page, approval, ctxDone, origin, given>>
     \/ mine[g] # None /\ Finish(g) /\ Unlock
  /\ UNCHANGED <<config, session, procCancel, closed, begun, running, tools, token, templates,
                 sent, served, calls>>

Close(g) ==
  /\ pc[g] = "close"
  /\ IF closed THEN Finish(g) /\ Unlock
     ELSE /\ Goto(g, "closing")
          /\ UNCHANGED <<lock, after, reply, mine, held, name, page, approval, ctxDone,
                         origin, given>>
  /\ closed' = TRUE
  /\ UNCHANGED <<config, session, procCancel, servers, tools, token, templates, sent, served, calls>>

(* The session is closed but not forgotten.                                *)
CloseSession(g) ==
  /\ pc[g] = "closing"
  /\ open' = open \ {session}
  /\ killed' = killed \cup ({procCancel} \ {None})
  /\ Finish(g) /\ Unlock
  /\ UNCHANGED <<config, session, procCancel, closed, begun, running, tools, token, templates,
                 sent, served, calls>>

(* The session is read under the mutex, the pages are fetched without it.  *)
Tools(g) ==
  /\ pc[g] = "tools"
  /\ lock = NoOne
  /\ IF session = None THEN Finish(g)
     ELSE /\ mine' = [mine EXCEPT ![g] = session]
          /\ page' = [page EXCEPT ![g] = 1]
          /\ Request(g, "listed")
          /\ UNCHANGED <<reply, held, name, approval, ctxDone, given>>
  /\ UNCHANGED <<config, client, servers, tools, token, templates, sent, served, calls>>

Listed(g) ==
  /\ pc[g] = "listed"
  /\ \/ /\ reply[g] = "failed"
        /\ Finish(g)
        /\ UNCHANGED tools
     \/ /\ reply[g] = "ok"
        /\ tools' = [tools EXCEPT ![g] = mine[g]]
        /\ Finish(g)
     \/ /\ reply[g] = "ok" /\ page[g] < MaxPages
        /\ page' = [page EXCEPT ![g] = @ + 1]
        /\ Request(g, "listed")
        /\ UNCHANGED <<reply, mine, held, name, tools, approval, ctxDone, given>>
  /\ UNCHANGED <<config, client, servers, token, templates, sent, served, calls>>

-----------------------------------------------------------------------------
(* A tool call.                                                            *)

SendCall(g) == mine' = [mine EXCEPT ![g] = tools[g]] /\ Request(g, "called")

(* The guard asks the policy; a policy that asks an approver looks at the  *)
(* context first.                                                          *)
Authorize(g) ==
  /\ pc[g] = "run"
  /\ LET verdict == Verdict(policy, name[g])
     IN  \/ /\ verdict = "allow"
            /\ SendCall(g)
            /\ UNCHANGED <<reply, held, name, page, approval, ctxDone, given>>
         \/ /\ verdict = "deny" \/ (verdict = "ask" /\ ctxDone[g])
            /\ Finish(g)
         \/ /\ verdict = "ask" /\ ~ctxDone[g]
            /\ Goto(g, "asking")
            /\ UNCHANGED <<after, reply, mine, held, name, page, approval, ctxDone, origin, given>>
  /\ UNCHANGED <<config, client, servers, tools, token, templates, sent, served, calls>>

Approvals == {"approved", "denied", "failed"}

(* Variant: an approval counts even if it comes after the cancellation.    *)
ApproverAnswersLate(g) ==
  /\ pc[g] = "asking"
  /\ \E answer \in Approvals :
       IF answer = "approved"
         THEN /\ approval' = [approval EXCEPT ![g] = IF ctxDone[g] THEN "late" ELSE answer]
              /\ SendCall(g)
              /\ UNCHANGED <<reply, held, name, page, ctxDone, given>>
         ELSE Finish(g)
  /\ UNCHANGED <<config, client, servers, tools, token, templates, sent, served, calls>>

(* The context may have been cancelled while the decision was pending.     *)
ApproverAnswers(g) ==
  /\ pc[g] = "asking"
  /\ \E answer \in Approvals :
       IF answer = "approved" /\ ~ctxDone[g]
         THEN /\ approval' = [approval EXCEPT ![g] = answer]
              /\ SendCall(g)
              /\ UNCHANGED <<reply, held, name, page, ctxDone, given>>
         ELSE Finish(g)
  /\ UNCHANGED <<config, client, servers, tools, token, templates, sent, served, calls>>

(* The tool's error or its flattened result goes to the caller.            *)
Called(g) ==
  /\ pc[g] = "called"
  /\ Finish(g)
  /\ UNCHANGED <<config, client, servers, tools, token, templates, sent, served, calls>>

-----------------------------------------------------------------------------
(* Requests.                                                               *)

(* The server executes a call of an open session.                          *)
Execute(g) ==
  IF after[g] = "called"
    THEN served' = [is |-> "call", tool |-> name[g], approval |-> approval[g]]
    ELSE UNCHANGED served

Reached(g) == mine[g] \in open \/ after[g] = "handshake"

(* Over stdio: the request reaches a live process, or fails.               *)
Exchange(g) ==
  /\ pc[g] = "exchange"
  /\ \/ Reached(g) /\ mine[g] \in running /\ Execute(g) /\ Answer(g, "ok")
     \/ Reached(g) /\ mine[g] \in running /\ Execute(g) /\ Answer(g, "failed")
     \/ Answer(g, "failed") /\ UNCHANGED served
  /\ UNCHANGED <<config, client, servers, after, locals, ctxDone, http, calls>>

(* Variant: the credentials follow a redirect anywhere.                    *)
RoundTripAnywhere(g) ==
  /\ pc[g] = "roundtrip"
  /\ IF ctxDone[g]
       THEN Answer(g, "failed")
       ELSE Goto(g, "provider") /\ UNCHANGED reply
  /\ UNCHANGED <<config, client, servers, after, locals, ctxDone, http, served, calls>>

(* A request to another origin, or under a done context, is refused.       *)
RoundTrip(g) ==
  /\ pc[g] = "roundtrip"
  /\ IF origin[g] # "own" \/ ctxDone[g]
       THEN Answer(g, "failed")
       ELSE Goto(g, "provider") /\ UNCHANGED reply
  /\ UNCHANGED <<config, client, servers, after, locals, ctxDone, http, served, calls>>

(* The provider fails, or supplies an empty value or the current token.    *)
Provide(g) ==
  /\ pc[g] = "provider"
  /\ \/ Answer(g, "failed") /\ UNCHANGED given
     \/ /\ \E value \in {Empty, token} : given' = [given EXCEPT ![g] = value]
        /\ Goto(g, "transmit")
        /\ UNCHANGED reply
  /\ UNCHANGED <<config, client, servers, after, locals, ctxDone, origin, token, templates,
                 sent, served, calls>>

RotateToken ==
  /\ token < MaxTokens
  /\ token' = token + 1
  /\ UNCHANGED <<config, client, servers, pc, after, reply, locals, ctxDone, origin, given,
                 templates, sent, served, calls>>

(* renderHeaderTemplate: an empty value is an error.                       *)
Rendered(template, value) == IF template = Template THEN value ELSE template

(* Clone the headers, render them for this request, look at the context    *)
(* again, and hand the request to the base transport: the server executes  *)
(* it, redirects it, or it fails.                                          *)
Transmit(g) ==
  /\ pc[g] = "transmit"
  /\ IF Rendered(templates, given[g]) = Empty \/ ctxDone[g]
       THEN Answer(g, "failed") /\ UNCHANGED <<origin, sent, served>>
       ELSE /\ sent' = [is |-> "request", to |-> origin[g], given |-> given[g],
                        header |-> Rendered(templates, given[g])]
            /\ \/ /\ Reached(g) /\ origin[g] = "own"
                  /\ Execute(g)
                  /\ \E how \in {"ok", "failed"} : Answer(g, how)
                  /\ UNCHANGED origin
               \/ Answer(g, "failed") /\ UNCHANGED <<origin, served>>
               \/ /\ origin' = [origin EXCEPT ![g] = "other"]
                  /\ Goto(g, "roundtrip")
                  /\ UNCHANGED <<reply, served>>
  /\ UNCHANGED <<config, client, servers, after, locals, ctxDone, given, token, templates, calls>>

(* A process ends: by itself, because its input was closed, or killed.     *)
Dies(s) ==
  /\ s \in running
  /\ running' = running \ {s}
  /\ UNCHANGED <<config, client, begun, open, killed, pc, after, reply, locals, ctxDone,
                 http, served, calls>>

Next ==
  \/ RotateToken
  \/ \E s \in running : Dies(s)
  \/ \E g \in Goroutines :
       \/ Call(g) \/ Cancel(g) \/ Connect(g) \/ Handshake(g) \/ Reconnect(g) \/ Reclose(g)
       \/ Close(g) \/ CloseSession(g) \/ Tools(g) \/ Listed(g)
       \/ Authorize(g) \/ ApproverAnswers(g) \/ Called(g)
       \/ Exchange(g) \/ RoundTrip(g) \/ Provide(g) \/ Transmit(g)

Spec == Init /\ [][Next]_vars

-----------------------------------------------------------------------------
(* Properties.                                                             *)

(* A server process that is not being terminated belongs to the client, or *)
(* to the goroutine replacing it: at most one at a time, none once the     *)
(* client is closed, however connects, reconnects and closes overlap and   *)
(* fail.  The process of the current session can be terminated.            *)
ServersAccountedFor ==
  /\ running \ killed \subseteq {procCancel} \cup {held[g] : g \in Goroutines}
  /\ Cardinality(running \ killed) <= 1
  /\ (closed /\ lock = NoOne) => running \subseteq killed /\ open = {}
  /\ (transport = "stdio" /\ session # None) => procCancel = session

(* The server executes no call the policy denies, and none that needs an   *)
(* approval without one given while the caller still wanted the call.      *)
PolicyGates ==
  served # Nothing =>
    \/ Verdict(policy, served.tool) = "allow"
    \/ /\ Verdict(policy, served.tool) = "ask"
       /\ served.approval = "approved"

(* Every request sent goes to the configured origin and carries the value  *)
(* the provider supplied for it: no credential follows a redirect, is      *)
(* incomplete, or is that of an earlier request.                           *)
CredentialsGuarded ==
  sent # Nothing =>
    sent.to = "own" /\ sent.header = sent.given /\ sent.given \in 1..token
=============================================================================
