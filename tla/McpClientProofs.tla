--------------------------- MODULE McpClientProofs ----------------------------
(***************************************************************************)
(* Proofs about the MCP client: for every number of goroutines, set of     *)
(* tools and policies, and bounds.                                         *)
(***************************************************************************)
EXTENDS McpClient, FiniteSetTheorems, TLAPS

(* Where a goroutine is while a request is under way, where the request    *)
(* returns to, and where the goroutine holds the mutex.                    *)
Requesting == {"exchange", "roundtrip", "provider", "transmit"}
Returns == {"handshake", "listed", "called"}
Critical == {"connect", "reconnect", "reclosing", "close", "closing"}
Locations == Requesting \cup Returns \cup Critical \cup {"idle", "tools", "run", "asking"}

SharedTypes ==
  /\ lock \in Goroutines \cup {NoOne}
  /\ session \in Nat /\ procCancel \in Nat /\ closed \in BOOLEAN
  /\ begun \in Nat /\ open \subseteq Nat /\ running \subseteq Nat
  /\ token \in Nat \ {0} /\ templates = Template

CallTypes ==
  /\ pc \in [Goroutines -> Locations]
  /\ after \in [Goroutines -> Returns \cup {"idle"}]
  /\ name \in [Goroutines -> ToolNames \cup {"none"}]
  /\ approval \in [Goroutines -> Approvals \cup {"none"}]

ValueTypes ==
  /\ mine \in [Goroutines -> Nat] /\ held \in [Goroutines -> Nat] /\ tools \in [Goroutines -> Nat]
  /\ origin \in [Goroutines -> {"none", "own", "other"}]
  /\ given \in [Goroutines -> 0..token]

TypeInv == SharedTypes /\ CallTypes /\ ValueTypes

(* A request returns to where its goroutine sent it from.                  *)
ReturnInv ==
  \A g \in Goroutines :
    /\ after[g] # "idle" => pc[g] \in Requesting \cup {after[g]}
    /\ pc[g] \in Returns => after[g] = pc[g]

(* A call is on its way only with its authorization.                       *)
Authorized(tool, answer) ==
  \/ Verdict(policy, tool) = "allow"
  \/ Verdict(policy, tool) = "ask" /\ answer = "approved"

AuthorizedInv ==
  /\ \A g \in Goroutines :
       /\ after[g] = "called" => Authorized(name[g], approval[g])
       /\ pc[g] = "asking" => Verdict(policy, name[g]) = "ask"
  /\ served # Nothing => Authorized(served.tool, served.approval)

(* Only a request to the client's own origin gets as far as its headers.   *)
OriginInv ==
  /\ \A g \in Goroutines : pc[g] \in {"provider", "transmit"} => origin[g] = "own"
  /\ CredentialsGuarded

(* Who holds the mutex, and what it knows of the processes and sessions.   *)
MutexInv ==
  \A g \in Goroutines :
    pc[g] \in Critical \/ after[g] = "handshake" => lock = g

(* While a goroutine connects, only the process it started is running ...  *)
Connecting(g) ==
  /\ ~closed /\ session = None
  /\ mine[g] # None
  /\ procCancel = IF transport = "stdio" THEN mine[g] ELSE None

(* ... and while it replaces the session, it alone holds the old process.  *)
Replacing(g) ==
  /\ ~closed /\ session = None /\ procCancel = None
  /\ open \subseteq {mine[g]}
  /\ running \ killed \subseteq {held[g]}

(* Every process and open session has an owner; none outlives Close.       *)
ProcessInv ==
  /\ None \notin open \cup running
  /\ \A g \in Goroutines :
       /\ after[g] = "handshake" => Connecting(g)
       /\ IF pc[g] = "reclosing" THEN Replacing(g) ELSE held[g] = None
  /\ (\A g \in Goroutines : pc[g] # "reclosing") =>
       open \subseteq {session} /\ running \ killed \subseteq {procCancel}
  /\ (\A g \in Goroutines : after[g] # "handshake") => procCancel \in {None, session}
  /\ (transport = "stdio" /\ session # None) => procCancel = session
  /\ (closed /\ \A g \in Goroutines : pc[g] # "closing") =>
       open = {} /\ running \subseteq killed

(* The inductive invariant.                                                *)
IInv == TypeInv /\ ReturnInv /\ AuthorizedInv /\ OriginInv /\ MutexInv /\ ProcessInv

(* The client and its servers keep their types, whatever a goroutine does. *)
LEMMA SharedTypeStep == TypeInv /\ [Next]_vars => SharedTypes'
<1> SUFFICES ASSUME TypeInv, [Next]_vars PROVE SharedTypes' OBVIOUS
<1> USE DEF TypeInv, SharedTypes, ValueTypes, None, Template, config, client, servers, locals, http
<1>1. ASSUME NEW g \in Goroutines, Call(g) PROVE SharedTypes'
  BY <1>1 DEF Call
<1>2. ASSUME NEW g \in Goroutines, Cancel(g) PROVE SharedTypes'
  BY <1>2 DEF Cancel
<1>3. ASSUME NEW g \in Goroutines, Connect(g) PROVE SharedTypes'
  <2>1. CASE session # None \/ closed
    BY <1>3, <2>1 DEF Connect, Unlock
  <2>2. CASE ~(session # None \/ closed) /\ transport = "stdio"
    <3>1. begun' = begun + 1 /\ procCancel' = begun + 1 /\ running' = running \cup {begun + 1}
      BY <1>3, <2>2 DEF Connect
    <3>2. UNCHANGED <<lock, session, closed, open, token, templates>>
      BY <1>3, <2>2 DEF Connect
    <3> QED BY <3>1, <3>2
  <2>3. CASE ~(session # None \/ closed) /\ transport # "stdio"
    <3>1. begun' = begun + 1 /\ UNCHANGED <<procCancel, running>>
      BY <1>3, <2>3 DEF Connect
    <3>2. UNCHANGED <<lock, session, closed, open, token, templates>>
      BY <1>3, <2>3 DEF Connect
    <3> QED BY <3>1, <3>2
  <2> QED BY <2>1, <2>2, <2>3
<1>4. ASSUME NEW g \in Goroutines, Handshake(g) PROVE SharedTypes'
  <2>1. CASE reply[g] = "ok"
    <3>1. mine[g] \in Nat
      OBVIOUS
    <3>2. session' = mine[g] /\ open' = open \cup {mine[g]} /\ lock' = NoOne
      BY <1>4, <2>1 DEF Handshake, Unlock
    <3>3. UNCHANGED <<procCancel, closed, begun, running, token, templates>>
      BY <1>4, <2>1 DEF Handshake
    <3> QED BY <3>1, <3>2, <3>3
  <2>2. CASE reply[g] # "ok"
    <3>1. procCancel' = None /\ lock' = NoOne
      BY <1>4, <2>2 DEF Handshake, Unlock
    <3>2. UNCHANGED <<session, open, closed, begun, running, token, templates>>
      BY <1>4, <2>2 DEF Handshake
    <3> QED BY <3>1, <3>2
  <2> QED BY <2>1, <2>2
<1>5. ASSUME NEW g \in Goroutines, Reconnect(g) PROVE SharedTypes'
  BY <1>5 DEF Reconnect, Unlock
<1>6. ASSUME NEW g \in Goroutines, Reclose(g) PROVE SharedTypes'
  BY <1>6 DEF Reclose, Unlock
<1>7. ASSUME NEW g \in Goroutines, Close(g) PROVE SharedTypes'
  BY <1>7 DEF Close, Unlock
<1>8. ASSUME NEW g \in Goroutines, CloseSession(g) PROVE SharedTypes'
  BY <1>8 DEF CloseSession, Unlock
<1>9. ASSUME NEW g \in Goroutines, Tools(g) PROVE SharedTypes'
  BY <1>9 DEF Tools
<1>10. ASSUME NEW g \in Goroutines, Listed(g) PROVE SharedTypes'
  BY <1>10 DEF Listed
<1>11. ASSUME NEW g \in Goroutines, Authorize(g) PROVE SharedTypes'
  BY <1>11 DEF Authorize
<1>12. ASSUME NEW g \in Goroutines, ApproverAnswers(g) PROVE SharedTypes'
  BY <1>12 DEF ApproverAnswers
<1>13. ASSUME NEW g \in Goroutines, Called(g) PROVE SharedTypes'
  BY <1>13 DEF Called
<1>14. ASSUME NEW g \in Goroutines, Exchange(g) PROVE SharedTypes'
  BY <1>14 DEF Exchange
<1>15. ASSUME NEW g \in Goroutines, RoundTrip(g) PROVE SharedTypes'
  BY <1>15 DEF RoundTrip
<1>16. ASSUME NEW g \in Goroutines, Provide(g) PROVE SharedTypes'
  BY <1>16 DEF Provide
<1>17. ASSUME NEW g \in Goroutines, Transmit(g) PROVE SharedTypes'
  BY <1>17 DEF Transmit
<1>18. CASE RotateToken
  BY <1>18 DEF RotateToken
<1>19. ASSUME NEW s \in running, Dies(s) PROVE SharedTypes'
  BY <1>19 DEF Dies
<1>20. CASE UNCHANGED vars
  BY <1>20 DEF vars
<1> QED BY <1>1, <1>2, <1>3, <1>4, <1>5, <1>6, <1>7, <1>8, <1>9, <1>10, <1>11, <1>12, <1>13, <1>14, <1>15, <1>16, <1>17, <1>18, <1>19, <1>20 DEF Next

(* So do the goroutines' places and calls ...                              *)
LEMMA CallTypeStep == TypeInv /\ [Next]_vars => CallTypes'
<1> SUFFICES ASSUME TypeInv, [Next]_vars PROVE CallTypes' OBVIOUS
<1> USE DEF TypeInv, CallTypes, Locations, Requesting, Returns, Critical, Approvals, None, Empty, Template, config, client, servers, locals, http
<1>1. ASSUME NEW g \in Goroutines, Call(g) PROVE CallTypes'
  BY <1>1 DEF Call, Goto
<1>2. ASSUME NEW g \in Goroutines, Cancel(g) PROVE CallTypes'
  BY <1>2 DEF Cancel
<1>3. ASSUME NEW g \in Goroutines, Connect(g) PROVE CallTypes'
  BY <1>3 DEF Connect, Finish, Unlock, Request, Goto
<1>4. ASSUME NEW g \in Goroutines, Handshake(g) PROVE CallTypes'
  BY <1>4 DEF Handshake, Finish, Unlock, Goto
<1>5. ASSUME NEW g \in Goroutines, Reconnect(g) PROVE CallTypes'
  BY <1>5 DEF Reconnect, Finish, Unlock, Goto
<1>6. ASSUME NEW g \in Goroutines, Reclose(g) PROVE CallTypes'
  BY <1>6 DEF Reclose, Finish, Unlock, Goto
<1>7. ASSUME NEW g \in Goroutines, Close(g) PROVE CallTypes'
  BY <1>7 DEF Close, Finish, Unlock, Goto
<1>8. ASSUME NEW g \in Goroutines, CloseSession(g) PROVE CallTypes'
  BY <1>8 DEF CloseSession, Finish, Unlock, Goto
<1>9. ASSUME NEW g \in Goroutines, Tools(g) PROVE CallTypes'
  BY <1>9 DEF Tools, Finish, Request, Goto
<1>10. ASSUME NEW g \in Goroutines, Listed(g) PROVE CallTypes'
  BY <1>10 DEF Listed, Finish, Request, Goto
<1>11. ASSUME NEW g \in Goroutines, Authorize(g) PROVE CallTypes'
  BY <1>11 DEF Authorize, Finish, SendCall, Request, Goto
<1>12. ASSUME NEW g \in Goroutines, ApproverAnswers(g) PROVE CallTypes'
  BY <1>12 DEF ApproverAnswers, Finish, SendCall, Request, Goto
<1>13. ASSUME NEW g \in Goroutines, Called(g) PROVE CallTypes'
  BY <1>13 DEF Called, Finish, Goto
<1>14. ASSUME NEW g \in Goroutines, Exchange(g) PROVE CallTypes'
  BY <1>14 DEF Exchange, Answer, Execute, Goto
<1>15. ASSUME NEW g \in Goroutines, RoundTrip(g) PROVE CallTypes'
  BY <1>15 DEF RoundTrip, Answer, Goto
<1>16. ASSUME NEW g \in Goroutines, Provide(g) PROVE CallTypes'
  BY <1>16 DEF Provide, Answer, Goto
<1>17. ASSUME NEW g \in Goroutines, Transmit(g) PROVE CallTypes'
  BY <1>17 DEF Transmit, Answer, Execute, Goto
<1>18. CASE RotateToken
  BY <1>18 DEF RotateToken
<1>19. ASSUME NEW s \in running, Dies(s) PROVE CallTypes'
  BY <1>19 DEF Dies
<1>20. CASE UNCHANGED vars
  BY <1>20 DEF vars
<1> QED BY <1>1, <1>2, <1>3, <1>4, <1>5, <1>6, <1>7, <1>8, <1>9, <1>10, <1>11, <1>12, <1>13, <1>14, <1>15, <1>16, <1>17, <1>18, <1>19, <1>20 DEF Next

(* ... and the sessions and HTTP values they hold.                         *)
LEMMA ValueTypeStep == TypeInv /\ [Next]_vars => ValueTypes'
<1> SUFFICES ASSUME TypeInv, [Next]_vars PROVE ValueTypes' OBVIOUS
<1> USE DEF TypeInv, SharedTypes, ValueTypes, None, Empty, config, client, servers, locals, http
<1>1. ASSUME NEW g \in Goroutines, Call(g) PROVE ValueTypes'
  BY <1>1 DEF Call, Goto
<1>2. ASSUME NEW g \in Goroutines, Cancel(g) PROVE ValueTypes'
  BY <1>2 DEF Cancel
<1>3. ASSUME NEW g \in Goroutines, Connect(g) PROVE ValueTypes'
  BY <1>3 DEF Connect, Finish, Unlock, Request, Goto
<1>4. ASSUME NEW g \in Goroutines, Handshake(g) PROVE ValueTypes'
  BY <1>4 DEF Handshake, Finish, Unlock, Goto
<1>5. ASSUME NEW g \in Goroutines, Reconnect(g) PROVE ValueTypes'
  BY <1>5 DEF Reconnect, Finish, Unlock, Goto
<1>6. ASSUME NEW g \in Goroutines, Reclose(g) PROVE ValueTypes'
  BY <1>6 DEF Reclose, Finish, Unlock, Goto
<1>7. ASSUME NEW g \in Goroutines, Close(g) PROVE ValueTypes'
  BY <1>7 DEF Close, Finish, Unlock, Goto
<1>8. ASSUME NEW g \in Goroutines, CloseSession(g) PROVE ValueTypes'
  BY <1>8 DEF CloseSession, Finish, Unlock, Goto
<1>9. ASSUME NEW g \in Goroutines, Tools(g) PROVE ValueTypes'
  BY <1>9 DEF Tools, Finish, Request, Goto
<1>10. ASSUME NEW g \in Goroutines, Listed(g) PROVE ValueTypes'
  BY <1>10 DEF Listed, Finish, Request, Goto
<1>11. ASSUME NEW g \in Goroutines, Authorize(g) PROVE ValueTypes'
  BY <1>11 DEF Authorize, Finish, SendCall, Request, Goto
<1>12. ASSUME NEW g \in Goroutines, ApproverAnswers(g) PROVE ValueTypes'
  BY <1>12 DEF ApproverAnswers, Finish, SendCall, Request, Goto
<1>13. ASSUME NEW g \in Goroutines, Called(g) PROVE ValueTypes'
  BY <1>13 DEF Called, Finish, Goto
<1>14. ASSUME NEW g \in Goroutines, Exchange(g) PROVE ValueTypes'
  BY <1>14 DEF Exchange, Answer, Execute, Goto
<1>15. ASSUME NEW g \in Goroutines, RoundTrip(g) PROVE ValueTypes'
  BY <1>15 DEF RoundTrip, Answer, Goto
<1>16. ASSUME NEW g \in Goroutines, Provide(g) PROVE ValueTypes'
  BY <1>16 DEF Provide, Answer, Goto
<1>17. ASSUME NEW g \in Goroutines, Transmit(g) PROVE ValueTypes'
  BY <1>17 DEF Transmit, Answer, Execute, Goto
<1>18. CASE RotateToken
  BY <1>18 DEF RotateToken
<1>19. ASSUME NEW s \in running, Dies(s) PROVE ValueTypes'
  BY <1>19 DEF Dies
<1>20. CASE UNCHANGED vars
  BY <1>20 DEF vars
<1> QED BY <1>1, <1>2, <1>3, <1>4, <1>5, <1>6, <1>7, <1>8, <1>9, <1>10, <1>11, <1>12, <1>13, <1>14, <1>15, <1>16, <1>17, <1>18, <1>19, <1>20 DEF Next

(* A step keeps the variables' types.                                      *)
LEMMA TypeStep == TypeInv /\ [Next]_vars => TypeInv'
BY SharedTypeStep, CallTypeStep, ValueTypeStep DEF TypeInv

(* A step leaves every request with the place it returns to.               *)
LEMMA ReturnStep == TypeInv /\ ReturnInv /\ [Next]_vars => ReturnInv'
<1> SUFFICES ASSUME TypeInv, ReturnInv, [Next]_vars PROVE ReturnInv' OBVIOUS
<1> USE DEF TypeInv, SharedTypes, CallTypes, ValueTypes, ReturnInv, Returns, Requesting, config, client, servers, locals, http
<1>1. ASSUME NEW g \in Goroutines, Call(g) PROVE ReturnInv'
  BY <1>1 DEF Call, Goto
<1>2. ASSUME NEW g \in Goroutines, Cancel(g) PROVE ReturnInv'
  BY <1>2 DEF Cancel
<1>3. ASSUME NEW g \in Goroutines, Connect(g) PROVE ReturnInv'
  BY <1>3 DEF Connect, Finish, Unlock, Request, Goto
<1>4. ASSUME NEW g \in Goroutines, Handshake(g) PROVE ReturnInv'
  BY <1>4 DEF Handshake, Finish, Unlock, Goto
<1>5. ASSUME NEW g \in Goroutines, Reconnect(g) PROVE ReturnInv'
  BY <1>5 DEF Reconnect, Finish, Unlock, Goto
<1>6. ASSUME NEW g \in Goroutines, Reclose(g) PROVE ReturnInv'
  BY <1>6 DEF Reclose, Finish, Unlock, Goto
<1>7. ASSUME NEW g \in Goroutines, Close(g) PROVE ReturnInv'
  BY <1>7 DEF Close, Finish, Unlock, Goto
<1>8. ASSUME NEW g \in Goroutines, CloseSession(g) PROVE ReturnInv'
  BY <1>8 DEF CloseSession, Finish, Unlock, Goto
<1>9. ASSUME NEW g \in Goroutines, Tools(g) PROVE ReturnInv'
  BY <1>9 DEF Tools, Finish, Request, Goto
<1>10. ASSUME NEW g \in Goroutines, Listed(g) PROVE ReturnInv'
  BY <1>10 DEF Listed, Finish, Request, Goto
<1>11. ASSUME NEW g \in Goroutines, Authorize(g) PROVE ReturnInv'
  BY <1>11 DEF Authorize, Finish, SendCall, Request, Goto
<1>12. ASSUME NEW g \in Goroutines, ApproverAnswers(g) PROVE ReturnInv'
  BY <1>12 DEF ApproverAnswers, Finish, SendCall, Request, Goto
<1>13. ASSUME NEW g \in Goroutines, Called(g) PROVE ReturnInv'
  BY <1>13 DEF Called, Finish, Goto
<1>14. ASSUME NEW g \in Goroutines, Exchange(g) PROVE ReturnInv'
  BY <1>14 DEF Exchange, Answer, Execute, Goto
<1>15. ASSUME NEW g \in Goroutines, RoundTrip(g) PROVE ReturnInv'
  BY <1>15 DEF RoundTrip, Answer, Goto
<1>16. ASSUME NEW g \in Goroutines, Provide(g) PROVE ReturnInv'
  BY <1>16 DEF Provide, Answer, Goto
<1>17. ASSUME NEW g \in Goroutines, Transmit(g) PROVE ReturnInv'
  BY <1>17 DEF Transmit, Answer, Execute, Goto
<1>18. CASE RotateToken
  BY <1>18 DEF RotateToken
<1>19. ASSUME NEW s \in running, Dies(s) PROVE ReturnInv'
  BY <1>19 DEF Dies
<1>20. CASE UNCHANGED vars
  BY <1>20 DEF vars
<1> QED BY <1>1, <1>2, <1>3, <1>4, <1>5, <1>6, <1>7, <1>8, <1>9, <1>10, <1>11, <1>12, <1>13, <1>14, <1>15, <1>16, <1>17, <1>18, <1>19, <1>20 DEF Next

(* No step sends or executes a call without its authorization.            *)
LEMMA AuthorizedStep == TypeInv /\ ReturnInv /\ AuthorizedInv /\ [Next]_vars => AuthorizedInv'
<1> SUFFICES ASSUME TypeInv, ReturnInv, AuthorizedInv, [Next]_vars PROVE AuthorizedInv' OBVIOUS
<1> USE DEF TypeInv, SharedTypes, CallTypes, ValueTypes, ReturnInv, AuthorizedInv, Authorized, Returns, Requesting, config, client, servers, locals, http
<1>1. ASSUME NEW g \in Goroutines, Call(g) PROVE AuthorizedInv'
  BY <1>1 DEF Call, Goto
<1>2. ASSUME NEW g \in Goroutines, Cancel(g) PROVE AuthorizedInv'
  BY <1>2 DEF Cancel
<1>3. ASSUME NEW g \in Goroutines, Connect(g) PROVE AuthorizedInv'
  BY <1>3 DEF Connect, Finish, Unlock, Request, Goto
<1>4. ASSUME NEW g \in Goroutines, Handshake(g) PROVE AuthorizedInv'
  BY <1>4 DEF Handshake, Finish, Unlock, Goto
<1>5. ASSUME NEW g \in Goroutines, Reconnect(g) PROVE AuthorizedInv'
  BY <1>5 DEF Reconnect, Finish, Unlock, Goto
<1>6. ASSUME NEW g \in Goroutines, Reclose(g) PROVE AuthorizedInv'
  BY <1>6 DEF Reclose, Finish, Unlock, Goto
<1>7. ASSUME NEW g \in Goroutines, Close(g) PROVE AuthorizedInv'
  BY <1>7 DEF Close, Finish, Unlock, Goto
<1>8. ASSUME NEW g \in Goroutines, CloseSession(g) PROVE AuthorizedInv'
  BY <1>8 DEF CloseSession, Finish, Unlock, Goto
<1>9. ASSUME NEW g \in Goroutines, Tools(g) PROVE AuthorizedInv'
  BY <1>9 DEF Tools, Finish, Request, Goto
<1>10. ASSUME NEW g \in Goroutines, Listed(g) PROVE AuthorizedInv'
  BY <1>10 DEF Listed, Finish, Request, Goto
<1>11. ASSUME NEW g \in Goroutines, Authorize(g) PROVE AuthorizedInv'
  BY <1>11 DEF Authorize, Finish, SendCall, Request, Goto
<1>12. ASSUME NEW g \in Goroutines, ApproverAnswers(g) PROVE AuthorizedInv'
  BY <1>12 DEF ApproverAnswers, Finish, SendCall, Request, Goto
<1>13. ASSUME NEW g \in Goroutines, Called(g) PROVE AuthorizedInv'
  BY <1>13 DEF Called, Finish, Goto
<1>14. ASSUME NEW g \in Goroutines, Exchange(g) PROVE AuthorizedInv'
  BY <1>14 DEF Exchange, Answer, Execute, Goto
<1>15. ASSUME NEW g \in Goroutines, RoundTrip(g) PROVE AuthorizedInv'
  BY <1>15 DEF RoundTrip, Answer, Goto
<1>16. ASSUME NEW g \in Goroutines, Provide(g) PROVE AuthorizedInv'
  BY <1>16 DEF Provide, Answer, Goto
<1>17. ASSUME NEW g \in Goroutines, Transmit(g) PROVE AuthorizedInv'
  BY <1>17 DEF Transmit, Answer, Execute, Goto
<1>18. CASE RotateToken
  BY <1>18 DEF RotateToken
<1>19. ASSUME NEW s \in running, Dies(s) PROVE AuthorizedInv'
  BY <1>19 DEF Dies
<1>20. CASE UNCHANGED vars
  BY <1>20 DEF vars
<1> QED BY <1>1, <1>2, <1>3, <1>4, <1>5, <1>6, <1>7, <1>8, <1>9, <1>10, <1>11, <1>12, <1>13, <1>14, <1>15, <1>16, <1>17, <1>18, <1>19, <1>20 DEF Next

(* No step takes a request to another origin up to its headers.            *)
LEMMA OriginStep == TypeInv /\ OriginInv /\ [Next]_vars => OriginInv'
<1> SUFFICES ASSUME TypeInv, OriginInv, [Next]_vars PROVE OriginInv' OBVIOUS
<1> USE DEF TypeInv, SharedTypes, CallTypes, ValueTypes, OriginInv, CredentialsGuarded, Rendered, Returns, Empty, config, client, servers, locals, http
<1>1. ASSUME NEW g \in Goroutines, Call(g) PROVE OriginInv'
  BY <1>1 DEF Call, Goto
<1>2. ASSUME NEW g \in Goroutines, Cancel(g) PROVE OriginInv'
  BY <1>2 DEF Cancel
<1>3. ASSUME NEW g \in Goroutines, Connect(g) PROVE OriginInv'
  BY <1>3 DEF Connect, Finish, Unlock, Request, Goto
<1>4. ASSUME NEW g \in Goroutines, Handshake(g) PROVE OriginInv'
  BY <1>4 DEF Handshake, Finish, Unlock, Goto
<1>5. ASSUME NEW g \in Goroutines, Reconnect(g) PROVE OriginInv'
  BY <1>5 DEF Reconnect, Finish, Unlock, Goto
<1>6. ASSUME NEW g \in Goroutines, Reclose(g) PROVE OriginInv'
  BY <1>6 DEF Reclose, Finish, Unlock, Goto
<1>7. ASSUME NEW g \in Goroutines, Close(g) PROVE OriginInv'
  BY <1>7 DEF Close, Finish, Unlock, Goto
<1>8. ASSUME NEW g \in Goroutines, CloseSession(g) PROVE OriginInv'
  BY <1>8 DEF CloseSession, Finish, Unlock, Goto
<1>9. ASSUME NEW g \in Goroutines, Tools(g) PROVE OriginInv'
  BY <1>9 DEF Tools, Finish, Request, Goto
<1>10. ASSUME NEW g \in Goroutines, Listed(g) PROVE OriginInv'
  BY <1>10 DEF Listed, Finish, Request, Goto
<1>11. ASSUME NEW g \in Goroutines, Authorize(g) PROVE OriginInv'
  BY <1>11 DEF Authorize, Finish, SendCall, Request, Goto
<1>12. ASSUME NEW g \in Goroutines, ApproverAnswers(g) PROVE OriginInv'
  BY <1>12 DEF ApproverAnswers, Finish, SendCall, Request, Goto
<1>13. ASSUME NEW g \in Goroutines, Called(g) PROVE OriginInv'
  BY <1>13 DEF Called, Finish, Goto
<1>14. ASSUME NEW g \in Goroutines, Exchange(g) PROVE OriginInv'
  BY <1>14 DEF Exchange, Answer, Execute, Goto
<1>15. ASSUME NEW g \in Goroutines, RoundTrip(g) PROVE OriginInv'
  BY <1>15 DEF RoundTrip, Answer, Goto
<1>16. ASSUME NEW g \in Goroutines, Provide(g) PROVE OriginInv'
  BY <1>16 DEF Provide, Answer, Goto
<1>17. ASSUME NEW g \in Goroutines, Transmit(g) PROVE OriginInv'
  BY <1>17 DEF Transmit, Answer, Execute, Goto
<1>18. CASE RotateToken
  BY <1>18 DEF RotateToken
<1>19. ASSUME NEW s \in running, Dies(s) PROVE OriginInv'
  BY <1>19 DEF Dies
<1>20. CASE UNCHANGED vars
  BY <1>20 DEF vars
<1> QED BY <1>1, <1>2, <1>3, <1>4, <1>5, <1>6, <1>7, <1>8, <1>9, <1>10, <1>11, <1>12, <1>13, <1>14, <1>15, <1>16, <1>17, <1>18, <1>19, <1>20 DEF Next

(* No step takes the client from the goroutine that holds its mutex.       *)
LEMMA MutexStep == TypeInv /\ ReturnInv /\ MutexInv /\ [Next]_vars => MutexInv'
<1> SUFFICES ASSUME TypeInv, ReturnInv, MutexInv, [Next]_vars PROVE MutexInv' OBVIOUS
<1> USE McpAssumption
<1> USE DEF TypeInv, SharedTypes, CallTypes, ValueTypes, ReturnInv, MutexInv, Critical, Returns, Requesting, config, client, servers, locals, http
<1>1. ASSUME NEW g \in Goroutines, Call(g) PROVE MutexInv'
  BY <1>1 DEF Call, Goto
<1>2. ASSUME NEW g \in Goroutines, Cancel(g) PROVE MutexInv'
  BY <1>2 DEF Cancel
<1>3. ASSUME NEW g \in Goroutines, Connect(g) PROVE MutexInv'
  BY <1>3 DEF Connect, Finish, Unlock, Request, Goto
<1>4. ASSUME NEW g \in Goroutines, Handshake(g) PROVE MutexInv'
  BY <1>4 DEF Handshake, Finish, Unlock, Goto
<1>5. ASSUME NEW g \in Goroutines, Reconnect(g) PROVE MutexInv'
  BY <1>5 DEF Reconnect, Finish, Unlock, Goto
<1>6. ASSUME NEW g \in Goroutines, Reclose(g) PROVE MutexInv'
  BY <1>6 DEF Reclose, Finish, Unlock, Goto
<1>7. ASSUME NEW g \in Goroutines, Close(g) PROVE MutexInv'
  BY <1>7 DEF Close, Finish, Unlock, Goto
<1>8. ASSUME NEW g \in Goroutines, CloseSession(g) PROVE MutexInv'
  BY <1>8 DEF CloseSession, Finish, Unlock, Goto
<1>9. ASSUME NEW g \in Goroutines, Tools(g) PROVE MutexInv'
  BY <1>9 DEF Tools, Finish, Request, Goto
<1>10. ASSUME NEW g \in Goroutines, Listed(g) PROVE MutexInv'
  BY <1>10 DEF Listed, Finish, Request, Goto
<1>11. ASSUME NEW g \in Goroutines, Authorize(g) PROVE MutexInv'
  BY <1>11 DEF Authorize, Finish, SendCall, Request, Goto
<1>12. ASSUME NEW g \in Goroutines, ApproverAnswers(g) PROVE MutexInv'
  BY <1>12 DEF ApproverAnswers, Finish, SendCall, Request, Goto
<1>13. ASSUME NEW g \in Goroutines, Called(g) PROVE MutexInv'
  BY <1>13 DEF Called, Finish, Goto
<1>14. ASSUME NEW g \in Goroutines, Exchange(g) PROVE MutexInv'
  BY <1>14 DEF Exchange, Answer, Execute, Goto
<1>15. ASSUME NEW g \in Goroutines, RoundTrip(g) PROVE MutexInv'
  BY <1>15 DEF RoundTrip, Answer, Goto
<1>16. ASSUME NEW g \in Goroutines, Provide(g) PROVE MutexInv'
  BY <1>16 DEF Provide, Answer, Goto
<1>17. ASSUME NEW g \in Goroutines, Transmit(g) PROVE MutexInv'
  BY <1>17 DEF Transmit, Answer, Execute, Goto
<1>18. CASE RotateToken
  BY <1>18 DEF RotateToken
<1>19. ASSUME NEW s \in running, Dies(s) PROVE MutexInv'
  BY <1>19 DEF Dies
<1>20. CASE UNCHANGED vars
  BY <1>20 DEF vars
<1> QED BY <1>1, <1>2, <1>3, <1>4, <1>5, <1>6, <1>7, <1>8, <1>9, <1>10, <1>11, <1>12, <1>13, <1>14, <1>15, <1>16, <1>17, <1>18, <1>19, <1>20 DEF Next

(* No step loses track of a server process or an open session.            *)
LEMMA ProcessStep == TypeInv /\ ReturnInv /\ MutexInv /\ ProcessInv /\ [Next]_vars => ProcessInv'
<1> SUFFICES ASSUME TypeInv, ReturnInv, MutexInv, ProcessInv, [Next]_vars PROVE ProcessInv' OBVIOUS
<1> USE McpAssumption
<1> USE DEF TypeInv, SharedTypes, CallTypes, ValueTypes, ReturnInv, MutexInv, ProcessInv, Connecting, Replacing, Critical, Returns, Requesting, None, config, client, servers, locals, http
<1>1. ASSUME NEW g \in Goroutines, Call(g) PROVE ProcessInv'
  BY <1>1 DEF Call, Goto
<1>2. ASSUME NEW g \in Goroutines, Cancel(g) PROVE ProcessInv'
  BY <1>2 DEF Cancel
<1>3. ASSUME NEW g \in Goroutines, Connect(g) PROVE ProcessInv'
  BY <1>3 DEF Connect, Finish, Unlock, Request, Goto
<1>4. ASSUME NEW g \in Goroutines, Handshake(g) PROVE ProcessInv'
  <2>1. after[g] = "handshake" /\ lock = g /\ Connecting(g)
    BY <1>4 DEF Handshake
  <2>2. \A h \in Goroutines \ {g} : pc[h] \notin Critical /\ after[h] # "handshake"
    BY <2>1
  <2>3. \A h \in Goroutines : pc[h] # "reclosing" /\ held[h] = None
    BY <1>4, <2>2 DEF Handshake
  <2>4. open = {} /\ running \ killed \subseteq {procCancel}
    BY <2>1, <2>3
  <2>5. \A h \in Goroutines :
          after[h]' # "handshake" /\ pc[h]' \notin Critical /\ held[h]' = None
    BY <1>4, <2>2, <2>3 DEF Handshake, Finish, Goto
  <2>6. UNCHANGED <<transport, running, closed>> /\ ~closed
    BY <1>4, <2>1 DEF Handshake
  <2>7. CASE reply[g] = "ok"
    <3>1. session' = mine[g] /\ open' = {mine[g]} /\ UNCHANGED <<procCancel, killed>>
      BY <1>4, <2>4, <2>7 DEF Handshake
    <3> QED BY <2>1, <2>4, <2>5, <2>6, <3>1
  <2>8. CASE reply[g] # "ok"
    <3>1. killed' = killed \cup ({procCancel} \ {None}) /\ procCancel' = None
      BY <1>4, <2>8 DEF Handshake
    <3>2. session' = None /\ open' = {}
      BY <1>4, <2>1, <2>4, <2>8 DEF Handshake
    <3>3. running' \ killed' = {}
      BY <2>4, <2>6, <3>1
    <3> QED BY <2>5, <2>6, <3>1, <3>2, <3>3
  <2> QED BY <2>7, <2>8
<1>5. ASSUME NEW g \in Goroutines, Reconnect(g) PROVE ProcessInv'
  BY <1>5 DEF Reconnect, Finish, Unlock, Goto
<1>6. ASSUME NEW g \in Goroutines, Reclose(g) PROVE ProcessInv'
  <2>1. lock = g /\ Replacing(g)
    BY <1>6 DEF Reclose
  <2>2. \A h \in Goroutines \ {g} : pc[h] \notin Critical /\ after[h] # "handshake" /\ held[h] = None
    BY <2>1
  <2>3. after[g] = "idle"
    BY <1>6 DEF Reclose
  <2>4. \A h \in Goroutines :
          after[h]' # "handshake" /\ pc[h]' \notin {"reclosing", "closing"} /\ held[h]' = None
    BY <1>6, <2>2, <2>3 DEF Reclose, Finish, Goto
  <2>5. open' = {} /\ killed' = killed \cup ({held[g]} \ {None})
    BY <1>6, <2>1 DEF Reclose
  <2>6. UNCHANGED <<transport, session, procCancel, closed, running>>
    BY <1>6 DEF Reclose
  <2>7. running' \ killed' = {}
    BY <2>1, <2>5, <2>6
  <2> QED BY <2>1, <2>4, <2>5, <2>6, <2>7
<1>7. ASSUME NEW g \in Goroutines, Close(g) PROVE ProcessInv'
  BY <1>7 DEF Close, Finish, Unlock, Goto
<1>8. ASSUME NEW g \in Goroutines, CloseSession(g) PROVE ProcessInv'
  BY <1>8 DEF CloseSession, Finish, Unlock, Goto
<1>9. ASSUME NEW g \in Goroutines, Tools(g) PROVE ProcessInv'
  BY <1>9 DEF Tools, Finish, Request, Goto
<1>10. ASSUME NEW g \in Goroutines, Listed(g) PROVE ProcessInv'
  BY <1>10 DEF Listed, Finish, Request, Goto
<1>11. ASSUME NEW g \in Goroutines, Authorize(g) PROVE ProcessInv'
  BY <1>11 DEF Authorize, Finish, SendCall, Request, Goto
<1>12. ASSUME NEW g \in Goroutines, ApproverAnswers(g) PROVE ProcessInv'
  BY <1>12 DEF ApproverAnswers, Finish, SendCall, Request, Goto
<1>13. ASSUME NEW g \in Goroutines, Called(g) PROVE ProcessInv'
  BY <1>13 DEF Called, Finish, Goto
<1>14. ASSUME NEW g \in Goroutines, Exchange(g) PROVE ProcessInv'
  BY <1>14 DEF Exchange, Answer, Execute, Goto
<1>15. ASSUME NEW g \in Goroutines, RoundTrip(g) PROVE ProcessInv'
  BY <1>15 DEF RoundTrip, Answer, Goto
<1>16. ASSUME NEW g \in Goroutines, Provide(g) PROVE ProcessInv'
  BY <1>16 DEF Provide, Answer, Goto
<1>17. ASSUME NEW g \in Goroutines, Transmit(g) PROVE ProcessInv'
  BY <1>17 DEF Transmit, Answer, Execute, Goto
<1>18. CASE RotateToken
  BY <1>18 DEF RotateToken
<1>19. ASSUME NEW s \in running, Dies(s) PROVE ProcessInv'
  BY <1>19 DEF Dies
<1>20. CASE UNCHANGED vars
  BY <1>20 DEF vars
<1> QED BY <1>1, <1>2, <1>3, <1>4, <1>5, <1>6, <1>7, <1>8, <1>9, <1>10, <1>11, <1>12, <1>13, <1>14, <1>15, <1>16, <1>17, <1>18, <1>19, <1>20 DEF Next

-----------------------------------------------------------------------------
(* The inductive invariant holds of an idle client that began no session.   *)
LEMMA InitIInv == Init => IInv
<1> SUFFICES ASSUME Init PROVE IInv
  OBVIOUS
<1> USE McpAssumption DEF Init, None
<1>1. TypeInv
  <2>1. SharedTypes
    <3>1. closed \in BOOLEAN
      OBVIOUS
    <3>2. token \in Nat \ {0} /\ open \subseteq Nat /\ running \subseteq Nat
      OBVIOUS
    <3>3. lock \in Goroutines \cup {NoOne} /\ session \in Nat /\ procCancel \in Nat /\ begun \in Nat
      OBVIOUS
    <3> QED
      BY <3>1, <3>2, <3>3 DEF SharedTypes
  <2>2. CallTypes
    BY DEF CallTypes, Locations
  <2>3. ValueTypes
    BY DEF ValueTypes, Empty
  <2> QED
    BY <2>1, <2>2, <2>3 DEF TypeInv
<1>2. ReturnInv
  BY DEF ReturnInv, Returns
<1>3. AuthorizedInv
  BY DEF AuthorizedInv
<1>4. OriginInv
  BY DEF OriginInv, CredentialsGuarded
<1>5. MutexInv
  BY DEF MutexInv, Critical
<1>6. ProcessInv
  BY DEF ProcessInv
<1> QED
  BY <1>1, <1>2, <1>3, <1>4, <1>5, <1>6 DEF IInv

(* And after every step.                                                   *)
THEOREM Invariance == Spec => []IInv
<1>1. IInv /\ [Next]_vars => IInv'
  BY TypeStep, ReturnStep, AuthorizedStep, OriginStep, MutexStep, ProcessStep DEF IInv
<1> QED
  BY InitIInv, <1>1, PTL DEF Spec

-----------------------------------------------------------------------------
(* What the client promises.                                               *)

(* The server executes no call the policy denies, and none that needs an   *)
(* approval without one: guardedTool in src/mcp/mcp.go.                    *)
THEOREM PolicyGatesHolds == Spec => []PolicyGates
<1>1. IInv => PolicyGates
  BY DEF IInv, AuthorizedInv, Authorized, PolicyGates
<1> QED
  BY Invariance, <1>1, PTL

(* Every request sent goes to the configured origin with the value that    *)
(* was provided for it: RoundTrip in src/mcp/mcp.go.                       *)
THEOREM CredentialsGuardedHolds == Spec => []CredentialsGuarded
<1>1. IInv => CredentialsGuarded
  BY DEF IInv, OriginInv
<1> QED
  BY Invariance, <1>1, PTL

(* A set within a singleton has at most one element.                       *)
LEMMA AtMostOne == ASSUME NEW S, NEW x, S \subseteq {x} PROVE Cardinality(S) <= 1
<1>1. IsFiniteSet({x}) /\ Cardinality({x}) = 1
  BY FS_Singleton
<1> QED
  BY <1>1, FS_Subset

(* A server process that is not being terminated belongs to the client or  *)
(* to the goroutine replacing it; there is at most one, and none once the  *)
(* client is closed.                                                       *)
THEOREM ServersAccountedForHolds == Spec => []ServersAccountedFor
<1>1. ASSUME IInv PROVE ServersAccountedFor
  <2> USE <1>1 DEF IInv, ProcessInv
  <2>1. CASE \E g \in Goroutines : pc[g] = "reclosing"
    <3>1. PICK g \in Goroutines : pc[g] = "reclosing"
      BY <2>1
    <3>2. running \ killed \subseteq {held[g]} /\ ~closed /\ session = None
      BY <3>1 DEF Replacing
    <3>3. Cardinality(running \ killed) <= 1
      BY <3>2, AtMostOne
    <3> QED
      BY <3>2, <3>3 DEF ServersAccountedFor
  <2>2. CASE \A g \in Goroutines : pc[g] # "reclosing"
    <3>1. running \ killed \subseteq {procCancel}
      BY <2>2
    <3>2. Cardinality(running \ killed) <= 1
      BY <3>1, AtMostOne
    <3>3. lock = NoOne => \A g \in Goroutines : pc[g] # "closing"
      BY McpAssumption DEF MutexInv, Critical
    <3> QED
      BY <3>1, <3>2, <3>3 DEF ServersAccountedFor
  <2> QED
    BY <2>1, <2>2
<1> QED
  BY Invariance, <1>1, PTL
=============================================================================
