---------------------------- MODULE SessionStore ------------------------------
(***************************************************************************)
(* The stores of package session: InMemory and FileSession, whose calls    *)
(* hold a mutex of the handle, and the SQLite store, whose writes are      *)
(* immediate transactions of a connection per process.  Clients call them  *)
(* concurrently, contexts are cancelled, disks fail, and processes die and *)
(* start again.                                                            *)
(*                                                                         *)
(* The clients of a memory or a file session share one handle in one       *)
(* process; each client of a SQLite session is a process of its own.  A    *)
(* message is left out: an item is its identifier, the number of the call  *)
(* that made it and its place in that call.  The rows of the table are the *)
(* sequence ORDER BY idx gives.                                            *)
(***************************************************************************)
EXTENDS Naturals, Sequences, FiniteSets, SequencesExt

CONSTANTS
  Clients,
  NoClient,     \* nobody holds the lock
  Sizes,        \* bound: how many messages a call may bring
  MaxCalls,     \* bound: calls of all clients
  MaxCrashes    \* bound: processes that die

ASSUME StoreAssumption ==
  /\ NoClient \notin Clients
  /\ Sizes \subseteq Nat /\ MaxCalls \in Nat /\ MaxCrashes \in Nat

VARIABLES
  kind,         \* "memory", "file" or "sqlite"
  content,      \* the slice, the items in the file, or the committed rows
  lock,         \* who holds the handle's mutex, or the write transaction
  temps,        \* temporary files in the directory of the file
  pc,           \* where the call of each client is
  req,          \* what the client called
  buf,          \* the items a call is about to store
  answer,       \* what a call is about to return
  ctxDone,      \* its context is done
  known,        \* the items the client listed last
  calls, crashes

store == <<kind, content, lock, temps>>
client == <<pc, req, buf, answer, ctxDone, known>>
vars == <<store, client, calls, crashes>>

Kinds == {"memory", "file", "sqlite"}
Locations == {"closed", "refused", "idle", "called", "waiting", "locked",
              "writing", "temp", "done", "failed"}
Items == (0..MaxCalls) \X Nat

(* An item of the v1 format, which has no identifier.                      *)
V1 == <<0, 0>>
Stored == <<<<0, 1>>, <<0, 2>>>>
Nothing == [op |-> "none"]

Init ==
  /\ kind \in Kinds
  /\ content \in IF kind = "memory" THEN {<<>>} ELSE {<<>>, Stored, <<V1>>}
  /\ lock = NoClient
  /\ temps = 0
  /\ pc = [c \in Clients |-> "closed"]
  /\ req = [c \in Clients |-> Nothing]
  /\ buf = [c \in Clients |-> <<>>]
  /\ answer = [c \in Clients |-> <<>>]
  /\ ctxDone = [c \in Clients |-> FALSE]
  /\ known = [c \in Clients |-> <<>>]
  /\ calls = 0
  /\ crashes = 0

-----------------------------------------------------------------------------
(* Items.                                                                  *)

(* Variant: identifiers number the messages of a call.                     *)
newSessionItemsByPlace(call, n) == [k \in 1..n |-> <<1, k>>]

newSessionItems(call, n) == [k \in 1..n |-> <<call, k>>]

lastNItems(s, limit) ==
  IF limit = 0 \/ limit >= Len(s) THEN s
  ELSE SubSeq(s, Len(s) - limit + 1, Len(s))

(* Where the range first..last of s is: <<0, 0>> when an identifier is     *)
(* unknown or the range is reversed.                                       *)
replacementBounds(s, first, last) ==
  LET Place(id) == SelectLastInSeq(s, LAMBDA item : item = id)
  IN  IF Place(first) = 0 \/ Place(last) = 0 \/ Place(first) > Place(last)
        THEN <<0, 0>> ELSE <<Place(first), Place(last)>>

(* What a mutation makes of the items it read.                             *)
Updated(s, r) ==
  CASE r.op = "append" -> s \o r.with
    [] r.op = "clear" -> <<>>
    [] r.op = "replace" ->
         LET at == replacementBounds(s, r.first, r.last)
         IN  SubSeq(s, 1, at[1] - 1) \o r.with \o SubSeq(s, at[2] + 1, Len(s))

(* The items s read for the call r make it fail: they are of the v1        *)
(* format, or its range is not among them.                                 *)
Unreadable(r, s) ==
  \/ V1 \in ToSet(s)
  \/ r.op = "replace" /\ replacementBounds(s, r.first, r.last) = <<0, 0>>

-----------------------------------------------------------------------------
(* Calls.                                                                  *)

Goto(c, location) == pc' = [pc EXCEPT ![c] = location]
Succeed(c, result) == Goto(c, "done") /\ answer' = [answer EXCEPT ![c] = result]
Fail(c) == Goto(c, "failed") /\ answer' = [answer EXCEPT ![c] = <<>>]

(* NewFile and NewInMemory look at nothing; NewSQLiteStore refuses a       *)
(* database with the v1 table.                                             *)
Open(c) ==
  /\ pc[c] = "closed"
  /\ Goto(c, IF kind = "sqlite" /\ V1 \in ToSet(content) THEN "refused" ELSE "idle")
  /\ UNCHANGED <<store, req, buf, answer, ctxDone, known, calls, crashes>>

(* The calls a client can make: the ends of a replaced range are among the *)
(* items it listed last, which may be gone by now.                         *)
Requests(c) ==
  LET New == {newSessionItems(calls + 1, n) : n \in Sizes}
  IN  [op : {"append"}, with : New]
        \cup [op : {"replace"}, with : New,
              first : ToSet(known[c]), last : ToSet(known[c])]
        \cup [op : {"list"}, limit : {0, 1}]
        \cup {[op |-> "clear"]}

Call(c) ==
  /\ pc[c] = "idle"
  /\ calls < MaxCalls
  /\ calls' = calls + 1
  /\ \E r \in Requests(c) : req' = [req EXCEPT ![c] = r]
  /\ Goto(c, "called")
  /\ UNCHANGED <<store, buf, answer, ctxDone, known, crashes>>

Cancel(c) ==
  /\ pc[c] \in Locations \ {"closed", "refused", "idle", "done", "failed"}
  /\ ~ctxDone[c]
  /\ ctxDone' = [ctxDone EXCEPT ![c] = TRUE]
  /\ UNCHANGED <<store, pc, req, buf, answer, known, calls, crashes>>

(* Append looks at its context and for messages before it takes the lock.  *)
Enter(c) ==
  /\ pc[c] = "called"
  /\ IF req[c].op = "append" /\ ctxDone[c] THEN Fail(c)
     ELSE IF req[c].op = "append" /\ req[c].with = <<>> THEN Succeed(c, <<>>)
     ELSE Goto(c, "waiting") /\ UNCHANGED answer
  /\ UNCHANGED <<store, req, buf, ctxDone, known, calls, crashes>>

(* A query of the SQLite store sees the rows committed so far.             *)
Snapshot(c) ==
  /\ pc[c] = "waiting"
  /\ kind = "sqlite" /\ req[c].op = "list"
  /\ ~ctxDone[c]
  /\ Succeed(c, lastNItems(content, req[c].limit))
  /\ UNCHANGED <<store, req, buf, ctxDone, known, calls, crashes>>

(* Variant: two handles of one file, each with its own mutex.              *)
LockOwn(c) ==
  /\ pc[c] = "waiting"
  /\ ~(kind = "sqlite" /\ req[c].op = "list")
  /\ lock' = c
  /\ Goto(c, "locked")
  /\ UNCHANGED <<kind, content, temps, req, buf, answer, ctxDone, known, calls, crashes>>

(* Lock the mutex, or begin an immediate transaction.                      *)
Lock(c) ==
  /\ pc[c] = "waiting"
  /\ ~(kind = "sqlite" /\ req[c].op = "list")
  /\ lock = NoClient
  /\ lock' = c
  /\ Goto(c, "locked")
  /\ UNCHANGED <<kind, content, temps, req, buf, answer, ctxDone, known, calls, crashes>>

(* SQLite gives up waiting after its busy timeout, or with the context.    *)
GiveUp(c) ==
  /\ pc[c] = "waiting"
  /\ kind = "sqlite"
  /\ lock # NoClient \/ ctxDone[c]
  /\ Fail(c)
  /\ UNCHANGED <<store, req, buf, ctxDone, known, calls, crashes>>

(* With the lock held: look at the context, read, and answer a List, or    *)
(* change the slice, or prepare what is to be stored.                      *)
Use(c) ==
  /\ pc[c] = "locked"
  /\ IF ctxDone[c] \/ Unreadable(req[c], content)
       THEN Fail(c) /\ UNCHANGED <<content, buf>>
     ELSE IF req[c].op = "list"
       THEN Succeed(c, lastNItems(content, req[c].limit)) /\ UNCHANGED <<content, buf>>
     ELSE LET updated == Updated(content, req[c])
          IN  IF kind = "memory"
                THEN /\ content' = updated
                     /\ Succeed(c, IF req[c].op = "clear" THEN <<>> ELSE req[c].with)
                     /\ UNCHANGED buf
                ELSE /\ buf' = [buf EXCEPT ![c] = updated]
                     /\ Goto(c, "writing")
                     /\ UNCHANGED <<content, answer>>
  /\ UNCHANGED <<kind, lock, temps, req, ctxDone, known, calls, crashes>>

(* rewriteItems, up to the synced and closed temporary file.               *)
WriteTemp(c) ==
  /\ pc[c] = "writing"
  /\ kind = "file"
  /\ temps' = temps + 1
  /\ Goto(c, "temp")
  /\ UNCHANGED <<kind, content, lock, req, buf, answer, ctxDone, known, calls, crashes>>

Stores(c) ==
  /\ ~ctxDone[c]
  /\ content' = buf[c]
  /\ buf' = [buf EXCEPT ![c] = <<>>]
  /\ Succeed(c, IF req[c].op = "clear" THEN <<>> ELSE req[c].with)
  /\ UNCHANGED <<kind, req, ctxDone, known, calls, crashes>>

(* ... and the rename, unless the context is done.                         *)
Rename(c) ==
  /\ pc[c] = "temp"
  /\ Stores(c)
  /\ temps' = temps - 1
  /\ UNCHANGED lock

(* database/sql commits only under a live context; it ends the write       *)
(* transaction.                                                            *)
Commit(c) ==
  /\ pc[c] = "writing"
  /\ kind = "sqlite"
  /\ Stores(c)
  /\ lock' = NoClient
  /\ UNCHANGED temps

(* Variant: the temporary file of a failed call stays.                     *)
StorageFailsUntidy(c) ==
  /\ pc[c] \in {"locked", "writing", "temp"}
  /\ kind # "memory"
  /\ Fail(c)
  /\ buf' = [buf EXCEPT ![c] = <<>>]
  /\ UNCHANGED <<store, req, ctxDone, known, calls, crashes>>

(* Reading, writing, renaming or a statement fails, or the context is done *)
(* before the rename or the commit: the temporary file is removed, the     *)
(* transaction rolled back.                                                *)
StorageFails(c) ==
  /\ pc[c] \in {"locked", "writing", "temp"}
  /\ kind # "memory"
  /\ Fail(c)
  /\ buf' = [buf EXCEPT ![c] = <<>>]
  /\ temps' = IF pc[c] = "temp" THEN temps - 1 ELSE temps
  /\ UNCHANGED <<kind, content, lock, req, ctxDone, known, calls, crashes>>

(* Variant: only the way of success unlocks.                               *)
ReturnLocked(c) ==
  /\ pc[c] \in {"done", "failed"}
  /\ lock' = IF lock = c /\ pc[c] = "done" THEN NoClient ELSE lock
  /\ known' = IF pc[c] = "done" /\ req[c].op = "list"
                THEN [known EXCEPT ![c] = answer[c]] ELSE known
  /\ Goto(c, "idle")
  /\ req' = [req EXCEPT ![c] = Nothing]
  /\ answer' = [answer EXCEPT ![c] = <<>>]
  /\ ctxDone' = [ctxDone EXCEPT ![c] = FALSE]
  /\ UNCHANGED <<kind, content, temps, buf, calls, crashes>>

(* The deferred unlock, or rollback, and the return.                       *)
Return(c) ==
  /\ pc[c] \in {"done", "failed"}
  /\ lock' = IF lock = c THEN NoClient ELSE lock
  /\ known' = IF pc[c] = "done" /\ req[c].op = "list"
                THEN [known EXCEPT ![c] = answer[c]] ELSE known
  /\ Goto(c, "idle")
  /\ req' = [req EXCEPT ![c] = Nothing]
  /\ answer' = [answer EXCEPT ![c] = <<>>]
  /\ ctxDone' = [ctxDone EXCEPT ![c] = FALSE]
  /\ UNCHANGED <<kind, content, temps, buf, calls, crashes>>

(* A process dies with the clients in it.                                  *)
Process(c) == IF kind = "sqlite" THEN {c} ELSE Clients

Crash(c) ==
  /\ crashes < MaxCrashes
  /\ pc[c] \notin {"closed", "refused"}
  /\ crashes' = crashes + 1
  /\ LET With(f, value) == [d \in Clients |-> IF d \in Process(c) THEN value ELSE f[d]]
     IN  /\ pc' = With(pc, "closed")
         /\ req' = With(req, Nothing)
         /\ buf' = With(buf, <<>>)
         /\ answer' = With(answer, <<>>)
         /\ ctxDone' = With(ctxDone, FALSE)
         /\ known' = With(known, <<>>)
  /\ lock' = IF lock \in Process(c) THEN NoClient ELSE lock
  /\ content' = IF kind = "memory" THEN <<>> ELSE content
  /\ UNCHANGED <<kind, temps, calls>>

Step(c) ==
  \/ Enter(c) \/ Snapshot(c) \/ GiveUp(c) \/ Use(c) \/ WriteTemp(c)
  \/ Rename(c) \/ Commit(c) \/ StorageFails(c) \/ Return(c)

Next == \E c \in Clients : Open(c) \/ Call(c) \/ Cancel(c) \/ Lock(c) \/ Step(c) \/ Crash(c)

Spec == Init /\ [][Next]_vars

(* A call goes on while it can, and sync.Mutex starves no waiter; a writer *)
(* that waits for another process gives up.                                *)
FairSpec == Spec /\ \A c \in Clients : WF_vars(Step(c)) /\ SF_vars(Lock(c))

-----------------------------------------------------------------------------
(* Properties.                                                             *)

(* Every variable is of its type, and no two items have one identifier: a  *)
(* file with a duplicate could not be read again.                          *)
TypeOK ==
  /\ kind \in Kinds
  /\ content \in Seq(Items) /\ IsInjective(content)
  /\ lock \in Clients \cup {NoClient}
  /\ temps \in Nat
  /\ pc \in [Clients -> Locations]
  /\ \A c \in Clients : buf[c] \in Seq(Items) /\ IsInjective(buf[c])
  /\ \A c \in Clients : answer[c] \in Seq(Items) /\ known[c] \in Seq(Items)
  /\ ctxDone \in [Clients -> BOOLEAN]
  /\ calls \in 0..MaxCalls /\ crashes \in 0..MaxCrashes

(* A temporary file is in use or was left by a crash, which leaves at most *)
(* one: failing calls clean up, and the mutex keeps rewrites apart.        *)
TempFilesAccountedFor ==
  temps <= Cardinality({c \in Clients : pc[c] = "temp"}) + crashes

(* The store is an atomic session: every call takes effect at one moment   *)
(* (the assignment, the rename, the commit) or fails without any, among    *)
(* concurrent calls, cancellations, failures and crashes; and no call has  *)
(* an effect on data of the v1 format, not even Clear.                     *)
Phase(c) ==
  CASE pc[c] \in {"closed", "refused", "idle"} -> "out"
    [] pc[c] \in {"done", "failed"} -> pc[c]
    [] OTHER -> "asked"
Promise == INSTANCE AtomicSession WITH
  items <- content, phase <- [c \in Clients |-> Phase(c)], asked <- req, readable <- V1 \notin ToSet(content)
KeepsPromises ==
  /\ Promise!AInit(content)
  /\ [][Promise!ANext(answer', kind = "memory" /\ crashes' > crashes)]_(Promise!avars)

(* Every call returns, unless its process dies: no path keeps the mutex.   *)
CallsReturn == \A c \in Clients : pc[c] = "called" ~> pc[c] \in {"idle", "closed"}
=============================================================================
