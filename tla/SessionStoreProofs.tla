-------------------------- MODULE SessionStoreProofs --------------------------
(***************************************************************************)
(* Proofs about the session stores: for any number of clients, calls and   *)
(* crashes, the three stores are one atomic session.                       *)
(***************************************************************************)
EXTENDS SessionStore, FiniteSetTheorems, SequenceTheorems, TLAPS

(* A call that has not taken effect, and one that holds the lock.          *)
Pending == {"called", "waiting", "locked", "writing", "temp"}
Holding == {"locked", "writing", "temp"}
InCall == Pending \cup {"done", "failed"}

(* Calls that bring new items.                                             *)
Storing == {"append", "replace"}

Types ==
  /\ kind \in Kinds
  /\ content \in Seq(Items)
  /\ lock \in Clients \cup {NoClient}
  /\ temps \in Nat
  /\ pc \in [Clients -> Locations]
  /\ req = [c \in Clients |-> req[c]]
  /\ buf \in [Clients -> Seq(Items)]
  /\ answer \in [Clients -> Seq(Items)]
  /\ ctxDone \in [Clients -> BOOLEAN]
  /\ known \in [Clients -> Seq(Items)]
  /\ calls \in 0..MaxCalls /\ crashes \in 0..MaxCrashes

Asked(r) ==
  /\ r.op \in Storing \cup {"clear", "list"}
  /\ r.op \in Storing =>
       \E k \in 1..calls, n \in Sizes : r.with = newSessionItems(k, n)
  /\ r.op = "list" => r.limit \in {0, 1}

ReqInv == \A c \in Clients : pc[c] \in InCall => Asked(req[c])

(* The new items of a pending call are neither in the session nor among    *)
(* those of another call.                                                  *)
Brought(c) ==
  IF pc[c] \in Pending /\ req[c].op \in Storing THEN ToSet(req[c].with) ELSE {}

FreshInv ==
  /\ IsInjective(content)
  /\ \A item \in ToSet(content) : item[1] <= calls
  /\ \A c \in Clients : Brought(c) \cap ToSet(content) = {}
  /\ \A c, d \in Clients : c # d => Brought(c) \cap Brought(d) = {}

(* An open SQLite store has items of this version's format, and so has a   *)
(* session in memory.                                                      *)
FormatInv ==
  /\ kind = "memory" => V1 \notin ToSet(content)
  /\ \A c \in Clients :
       kind = "sqlite" /\ pc[c] \notin {"closed", "refused"} => V1 \notin ToSet(content)

(* While a call has the lock, what it is about to store follows from what  *)
(* is stored.                                                              *)
Writes(c) ==
  /\ kind # "memory" /\ (pc[c] = "temp" => kind = "file")
  /\ req[c].op # "list"
  /\ ~Unreadable(req[c], content)
  /\ buf[c] = Updated(content, req[c])

WriteInv ==
  \A c \in Clients :
    /\ pc[c] \in Holding =>
         lock = c /\ (kind = "sqlite" => req[c].op # "list")
    /\ IF pc[c] \in {"writing", "temp"} THEN Writes(c) ELSE buf[c] = <<>>

(* There is one temporary file more than crashes left, if any.             *)
TempInv ==
  IF \E c \in Clients : pc[c] = "temp" THEN temps \in 1 .. (crashes + 1)
  ELSE temps \in 0 .. crashes

(* The inductive invariant.                                                *)
IInv == Types /\ ReqInv /\ FreshInv /\ FormatInv /\ WriteInv /\ TempInv

-----------------------------------------------------------------------------
(* Sequences without duplicates.                                           *)

LEMMA ConcatDistinct ==
  ASSUME NEW s \in Seq(Items), NEW t \in Seq(Items), IsInjective(s), IsInjective(t),
         ToSet(s) \cap ToSet(t) = {}
  PROVE  /\ s \o t \in Seq(Items) /\ IsInjective(s \o t)
         /\ ToSet(s \o t) \subseteq ToSet(s) \cup ToSet(t)
<1> DEFINE m == Len(s)
           n == Len(t)
           u == s \o t
<1>1. /\ m \in Nat /\ n \in Nat /\ DOMAIN s = 1 .. m /\ DOMAIN t = 1 .. n
      /\ u \in Seq(Items) /\ DOMAIN u = 1 .. (m + n)
  BY ConcatProperties
<1>2. ASSUME NEW i \in 1 .. (m + n)
      PROVE  \/ i \in 1 .. m /\ u[i] = s[i]
             \/ i - m \in 1 .. n /\ u[i] = t[i - m]
  BY <1>1, <1>2, ConcatProperties
<1>3. /\ \A i \in 1 .. m : s[i] \in ToSet(s)
      /\ \A i \in 1 .. n : t[i] \in ToSet(t)
  BY <1>1 DEF ToSet
<1>4. /\ \A i, j \in 1 .. m : s[i] = s[j] => i = j
      /\ \A i, j \in 1 .. n : t[i] = t[j] => i = j
  BY <1>1 DEF IsInjective
<1> HIDE DEF m, n, u
<1>5. ASSUME NEW i \in 1 .. (m + n), NEW j \in 1 .. (m + n), u[i] = u[j]
      PROVE  i = j
  <2>1. CASE i \in 1 .. m /\ u[i] = s[i]
    <3>1. j \in 1 .. m /\ u[j] = s[j]
      BY <1>2, <1>3, <1>5, <2>1
    <3> QED
      BY <1>4, <1>5, <2>1, <3>1
  <2>2. CASE i - m \in 1 .. n /\ u[i] = t[i - m]
    <3>1. j - m \in 1 .. n /\ u[j] = t[j - m]
      BY <1>2, <1>3, <1>5, <2>2
    <3>2. i - m = j - m
      BY <1>4, <1>5, <2>2, <3>1
    <3> QED
      BY <1>1, <3>2
  <2> QED
    BY <1>2, <2>1, <2>2
<1>6. IsInjective(u)
  BY <1>1, <1>5 DEF IsInjective
<1>7. ToSet(u) \subseteq ToSet(s) \cup ToSet(t)
  <2>1. ASSUME NEW x \in ToSet(u) PROVE x \in ToSet(s) \cup ToSet(t)
    <3>1. PICK i \in 1 .. (m + n) : x = u[i]
      BY <1>1 DEF ToSet
    <3> QED
      BY <1>2, <1>3, <3>1
  <2> QED
    BY <2>1
<1> QED
  BY <1>1, <1>6, <1>7 DEF u

LEMMA SubSeqDistinct ==
  ASSUME NEW s \in Seq(Items), IsInjective(s), NEW a \in 1 .. (Len(s) + 1),
         NEW b \in 0 .. Len(s)
  PROVE  /\ SubSeq(s, a, b) \in Seq(Items) /\ IsInjective(SubSeq(s, a, b))
         /\ ToSet(SubSeq(s, a, b)) = {s[k] : k \in a .. b}
<1> DEFINE u == SubSeq(s, a, b)
           n == IF a <= b THEN b - a + 1 ELSE 0
<1>1. \A k \in a .. b : s[k] \in Items /\ k \in DOMAIN s
  OBVIOUS
<1>2. /\ u \in Seq(Items) /\ Len(u) = n
      /\ \A k \in 1 .. (b - a + 1) : u[k] = s[a + k - 1]
  BY <1>1, SubSeqProperties
<1>3. n \in Nat /\ DOMAIN u = 1 .. n
  BY <1>2
<1>4. \A k \in 1 .. n : u[k] = s[a + k - 1] /\ a + k - 1 \in a .. b
  BY <1>2
<1>5. \A k \in a .. b : k - a + 1 \in 1 .. n /\ u[k - a + 1] = s[k]
  <2> SUFFICES ASSUME NEW k \in a .. b
               PROVE  k - a + 1 \in 1 .. n /\ u[k - a + 1] = s[k]
    OBVIOUS
  <2>1. k - a + 1 \in 1 .. n /\ a + (k - a + 1) - 1 = k
    OBVIOUS
  <2> QED
    BY <1>4, <2>1
<1> HIDE DEF u, n
<1>6. IsInjective(u)
  BY <1>1, <1>3, <1>4 DEF IsInjective
<1>7. ToSet(u) = {s[k] : k \in a .. b}
  <2>1. ASSUME NEW k \in 1 .. n PROVE u[k] \in {s[l] : l \in a .. b}
    BY <1>4
  <2>2. ASSUME NEW k \in a .. b PROVE s[k] \in {u[l] : l \in 1 .. n}
    BY <1>5
  <2> QED
    BY <1>3, <2>1, <2>2 DEF ToSet
<1> QED
  BY <1>2, <1>6, <1>7 DEF u

(* The items of a call carry its number.                                   *)
LEMMA NewItems ==
  ASSUME NEW k \in 1 .. calls, NEW n \in Sizes, calls \in 0 .. MaxCalls
  PROVE  /\ newSessionItems(k, n) \in Seq(Items) /\ IsInjective(newSessionItems(k, n))
         /\ \A item \in ToSet(newSessionItems(k, n)) : item[1] = k /\ item # V1
         /\ V1 \notin ToSet(newSessionItems(k, n))
<1> DEFINE s == newSessionItems(k, n)
<1>1. n \in Nat /\ MaxCalls \in Nat
  BY StoreAssumption
<1>2. \A j \in 1 .. n : <<k, j>> \in Items
  BY <1>1 DEF Items
<1>3. s \in Seq(Items) /\ DOMAIN s = 1 .. n /\ \A j \in 1 .. n : s[j] = <<k, j>>
  BY <1>1, <1>2, IsASeq DEF newSessionItems
<1> HIDE DEF s
<1>4. IsInjective(s)
  BY <1>3 DEF IsInjective
<1>5. \A item \in ToSet(s) : item[1] = k /\ item # V1
  BY <1>3 DEF ToSet, V1
<1> QED
  BY <1>3, <1>4, <1>5 DEF s

(* Without duplicates the bounds of a range are where its ends are.        *)
LEMMA BoundsFound ==
  ASSUME NEW s \in Seq(Items), IsInjective(s), NEW first, NEW last,
         replacementBounds(s, first, last) # <<0, 0>>
  PROVE  \E i \in 1 .. Len(s), j \in 1 .. Len(s) :
           /\ i <= j /\ s[i] = first /\ s[j] = last
           /\ replacementBounds(s, first, last) = <<i, j>>
<1> DEFINE Place(id) == SelectLastInSeq(s, LAMBDA item : item = id)
<1>1. ASSUME NEW id, Place(id) # 0
      PROVE  Place(id) \in 1 .. Len(s) /\ s[Place(id)] = id
  <2> DEFINE I == {i \in 1 .. Len(s) : s[i] = id}
  <2>1. Place(id) = IF I # {} THEN Max(I) ELSE 0
    BY DEF SelectLastInSeq
  <2>2. PICK i \in I : TRUE
    BY <1>1, <2>1
  <2>3. \A j \in I : j = i
    BY <2>2 DEF IsInjective
  <2>4. I = {i} /\ i \in Int
    BY <2>2, <2>3
  <2>5. Max({i}) = i
    BY <2>4 DEF Max
  <2> QED
    BY <1>1, <2>1, <2>2, <2>4, <2>5
<1>2. replacementBounds(s, first, last) =
        IF Place(first) = 0 \/ Place(last) = 0 \/ Place(first) > Place(last)
          THEN <<0, 0>> ELSE <<Place(first), Place(last)>>
  BY DEF replacementBounds
<1> HIDE DEF Place
<1>3. /\ Place(first) # 0 /\ Place(last) # 0 /\ ~(Place(first) > Place(last))
      /\ replacementBounds(s, first, last) = <<Place(first), Place(last)>>
  BY <1>2
<1>4. /\ Place(first) \in 1 .. Len(s) /\ s[Place(first)] = first
      /\ Place(last) \in 1 .. Len(s) /\ s[Place(last)] = last
  BY <1>1, <1>3
<1> QED
  BY <1>3, <1>4

(* What a mutation stores has no duplicates and only old and new items.    *)
LEMMA UpdatedDistinct ==
  ASSUME NEW s \in Seq(Items), IsInjective(s), NEW r,
         r.op \in Storing \cup {"clear"}, ~Unreadable(r, s),
         r.op \in Storing =>
           /\ r.with \in Seq(Items) /\ IsInjective(r.with)
           /\ ToSet(r.with) \cap ToSet(s) = {}
  PROVE  /\ Updated(s, r) \in Seq(Items) /\ IsInjective(Updated(s, r))
         /\ r.op = "clear" => Updated(s, r) = <<>>
         /\ r.op \in Storing =>
              ToSet(Updated(s, r)) \subseteq ToSet(s) \cup ToSet(r.with)
<1>1. CASE r.op = "clear"
  <2>1. Updated(s, r) = <<>> /\ IsInjective(<<>>)
    BY <1>1 DEF Updated, IsInjective
  <2> QED
    BY <1>1, <2>1 DEF Storing
<1>2. CASE r.op = "append"
  <2>1. Updated(s, r) = s \o r.with
    BY <1>2 DEF Updated
  <2> QED
    BY <1>2, <2>1, ConcatDistinct DEF Storing
<1>3. CASE r.op = "replace"
  <2>1. PICK i \in 1 .. Len(s), j \in 1 .. Len(s) :
          i <= j /\ replacementBounds(s, r.first, r.last) = <<i, j>>
    BY <1>3, BoundsFound DEF Unreadable
  <2> DEFINE a == SubSeq(s, 1, i - 1)
             b == SubSeq(s, j + 1, Len(s))
  <2>2. Updated(s, r) = a \o r.with \o b
    <3> DEFINE at == replacementBounds(s, r.first, r.last)
    <3>1. at[1] = i /\ at[2] = j
      BY <2>1
    <3>2. Updated(s, r) = SubSeq(s, 1, at[1] - 1) \o r.with \o SubSeq(s, at[2] + 1, Len(s))
      BY <1>3 DEF Updated
    <3> HIDE DEF at
    <3> QED
      BY <3>1, <3>2
  <2>3. Len(s) \in Nat /\ DOMAIN s = 1 .. Len(s)
    OBVIOUS
  <2>4. /\ a \in Seq(Items) /\ IsInjective(a) /\ ToSet(a) = {s[k] : k \in 1 .. (i - 1)}
    <3>1. 1 \in 1 .. (Len(s) + 1) /\ i - 1 \in 0 .. Len(s)
      BY <2>3
    <3> QED
      BY <3>1, SubSeqDistinct
  <2>5. /\ b \in Seq(Items) /\ IsInjective(b)
        /\ ToSet(b) = {s[k] : k \in (j + 1) .. Len(s)}
    <3>1. j + 1 \in 1 .. (Len(s) + 1) /\ Len(s) \in 0 .. Len(s)
      BY <2>3
    <3> QED
      BY <3>1, SubSeqDistinct
  <2>6. ToSet(a) \subseteq ToSet(s) /\ ToSet(b) \subseteq ToSet(s)
    BY <2>3, <2>4, <2>5 DEF ToSet
  <2>7. ToSet(a) \cap ToSet(b) = {}
    <3>1. ASSUME NEW k \in 1 .. (i - 1), NEW l \in (j + 1) .. Len(s) PROVE s[k] # s[l]
      <4>1. k \in 1 .. Len(s) /\ l \in 1 .. Len(s) /\ k # l
        BY <2>1, <2>3
      <4> QED
        BY <2>3, <4>1 DEF IsInjective
    <3> HIDE DEF a, b
    <3> QED
      BY <2>4, <2>5, <3>1
  <2> HIDE DEF a, b
  <2>8. r.op \in Storing /\ r.op # "clear"
    BY <1>3 DEF Storing
  <2>9. /\ a \o r.with \in Seq(Items) /\ IsInjective(a \o r.with)
        /\ ToSet(a \o r.with) \subseteq ToSet(a) \cup ToSet(r.with)
    <3>1. ToSet(a) \cap ToSet(r.with) = {}
      BY <2>6, <2>8
    <3> QED
      BY <2>4, <2>8, <3>1, ConcatDistinct
  <2>10. /\ (a \o r.with) \o b \in Seq(Items) /\ IsInjective((a \o r.with) \o b)
         /\ ToSet((a \o r.with) \o b) \subseteq ToSet(a \o r.with) \cup ToSet(b)
    <3>1. ToSet(a \o r.with) \cap ToSet(b) = {}
      BY <2>6, <2>7, <2>8, <2>9
    <3> QED
      BY <2>5, <2>9, <3>1, ConcatDistinct
  <2> QED
    BY <2>2, <2>6, <2>8, <2>9, <2>10
<1> QED
  BY <1>1, <1>2, <1>3 DEF Storing

-----------------------------------------------------------------------------
(* What calls bring and answer.                                            *)

LEMMA Brings ==
  ASSUME IInv, NEW c \in Clients, pc[c] \in InCall, req[c].op \in Storing
  PROVE  /\ req[c].with \in Seq(Items) /\ IsInjective(req[c].with)
         /\ \A item \in ToSet(req[c].with) : item[1] <= calls /\ item # V1
<1>1. PICK k \in 1..calls, n \in Sizes : req[c].with = newSessionItems(k, n)
  BY DEF IInv, ReqInv, Asked
<1>2. calls \in 0..MaxCalls
  BY DEF IInv, Types
<1>3. k <= calls
  BY <1>1
<1> QED
  BY <1>1, <1>2, <1>3, NewItems

LEMMA RecentItems ==
  ASSUME Types, NEW limit \in {0, 1}
  PROVE  lastNItems(content, limit) \in Seq(Items)
<1>1. content \in Seq(Items) /\ Len(content) \in Nat
  BY DEF Types
<1>2. CASE limit = 0 \/ limit >= Len(content)
  BY <1>1, <1>2 DEF lastNItems
<1>3. CASE ~(limit = 0 \/ limit >= Len(content))
  <2>1. lastNItems(content, limit) = SubSeq(content, Len(content) - limit + 1, Len(content))
    BY <1>3 DEF lastNItems
  <2>2. \A i \in Len(content) - limit + 1 .. Len(content) : content[i] \in Items
    BY <1>1, <1>3
  <2>3. Len(content) - limit + 1 \in Int /\ Len(content) \in Int
    BY <1>1, <1>3
  <2> QED
    BY <2>1, <2>2, <2>3, SubSeqProperties
<1> QED
  BY <1>2, <1>3

(* What the call of c would store keeps the items apart and readable.      *)
LEMMA Effective ==
  ASSUME IInv, NEW c \in Clients, pc[c] \in Holding, req[c].op # "list",
         ~Unreadable(req[c], content)
  PROVE  /\ req[c].op \in Storing \cup {"clear"}
         /\ Updated(content, req[c]) \in Seq(Items)
         /\ IsInjective(Updated(content, req[c]))
         /\ req[c].op # "clear" => req[c].with \in Seq(Items)
         /\ ToSet(Updated(content, req[c])) \subseteq ToSet(content) \cup Brought(c)
         /\ \A item \in ToSet(Updated(content, req[c])) : item[1] <= calls /\ item # V1
         /\ V1 \notin ToSet(content)
<1>1. pc[c] \in InCall /\ pc[c] \in Pending
  BY DEF Holding, InCall, Pending
<1>2. req[c].op \in Storing \cup {"clear"}
  BY <1>1 DEF IInv, ReqInv, Asked
<1>3. req[c].op \in Storing =>
        /\ req[c].with \in Seq(Items) /\ IsInjective(req[c].with)
        /\ \A item \in ToSet(req[c].with) : item[1] <= calls /\ item # V1
  BY <1>1, Brings
<1>4. content \in Seq(Items) /\ IsInjective(content)
  BY DEF IInv, Types, FreshInv
<1>5. req[c].op \in Storing => Brought(c) = ToSet(req[c].with)
  BY <1>1 DEF Brought
<1>6. Brought(c) \cap ToSet(content) = {} /\ \A item \in ToSet(content) : item[1] <= calls
  BY DEF IInv, FreshInv
<1>7. V1 \notin ToSet(content)
  BY DEF Unreadable
<1>8. /\ Updated(content, req[c]) \in Seq(Items)
      /\ IsInjective(Updated(content, req[c]))
      /\ req[c].op = "clear" => Updated(content, req[c]) = <<>>
      /\ req[c].op \in Storing =>
           ToSet(Updated(content, req[c])) \subseteq ToSet(content) \cup ToSet(req[c].with)
  BY <1>2, <1>3, <1>4, <1>5, <1>6, UpdatedDistinct
<1>9. ToSet(<<>>) = {}
  BY DEF ToSet
<1> QED
  BY <1>2, <1>3, <1>5, <1>6, <1>7, <1>8, <1>9

(* The call of c takes effect.                                             *)
Effect(c) ==
  /\ pc[c] \in Holding /\ pc'[c] = "done"
  /\ req[c].op # "list" /\ ~Unreadable(req[c], content)
  /\ content' = Updated(content, req[c])
  /\ \A d \in Clients \ {c} : pc'[d] = pc[d]
  /\ UNCHANGED <<kind, req, known, calls, crashes>>
  /\ answer' =
       [answer EXCEPT ![c] = IF req[c].op = "clear" THEN <<>> ELSE req[c].with]

LEMMA Effects ==
  ASSUME IInv, [Next]_vars
  PROVE  \/ UNCHANGED content
         \/ content' = <<>> /\ kind = "memory" /\ kind' = "memory"
         \/ \E c \in Clients : Effect(c)
<1>1. pc \in [Clients -> Locations]
  BY DEF IInv, Types
<1>2. ASSUME NEW c \in Clients, Use(c) PROVE UNCHANGED content \/ Effect(c)
  BY <1>1, <1>2 DEF Use, Effect, Succeed, Goto, Holding
<1>3. ASSUME NEW c \in Clients, Rename(c) \/ Commit(c) PROVE Effect(c)
  <2>1. pc[c] \in {"writing", "temp"} /\ Stores(c)
    BY <1>3 DEF Rename, Commit
  <2>2. buf[c] = Updated(content, req[c]) /\ ~Unreadable(req[c], content) /\ req[c].op # "list"
    BY <2>1 DEF IInv, WriteInv, Writes
  <2> QED
    BY <1>1, <2>1, <2>2 DEF Stores, Succeed, Goto, Effect, Holding
<1>4. ASSUME NEW c \in Clients, Crash(c)
      PROVE  UNCHANGED content \/ (content' = <<>> /\ kind = "memory" /\ kind' = "memory")
  BY <1>4 DEF Crash
<1>5. ASSUME NEW c \in Clients,
             \/ Open(c) \/ Call(c) \/ Cancel(c) \/ Lock(c) \/ Enter(c) \/ Snapshot(c)
             \/ GiveUp(c) \/ WriteTemp(c) \/ StorageFails(c) \/ Return(c)
      PROVE  UNCHANGED content
  BY <1>5 DEF Open, Call, Cancel, Lock, Enter, Snapshot, GiveUp, WriteTemp, StorageFails,
     Return, store
<1>6. CASE UNCHANGED vars
  BY <1>6 DEF vars, store
<1> QED
  BY <1>2, <1>3, <1>4, <1>5, <1>6 DEF Next, Step

LEMMA ContentStep ==
  ASSUME IInv, [Next]_vars
  PROVE  content' \in Seq(Items)
<1>1. content \in Seq(Items)
  BY DEF IInv, Types
<1>2. ASSUME NEW c \in Clients, Effect(c) PROVE content' \in Seq(Items)
  BY <1>2, Effective DEF Effect
<1>3. <<>> \in Seq(Items)
  OBVIOUS
<1> QED
  BY <1>1, <1>2, <1>3, Effects

LEMMA Answers ==
  ASSUME Types, NEW c \in Clients,
         Fail(c) \/ \E result \in Seq(Items) : Succeed(c, result)
  PROVE  pc' \in [Clients -> Locations] /\ answer' \in [Clients -> Seq(Items)]
<1>1. pc \in [Clients -> Locations] /\ answer \in [Clients -> Seq(Items)]
  BY DEF Types
<1>2. <<>> \in Seq(Items)
  OBVIOUS
<1>3. CASE Fail(c)
  BY <1>1, <1>2, <1>3 DEF Fail, Goto, Locations
<1>4. CASE \E result \in Seq(Items) : Succeed(c, result)
  BY <1>1, <1>4 DEF Succeed, Goto, Locations
<1> QED
  BY <1>3, <1>4

LEMMA ListAnswer ==
  ASSUME IInv, NEW c \in Clients, pc[c] \in InCall, req[c].op = "list"
  PROVE  req[c].limit \in {0, 1} /\ lastNItems(content, req[c].limit) \in Seq(Items)
BY RecentItems DEF IInv, ReqInv, Asked

(* Every variable keeps its type.                                          *)
LEMMA TypesStep == Types /\ IInv /\ [Next]_vars => Types'
<1> SUFFICES ASSUME Types, IInv, [Next]_vars PROVE Types'
  OBVIOUS
<1> USE DEF Types, Locations, store
<1>0. IInv
  OBVIOUS
<1>00. content' \in Seq(Items)
  BY ContentStep
<1>1. ASSUME NEW c \in Clients, Open(c) PROVE Types'
  BY <1>1, <1>00 DEF Open, Goto
<1>2. ASSUME NEW c \in Clients, Call(c) PROVE Types'
  <2>1. calls' \in 0..MaxCalls
    BY <1>2, StoreAssumption DEF Call
  <2>2. req' = [d \in Clients |-> req'[d]]
    BY <1>2 DEF Call
  <2> QED
    BY <1>00, <1>2, <2>1, <2>2 DEF Call, Goto
<1>3. ASSUME NEW c \in Clients, Cancel(c) PROVE Types'
  BY <1>3, <1>00 DEF Cancel
<1>4. ASSUME NEW c \in Clients, Lock(c) PROVE Types'
  BY <1>4, <1>00 DEF Lock, Goto
<1>5. ASSUME NEW c \in Clients, Enter(c) PROVE Types'
  <2>1. <<>> \in Seq(Items)
    OBVIOUS
  <2>2. pc' \in [Clients -> Locations] /\ answer' \in [Clients -> Seq(Items)]
    <3>1. CASE Goto(c, "waiting") /\ UNCHANGED answer
      BY <3>1 DEF Goto
    <3>2. CASE Fail(c) \/ Succeed(c, <<>>)
      BY <2>1, <3>2, Answers
    <3> QED
      BY <1>5, <3>1, <3>2 DEF Enter
  <2> QED
    BY <1>00, <1>5, <2>2 DEF Enter
<1>6. ASSUME NEW c \in Clients, Snapshot(c) PROVE Types'
  <2>1. pc' \in [Clients -> Locations] /\ answer' \in [Clients -> Seq(Items)]
    BY <1>0, <1>6, ListAnswer, Answers DEF Snapshot, InCall, Pending
  <2> QED
    BY <1>00, <1>6, <2>1 DEF Snapshot
<1>7. ASSUME NEW c \in Clients, GiveUp(c) PROVE Types'
  BY <1>7, <1>00 DEF GiveUp, Fail, Goto
<1>8. ASSUME NEW c \in Clients, Use(c) PROVE Types'
  <2>1. /\ pc[c] = "locked" /\ c \in Clients
        /\ UNCHANGED <<kind, lock, temps, req, ctxDone, known, calls, crashes>>
    BY <1>8 DEF Use
  <2>2. /\ pc' \in [Clients -> Locations] /\ buf' \in [Clients -> Seq(Items)]
        /\ answer' \in [Clients -> Seq(Items)]
    <3>1. CASE ctxDone[c] \/ Unreadable(req[c], content)
      BY <1>8, <3>1, Answers DEF Use
    <3>2. CASE ~(ctxDone[c] \/ Unreadable(req[c], content)) /\ req[c].op = "list"
      BY <1>8, <1>0, <2>1, <3>2, ListAnswer, Answers DEF Use, InCall, Pending
    <3>3. CASE ~(ctxDone[c] \/ Unreadable(req[c], content)) /\ req[c].op # "list"
      <4>1. /\ Updated(content, req[c]) \in Seq(Items)
            /\ req[c].op # "clear" => req[c].with \in Seq(Items)
        BY <1>0, <2>1, <3>3, Effective DEF Holding
      <4>2. (IF req[c].op = "clear" THEN <<>> ELSE req[c].with) \in Seq(Items)
        BY <4>1
      <4>3. CASE kind = "memory"
        BY <1>8, <3>3, <4>2, <4>3, Answers DEF Use
      <4>4. CASE kind # "memory"
        BY <1>8, <3>3, <4>1, <4>4 DEF Use, Goto
      <4> QED
        BY <4>3, <4>4
    <3> QED
      BY <3>1, <3>2, <3>3
  <2> QED
    BY <1>00, <2>1, <2>2
<1>9. ASSUME NEW c \in Clients, WriteTemp(c) PROVE Types'
  BY <1>9, <1>00 DEF WriteTemp, Goto
<1>10. ASSUME NEW c \in Clients, Rename(c) PROVE Types'
  <2>1. pc[c] \in {"temp", "writing"} /\ ~Unreadable(req[c], content) /\ req[c].op # "list"
    BY <1>0, <1>10 DEF Rename, IInv, WriteInv, Writes
  <2>2. req[c].op # "clear" => req[c].with \in Seq(Items)
    BY <1>0, <2>1, Effective DEF Holding
  <2>3. answer' \in [Clients -> Seq(Items)]
    BY <1>10, <2>2 DEF Rename, Stores, Succeed
  <2>4. buf' \in [Clients -> Seq(Items)] /\ pc' \in [Clients -> Locations]
    BY <1>10 DEF Rename, Stores, Succeed, Goto
  <2>5. temps' \in Nat
    BY <1>0, <1>10 DEF Rename, IInv, TempInv
  <2> QED
    BY <1>00, <1>10, <2>3, <2>4, <2>5 DEF Rename, Stores
<1>11. ASSUME NEW c \in Clients, Commit(c) PROVE Types'
  <2>1. pc[c] \in {"temp", "writing"} /\ ~Unreadable(req[c], content) /\ req[c].op # "list"
    BY <1>0, <1>11 DEF Commit, IInv, WriteInv, Writes
  <2>2. req[c].op # "clear" => req[c].with \in Seq(Items)
    BY <1>0, <2>1, Effective DEF Holding
  <2>3. answer' \in [Clients -> Seq(Items)]
    BY <1>11, <2>2 DEF Commit, Stores, Succeed
  <2>4. buf' \in [Clients -> Seq(Items)] /\ pc' \in [Clients -> Locations]
    BY <1>11 DEF Commit, Stores, Succeed, Goto
  <2>5. temps' \in Nat
    BY <1>0, <1>11 DEF Commit, IInv, TempInv
  <2> QED
    BY <1>00, <1>11, <2>3, <2>4, <2>5 DEF Commit, Stores
<1>12. ASSUME NEW c \in Clients, StorageFails(c) PROVE Types'
  <2>1. temps' \in Nat
    BY <1>0, <1>12 DEF StorageFails, IInv, TempInv
  <2> QED
    BY <1>00, <1>12, <2>1 DEF StorageFails, Fail, Goto
<1>13. ASSUME NEW c \in Clients, Return(c) PROVE Types'
  <2>1. pc' \in [Clients -> Locations] /\ lock' \in Clients \cup {NoClient}
    BY <1>13 DEF Return, Goto
  <2>2. known' \in [Clients -> Seq(Items)] /\ answer' \in [Clients -> Seq(Items)]
    BY <1>13 DEF Return
  <2>3. req' = [d \in Clients |-> req'[d]] /\ ctxDone' \in [Clients -> BOOLEAN]
    BY <1>13 DEF Return
  <2> QED
    BY <1>00, <1>13, <2>1, <2>2, <2>3 DEF Return
<1>14. ASSUME NEW c \in Clients, Crash(c) PROVE Types'
  <2>1. crashes' \in 0..MaxCrashes
    BY <1>14, StoreAssumption DEF Crash
  <2>2. lock' \in Clients \cup {NoClient} /\ pc' \in [Clients -> Locations]
    BY <1>14 DEF Crash
  <2>3. /\ known' \in [Clients -> Seq(Items)] /\ answer' \in [Clients -> Seq(Items)]
        /\ buf' \in [Clients -> Seq(Items)]
    <3>1. <<>> \in Seq(Items)
      OBVIOUS
    <3> QED
      BY <1>14, <3>1 DEF Crash
  <2>4. req' = [d \in Clients |-> req'[d]] /\ ctxDone' \in [Clients -> BOOLEAN]
    BY <1>14 DEF Crash
  <2> QED
    BY <1>00, <1>14, <2>1, <2>2, <2>3, <2>4 DEF Crash
<1>15. CASE UNCHANGED vars
  BY <1>15, <1>00 DEF vars, client
<1> QED
  BY <1>1, <1>2, <1>3, <1>4, <1>5, <1>6, <1>7, <1>8, <1>9, <1>10, <1>11,
     <1>12, <1>13, <1>14, <1>15 DEF Next, Step
(* A client makes one of the calls of a session.                           *)
LEMMA ReqStep == Types /\ ReqInv /\ [Next]_vars => ReqInv'
<1> SUFFICES ASSUME Types, ReqInv, [Next]_vars PROVE ReqInv'
  OBVIOUS
<1> USE DEF Types, ReqInv
<1>1. ASSUME NEW c \in Clients, Open(c) PROVE ReqInv'
  BY <1>1 DEF Asked, InCall, Pending, Open, Goto
<1>2. ASSUME NEW c \in Clients, Call(c) PROVE ReqInv'
  <2>1. Asked(req[c])'
    <3>1. PICK r \in Requests(c) : req' = [req EXCEPT ![c] = r]
      BY <1>2 DEF Call
    <3>2. calls' = calls + 1 /\ calls \in Nat /\ req'[c] = r
      BY <1>2, <3>1 DEF Call
    <3>3. calls + 1 \in 1 .. calls'
      BY <3>2
    <3>4. /\ r.op \in Storing \cup {"clear", "list"}
          /\ r.op \in Storing => \E n \in Sizes : r.with = newSessionItems(calls + 1, n)
          /\ r.op = "list" => r.limit \in {0, 1}
      BY <3>1 DEF Requests, Storing
    <3> QED
      BY <3>2, <3>3, <3>4 DEF Asked
  <2>2. ASSUME NEW d \in Clients, d # c, pc'[d] \in InCall PROVE Asked(req[d])'
    <3>1. req'[d] = req[d] /\ pc'[d] = pc[d] /\ Asked(req[d])
      BY <1>2, <2>2 DEF Call, Goto
    <3>2. calls' = calls + 1 /\ calls \in Nat
      BY <1>2 DEF Call
    <3>3. \A k \in 1 .. calls : k \in 1 .. calls'
      BY <3>2
    <3> QED
      BY <3>1, <3>3 DEF Asked
  <2> QED
    BY <2>1, <2>2
<1>3. ASSUME NEW c \in Clients, Cancel(c) PROVE ReqInv'
  BY <1>3 DEF Asked, InCall, Pending, Cancel
<1>4. ASSUME NEW c \in Clients, Lock(c) PROVE ReqInv'
  BY <1>4 DEF Asked, InCall, Pending, Lock, Goto
<1>5. ASSUME NEW c \in Clients, Enter(c) PROVE ReqInv'
  BY <1>5 DEF Asked, InCall, Pending, Enter, Succeed, Fail, Goto
<1>6. ASSUME NEW c \in Clients, Snapshot(c) PROVE ReqInv'
  BY <1>6 DEF Asked, InCall, Pending, Snapshot, Succeed, Goto
<1>7. ASSUME NEW c \in Clients, GiveUp(c) PROVE ReqInv'
  BY <1>7 DEF Asked, InCall, Pending, GiveUp, Fail, Goto
<1>8. ASSUME NEW c \in Clients, Use(c) PROVE ReqInv'
  BY <1>8 DEF Asked, InCall, Pending, Use, Succeed, Fail, Goto
<1>9. ASSUME NEW c \in Clients, WriteTemp(c) PROVE ReqInv'
  BY <1>9 DEF Asked, InCall, Pending, WriteTemp, Goto
<1>10. ASSUME NEW c \in Clients, Rename(c) PROVE ReqInv'
  BY <1>10 DEF Asked, InCall, Pending, Rename, Stores, Succeed, Goto
<1>11. ASSUME NEW c \in Clients, Commit(c) PROVE ReqInv'
  BY <1>11 DEF Asked, InCall, Pending, Commit, Stores, Succeed, Goto
<1>12. ASSUME NEW c \in Clients, StorageFails(c) PROVE ReqInv'
  BY <1>12 DEF Asked, InCall, Pending, StorageFails, Fail, Goto
<1>13. ASSUME NEW c \in Clients, Return(c) PROVE ReqInv'
  BY <1>13 DEF Asked, InCall, Pending, Return, Goto
<1>14. ASSUME NEW c \in Clients, Crash(c) PROVE ReqInv'
  BY <1>14 DEF Asked, InCall, Pending, Crash, Process
<1>15. CASE UNCHANGED vars
  BY <1>15 DEF Asked, InCall, Pending, vars, client
<1> QED
  BY <1>1, <1>2, <1>3, <1>4, <1>5, <1>6, <1>7, <1>8, <1>9, <1>10, <1>11,
     <1>12, <1>13, <1>14, <1>15 DEF Next, Step

(* Only a call brings items, with a number of its own.                     *)
LEMMA BroughtStep ==
  ASSUME Types, ReqInv, [Next]_vars
  PROVE  \/ /\ \A d \in Clients : Brought(d)' \subseteq Brought(d)
            /\ calls' = calls
         \/ \E c \in Clients :
              /\ Call(c)
              /\ \A d \in Clients \ {c} : Brought(d)' = Brought(d)
              /\ \A item \in Brought(c)' : item[1] = calls + 1
<1> USE DEF Types
<1>1. ASSUME NEW c \in Clients, Call(c)
      PROVE  /\ \A d \in Clients \ {c} : Brought(d)' = Brought(d)
             /\ \A item \in Brought(c)' : item[1] = calls + 1
  <2>1. \A d \in Clients \ {c} : pc'[d] = pc[d] /\ req'[d] = req[d]
    BY <1>1 DEF Call, Goto
  <2>2. PICK r \in Requests(c) : req' = [req EXCEPT ![c] = r]
    BY <1>1 DEF Call
  <2>3. req'[c] = r /\ calls' = calls + 1 /\ calls' \in 0..MaxCalls /\ calls \in Nat
    BY <1>1, <2>2, StoreAssumption DEF Call
  <2>4. ASSUME r.op \in Storing PROVE \A item \in ToSet(r.with) : item[1] = calls + 1
    <3>1. PICK n \in Sizes : r.with = newSessionItems(calls + 1, n)
      BY <2>2, <2>4 DEF Requests, Storing
    <3>2. n \in Nat
      BY StoreAssumption
    <3> QED
      BY <3>1, <3>2 DEF ToSet, newSessionItems
  <2> QED
    BY <2>1, <2>3, <2>4 DEF Brought
<1>2. ASSUME NEW c \in Clients,
             \/ Open(c) \/ Cancel(c) \/ Lock(c) \/ Enter(c) \/ Snapshot(c) \/ GiveUp(c)
             \/ Use(c) \/ WriteTemp(c) \/ Rename(c) \/ Commit(c) \/ StorageFails(c)
             \/ Return(c) \/ Crash(c),
             NEW d \in Clients
      PROVE  calls' = calls /\ (pc'[d] \notin Pending \/ (pc[d] \in Pending /\ req'[d] = req[d]))
  <2>1. CASE Crash(c)
    BY <2>1 DEF Crash, Pending
  <2>2. CASE Return(c)
    BY <2>2 DEF Return, Goto, Pending
  <2>3. CASE Use(c)
    BY <2>3 DEF Use, Succeed, Fail, Goto, Pending
  <2>4. CASE Rename(c) \/ Commit(c) \/ StorageFails(c) \/ WriteTemp(c)
    BY <2>4 DEF Rename, Commit, Stores, StorageFails, WriteTemp, Succeed, Fail, Goto, Pending
  <2>5. CASE Open(c) \/ Cancel(c) \/ Lock(c) \/ Enter(c) \/ Snapshot(c) \/ GiveUp(c)
    BY <2>5 DEF Open, Cancel, Lock, Enter, Snapshot, GiveUp, Succeed, Fail, Goto, Pending
  <2> QED
    BY <1>2, <2>1, <2>2, <2>3, <2>4, <2>5
<1>3. CASE UNCHANGED vars
  BY <1>3 DEF vars, client, Brought
<1> QED
  BY <1>1, <1>2, <1>3 DEF Next, Step, Brought

(* The items stay apart.                                                   *)
LEMMA FreshStep == IInv /\ [Next]_vars => FreshInv'
<1> SUFFICES ASSUME IInv, [Next]_vars PROVE FreshInv'
  OBVIOUS
<1>1. Types /\ ReqInv /\ FreshInv
  BY DEF IInv
<1>2. \A d \in Clients : \A item \in Brought(d) : item[1] <= calls
  BY Brings DEF Brought, InCall
<1>3. calls \in Nat
  BY <1>1 DEF Types
<1>4. IsInjective(<<>>) /\ ToSet(<<>>) = {}
  BY DEF IsInjective, ToSet
<1>5. CASE \E c \in Clients : Call(c)
  <2>1. PICK c \in Clients :
          /\ Call(c)
          /\ \A d \in Clients \ {c} : Brought(d)' = Brought(d)
          /\ \A item \in Brought(c)' : item[1] = calls + 1
    <3>1. calls' # calls
      BY <1>3, <1>5 DEF Call
    <3> QED
      BY <1>1, <3>1, BroughtStep
  <2>2. content' = content /\ calls' = calls + 1
    BY <2>1 DEF Call, store
  <2>3. \A item \in ToSet(content) : item[1] \in Int => item[1] # calls + 1
    BY <1>1, <1>3 DEF FreshInv
  <2>4. \A item \in ToSet(content) : item \in Items
    BY <1>1 DEF Types, ToSet
  <2>5. \A item \in ToSet(content) : item[1] # calls + 1 /\ item[1] <= calls'
    BY <1>1, <1>3, <2>2, <2>3, <2>4 DEF FreshInv, Items
  <2>6. \A d \in Clients : \A item \in Brought(d) : item[1] # calls + 1
    <3>1. \A d \in Clients : \A item \in Brought(d) : item \in Items
      BY Brings DEF Brought, InCall, ToSet
    <3> QED
      BY <1>2, <1>3, <3>1 DEF Items
  <2>7. \A d \in Clients : Brought(d)' \cap ToSet(content) = {}
    BY <1>1, <2>1, <2>5 DEF FreshInv
  <2>8. \A d, e \in Clients : d # e => Brought(d)' \cap Brought(e)' = {}
    BY <1>1, <2>1, <2>6 DEF FreshInv
  <2> QED
    BY <1>1, <2>2, <2>5, <2>7, <2>8 DEF FreshInv
<1>6. CASE ~(\E c \in Clients : Call(c))
  <2>1. calls' = calls /\ \A d \in Clients : Brought(d)' \subseteq Brought(d)
    BY <1>1, <1>6, BroughtStep
  <2>2. CASE UNCHANGED content
    BY <1>1, <2>1, <2>2 DEF FreshInv
  <2>3. CASE content' = <<>>
    BY <1>1, <1>4, <2>1, <2>3 DEF FreshInv
  <2>4. ASSUME NEW c \in Clients, Effect(c) PROVE FreshInv'
    <3>1. /\ IsInjective(content') /\ ToSet(content') \subseteq ToSet(content) \cup Brought(c)
          /\ \A item \in ToSet(content') : item[1] <= calls
      BY <2>4, Effective DEF Effect
    <3>2. Brought(c)' = {}
      BY <2>4 DEF Effect, Brought, Pending
    <3> QED
      BY <1>1, <2>1, <3>1, <3>2 DEF FreshInv
  <2> QED
    BY <2>2, <2>3, <2>4, Effects
<1> QED
  BY <1>5, <1>6

(* Nothing makes items of the old format of others, or others of them.     *)
LEMMA FormatKept ==
  ASSUME IInv, [Next]_vars
  PROVE  /\ V1 \in ToSet(content') <=> V1 \in ToSet(content)
         /\ kind' = kind
<1>1. V1 \notin ToSet(<<>>)
  BY DEF ToSet
<1>2. ASSUME NEW c \in Clients, Effect(c)
      PROVE  V1 \notin ToSet(content) /\ V1 \notin ToSet(content')
  BY <1>2, Effective DEF Effect
<1>3. kind = "memory" => V1 \notin ToSet(content)
  BY DEF IInv, FormatInv
<1>4. kind' = kind
  BY DEF Next, Step, Open, Call, Cancel, Lock, Enter, Snapshot, GiveUp, Use, WriteTemp,
     Rename, Commit, Stores, StorageFails, Return, Crash, vars, store
<1> QED
  BY <1>1, <1>2, <1>3, <1>4, Effects

LEMMA FormatStep == IInv /\ [Next]_vars => FormatInv'
<1> SUFFICES ASSUME IInv, [Next]_vars PROVE FormatInv'
  OBVIOUS
<1>1. Types /\ FormatInv
  BY DEF IInv
<1>2. ASSUME NEW c \in Clients, kind = "sqlite", pc'[c] \notin {"closed", "refused"},
             pc[c] \in {"closed", "refused"}
      PROVE  V1 \notin ToSet(content)
  <2>1. Open(c)
    <3>1. ASSUME NEW d \in Clients, pc[d] \notin {"closed", "refused"},
                 Call(d) \/ Cancel(d) \/ Lock(d) \/ Step(d) \/ Crash(d)
          PROVE  pc'[c] \in {"closed", "refused"}
      BY <1>1, <1>2, <3>1
         DEF Types, Step, Call, Cancel, Lock, Enter, Snapshot, GiveUp, Use, WriteTemp,
             Rename, Commit, Stores, StorageFails, Return, Crash, Succeed, Fail, Goto
    <3>2. ASSUME NEW d \in Clients, Open(d), d # c PROVE pc'[c] = pc[c]
      BY <1>1, <3>2 DEF Types, Open, Goto
    <3>3. ASSUME NEW d \in Clients, Call(d) \/ Cancel(d) \/ Lock(d) \/ Step(d) \/ Crash(d)
          PROVE  pc[d] \notin {"closed", "refused"}
      BY <3>3
         DEF Step, Call, Cancel, Lock, Enter, Snapshot, GiveUp, Use, WriteTemp,
             Rename, Commit, Stores, StorageFails, Return, Crash
    <3>4. CASE UNCHANGED vars
      BY <1>2, <3>4 DEF vars, client
    <3> QED
      BY <1>2, <3>1, <3>2, <3>3, <3>4 DEF Next
  <2> QED
    BY <1>1, <1>2, <2>1 DEF Types, Open, Goto
<1> QED
  BY <1>1, <1>2, FormatKept DEF FormatInv

(* A call that is not to write yet and holds nothing.                      *)
LEMMA NotTouched ==
  ASSUME NEW d \in Clients, pc'[d] = pc[d], req'[d] = req[d], buf'[d] = buf[d],
         UNCHANGED kind,
         pc[d] \in Holding => content' = content /\ lock' = lock,
         WriteInv
  PROVE  /\ pc'[d] \in Holding =>
              lock' = d /\ (kind' = "sqlite" => req'[d].op # "list")
         /\ IF pc'[d] \in {"writing", "temp"} THEN Writes(d)' ELSE buf'[d] = <<>>
BY DEF WriteInv, Writes, Holding

(* One call at a time changes the session, from what it read there.        *)
LEMMA WriteStep == Types /\ WriteInv /\ [Next]_vars => WriteInv'
<1> SUFFICES ASSUME Types, WriteInv, [Next]_vars PROVE WriteInv'
  OBVIOUS
<1> USE DEF Types
<1>1. ASSUME NEW c \in Clients, Open(c) PROVE WriteInv'
  <2>1. ASSUME NEW d \in Clients, d # c
        PROVE  /\ pc'[d] = pc[d] /\ req'[d] = req[d] /\ buf'[d] = buf[d] /\ kind' = kind
               /\ pc[d] \in Holding => content' = content /\ lock' = lock
    BY <1>1, <2>1 DEF Holding, WriteInv, store, Open, Goto
  <2>2. /\ pc'[c] \in Holding =>
             lock' = c /\ (kind' = "sqlite" => req'[c].op # "list")
        /\ IF pc'[c] \in {"writing", "temp"} THEN Writes(c)' ELSE buf'[c] = <<>>
    BY <1>1 DEF WriteInv, Writes, Holding, store, Open, Goto
  <2> QED
    BY <2>1, <2>2, NotTouched DEF WriteInv
<1>2. ASSUME NEW c \in Clients, Call(c) PROVE WriteInv'
  <2>1. ASSUME NEW d \in Clients, d # c
        PROVE  /\ pc'[d] = pc[d] /\ req'[d] = req[d] /\ buf'[d] = buf[d] /\ kind' = kind
               /\ pc[d] \in Holding => content' = content /\ lock' = lock
    BY <1>2, <2>1 DEF Holding, WriteInv, store, Call, Goto
  <2>2. /\ pc'[c] \in Holding =>
             lock' = c /\ (kind' = "sqlite" => req'[c].op # "list")
        /\ IF pc'[c] \in {"writing", "temp"} THEN Writes(c)' ELSE buf'[c] = <<>>
    BY <1>2 DEF WriteInv, Writes, Holding, store, Call, Goto
  <2> QED
    BY <2>1, <2>2, NotTouched DEF WriteInv
<1>3. ASSUME NEW c \in Clients, Cancel(c) PROVE WriteInv'
  <2>1. ASSUME NEW d \in Clients, d # c
        PROVE  /\ pc'[d] = pc[d] /\ req'[d] = req[d] /\ buf'[d] = buf[d] /\ kind' = kind
               /\ pc[d] \in Holding => content' = content /\ lock' = lock
    BY <1>3, <2>1 DEF Holding, WriteInv, store, Cancel
  <2>2. /\ pc'[c] \in Holding =>
             lock' = c /\ (kind' = "sqlite" => req'[c].op # "list")
        /\ IF pc'[c] \in {"writing", "temp"} THEN Writes(c)' ELSE buf'[c] = <<>>
    BY <1>3 DEF WriteInv, Writes, Holding, store, Cancel
  <2> QED
    BY <2>1, <2>2, NotTouched DEF WriteInv
<1>4. ASSUME NEW c \in Clients, Lock(c) PROVE WriteInv'
  <2>1. ASSUME NEW d \in Clients, d # c
        PROVE  /\ pc'[d] = pc[d] /\ req'[d] = req[d] /\ buf'[d] = buf[d] /\ kind' = kind
               /\ pc[d] \in Holding => content' = content /\ lock' = lock
    BY <1>4, <2>1, StoreAssumption DEF Holding, WriteInv, store, Lock, Goto
  <2>2. /\ pc'[c] \in Holding =>
             lock' = c /\ (kind' = "sqlite" => req'[c].op # "list")
        /\ IF pc'[c] \in {"writing", "temp"} THEN Writes(c)' ELSE buf'[c] = <<>>
    BY <1>4 DEF WriteInv, Writes, Holding, store, Lock, Goto
  <2> QED
    BY <2>1, <2>2, NotTouched DEF WriteInv
<1>5. ASSUME NEW c \in Clients, Enter(c) PROVE WriteInv'
  <2>1. ASSUME NEW d \in Clients, d # c
        PROVE  /\ pc'[d] = pc[d] /\ req'[d] = req[d] /\ buf'[d] = buf[d] /\ kind' = kind
               /\ pc[d] \in Holding => content' = content /\ lock' = lock
    BY <1>5, <2>1 DEF Holding, WriteInv, store, Enter, Succeed, Fail, Goto
  <2>2. /\ pc'[c] \in Holding =>
             lock' = c /\ (kind' = "sqlite" => req'[c].op # "list")
        /\ IF pc'[c] \in {"writing", "temp"} THEN Writes(c)' ELSE buf'[c] = <<>>
    BY <1>5 DEF WriteInv, Writes, Holding, store, Enter, Succeed, Fail, Goto
  <2> QED
    BY <2>1, <2>2, NotTouched DEF WriteInv
<1>6. ASSUME NEW c \in Clients, Snapshot(c) PROVE WriteInv'
  <2>1. ASSUME NEW d \in Clients, d # c
        PROVE  /\ pc'[d] = pc[d] /\ req'[d] = req[d] /\ buf'[d] = buf[d] /\ kind' = kind
               /\ pc[d] \in Holding => content' = content /\ lock' = lock
    BY <1>6, <2>1 DEF Holding, WriteInv, store, Snapshot, Succeed, Goto
  <2>2. /\ pc'[c] \in Holding =>
             lock' = c /\ (kind' = "sqlite" => req'[c].op # "list")
        /\ IF pc'[c] \in {"writing", "temp"} THEN Writes(c)' ELSE buf'[c] = <<>>
    BY <1>6 DEF WriteInv, Writes, Holding, store, Snapshot, Succeed, Goto
  <2> QED
    BY <2>1, <2>2, NotTouched DEF WriteInv
<1>7. ASSUME NEW c \in Clients, GiveUp(c) PROVE WriteInv'
  <2>1. ASSUME NEW d \in Clients, d # c
        PROVE  /\ pc'[d] = pc[d] /\ req'[d] = req[d] /\ buf'[d] = buf[d] /\ kind' = kind
               /\ pc[d] \in Holding => content' = content /\ lock' = lock
    BY <1>7, <2>1 DEF Holding, WriteInv, store, GiveUp, Fail, Goto
  <2>2. /\ pc'[c] \in Holding =>
             lock' = c /\ (kind' = "sqlite" => req'[c].op # "list")
        /\ IF pc'[c] \in {"writing", "temp"} THEN Writes(c)' ELSE buf'[c] = <<>>
    BY <1>7 DEF WriteInv, Writes, Holding, store, GiveUp, Fail, Goto
  <2> QED
    BY <2>1, <2>2, NotTouched DEF WriteInv
<1>8. ASSUME NEW c \in Clients, Use(c) PROVE WriteInv'
  <2>1. ASSUME NEW d \in Clients, d # c
        PROVE  /\ pc'[d] = pc[d] /\ req'[d] = req[d] /\ buf'[d] = buf[d] /\ kind' = kind
               /\ pc[d] \in Holding => content' = content /\ lock' = lock
    BY <1>8, <2>1 DEF Holding, WriteInv, store, Use, Succeed, Fail, Goto
  <2>2. /\ pc'[c] \in Holding =>
             lock' = c /\ (kind' = "sqlite" => req'[c].op # "list")
        /\ IF pc'[c] \in {"writing", "temp"} THEN Writes(c)' ELSE buf'[c] = <<>>
    <3>1. /\ pc[c] = "locked" /\ lock = c /\ buf[c] = <<>> /\ lock' = lock
          /\ kind' = kind /\ req' = req /\ (kind = "sqlite" => req[c].op # "list")
      BY <1>8 DEF Use, WriteInv, Holding
    <3>2. \/ pc'[c] \in {"done", "failed"} /\ buf' = buf
          \/ /\ pc'[c] = "writing" /\ content' = content /\ kind # "memory"
             /\ ~Unreadable(req[c], content) /\ req[c].op # "list"
             /\ buf' = [buf EXCEPT ![c] = Updated(content, req[c])]
      BY <1>8 DEF Use, Succeed, Fail, Goto
    <3> QED
      BY <3>1, <3>2 DEF Writes, Holding
  <2> QED
    BY <2>1, <2>2, NotTouched DEF WriteInv
<1>9. ASSUME NEW c \in Clients, WriteTemp(c) PROVE WriteInv'
  <2>1. ASSUME NEW d \in Clients, d # c
        PROVE  /\ pc'[d] = pc[d] /\ req'[d] = req[d] /\ buf'[d] = buf[d] /\ kind' = kind
               /\ pc[d] \in Holding => content' = content /\ lock' = lock
    BY <1>9, <2>1 DEF Holding, WriteInv, store, WriteTemp, Goto
  <2>2. /\ pc'[c] \in Holding =>
             lock' = c /\ (kind' = "sqlite" => req'[c].op # "list")
        /\ IF pc'[c] \in {"writing", "temp"} THEN Writes(c)' ELSE buf'[c] = <<>>
    BY <1>9 DEF WriteInv, Writes, Holding, store, WriteTemp, Goto
  <2> QED
    BY <2>1, <2>2, NotTouched DEF WriteInv
<1>10. ASSUME NEW c \in Clients, Rename(c) PROVE WriteInv'
  <2>1. ASSUME NEW d \in Clients, d # c
        PROVE  /\ pc'[d] = pc[d] /\ req'[d] = req[d] /\ buf'[d] = buf[d] /\ kind' = kind
               /\ pc[d] \in Holding => content' = content /\ lock' = lock
    BY <1>10, <2>1 DEF Holding, WriteInv, store, Rename, Stores, Succeed, Goto
  <2>2. /\ pc'[c] \in Holding =>
             lock' = c /\ (kind' = "sqlite" => req'[c].op # "list")
        /\ IF pc'[c] \in {"writing", "temp"} THEN Writes(c)' ELSE buf'[c] = <<>>
    BY <1>10 DEF WriteInv, Writes, Holding, store, Rename, Stores, Succeed,
       Goto
  <2> QED
    BY <2>1, <2>2, NotTouched DEF WriteInv
<1>11. ASSUME NEW c \in Clients, Commit(c) PROVE WriteInv'
  <2>1. ASSUME NEW d \in Clients, d # c
        PROVE  /\ pc'[d] = pc[d] /\ req'[d] = req[d] /\ buf'[d] = buf[d] /\ kind' = kind
               /\ pc[d] \in Holding => content' = content /\ lock' = lock
    BY <1>11, <2>1 DEF Holding, WriteInv, store, Commit, Stores, Succeed, Goto
  <2>2. /\ pc'[c] \in Holding =>
             lock' = c /\ (kind' = "sqlite" => req'[c].op # "list")
        /\ IF pc'[c] \in {"writing", "temp"} THEN Writes(c)' ELSE buf'[c] = <<>>
    BY <1>11 DEF WriteInv, Writes, Holding, store, Commit, Stores, Succeed,
       Goto
  <2> QED
    BY <2>1, <2>2, NotTouched DEF WriteInv
<1>12. ASSUME NEW c \in Clients, StorageFails(c) PROVE WriteInv'
  <2>1. ASSUME NEW d \in Clients, d # c
        PROVE  /\ pc'[d] = pc[d] /\ req'[d] = req[d] /\ buf'[d] = buf[d] /\ kind' = kind
               /\ pc[d] \in Holding => content' = content /\ lock' = lock
    BY <1>12, <2>1 DEF Holding, WriteInv, store, StorageFails, Fail, Goto
  <2>2. /\ pc'[c] \in Holding =>
             lock' = c /\ (kind' = "sqlite" => req'[c].op # "list")
        /\ IF pc'[c] \in {"writing", "temp"} THEN Writes(c)' ELSE buf'[c] = <<>>
    BY <1>12 DEF WriteInv, Writes, Holding, store, StorageFails, Fail, Goto
  <2> QED
    BY <2>1, <2>2, NotTouched DEF WriteInv
<1>13. ASSUME NEW c \in Clients, Return(c) PROVE WriteInv'
  <2>1. ASSUME NEW d \in Clients, d # c
        PROVE  /\ pc'[d] = pc[d] /\ req'[d] = req[d] /\ buf'[d] = buf[d] /\ kind' = kind
               /\ pc[d] \in Holding => content' = content /\ lock' = lock
    BY <1>13, <2>1 DEF Holding, WriteInv, store, Return, Goto
  <2>2. /\ pc'[c] \in Holding =>
             lock' = c /\ (kind' = "sqlite" => req'[c].op # "list")
        /\ IF pc'[c] \in {"writing", "temp"} THEN Writes(c)' ELSE buf'[c] = <<>>
    BY <1>13 DEF WriteInv, Writes, Holding, store, Return, Goto
  <2> QED
    BY <2>1, <2>2, NotTouched DEF WriteInv
<1>14. ASSUME NEW c \in Clients, Crash(c) PROVE WriteInv'
  <2> DEFINE dead == Process(c)
  <2>1. /\ \A d \in dead : d \in Clients => pc'[d] = "closed" /\ buf'[d] = <<>>
        /\ \A d \in Clients \ dead :
             pc'[d] = pc[d] /\ req'[d] = req[d] /\ buf'[d] = buf[d]
        /\ kind' = kind /\ lock' = (IF lock \in dead THEN NoClient ELSE lock)
    BY <1>14 DEF Crash
  <2>2. \A d \in Clients \ dead : content' = content
    BY <1>14 DEF Crash, Process
  <2> HIDE DEF dead
  <2>3. ASSUME NEW d \in Clients \ dead, pc[d] \in Holding PROVE lock' = lock
    BY <2>1, <2>3 DEF WriteInv
  <2>4. ASSUME NEW d \in Clients \ dead
        PROVE  /\ pc'[d] \in Holding =>
                    lock' = d /\ (kind' = "sqlite" => req'[d].op # "list")
               /\ IF pc'[d] \in {"writing", "temp"} THEN Writes(d)' ELSE buf'[d] = <<>>
    BY <2>1, <2>2, <2>3, NotTouched
  <2> QED
    BY <2>1, <2>4 DEF WriteInv, Holding
<1>15. CASE UNCHANGED vars
  <2>1. UNCHANGED <<pc, req, buf, kind, content, lock>>
    BY <1>15 DEF vars, store, client
  <2> QED
    BY <2>1, NotTouched DEF WriteInv
<1> QED
  BY <1>1, <1>2, <1>3, <1>4, <1>5, <1>6, <1>7, <1>8, <1>9, <1>10, <1>11,
     <1>12, <1>13, <1>14, <1>15 DEF Next, Step

(* Every temporary file is in use or was left by a crash.                  *)
LEMMA TempStep == Types /\ WriteInv /\ TempInv /\ [Next]_vars => TempInv'
<1> SUFFICES ASSUME Types, WriteInv, TempInv, [Next]_vars PROVE TempInv'
  OBVIOUS
<1> USE DEF Types, TempInv
<1>1. ASSUME NEW c \in Clients, Open(c) PROVE TempInv'
  <2>1. temps' = temps /\ crashes' = crashes
    BY <1>1 DEF Open, store
  <2>2. \A d \in Clients : pc'[d] = "temp" <=> pc[d] = "temp"
    BY <1>1 DEF Open, Goto
  <2> QED
    BY <2>1, <2>2
<1>2. ASSUME NEW c \in Clients, Call(c) PROVE TempInv'
  <2>1. temps' = temps /\ crashes' = crashes
    BY <1>2 DEF Call, store
  <2>2. \A d \in Clients : pc'[d] = "temp" <=> pc[d] = "temp"
    BY <1>2 DEF Call, Goto
  <2> QED
    BY <2>1, <2>2
<1>3. ASSUME NEW c \in Clients, Cancel(c) PROVE TempInv'
  <2>1. temps' = temps /\ crashes' = crashes
    BY <1>3 DEF Cancel, store
  <2>2. \A d \in Clients : pc'[d] = "temp" <=> pc[d] = "temp"
    BY <1>3 DEF Cancel
  <2> QED
    BY <2>1, <2>2
<1>4. ASSUME NEW c \in Clients, Lock(c) PROVE TempInv'
  <2>1. temps' = temps /\ crashes' = crashes
    BY <1>4 DEF Lock, store
  <2>2. \A d \in Clients : pc'[d] = "temp" <=> pc[d] = "temp"
    BY <1>4 DEF Lock, Goto
  <2> QED
    BY <2>1, <2>2
<1>5. ASSUME NEW c \in Clients, Enter(c) PROVE TempInv'
  <2>1. temps' = temps /\ crashes' = crashes
    BY <1>5 DEF Enter, store
  <2>2. \A d \in Clients : pc'[d] = "temp" <=> pc[d] = "temp"
    BY <1>5 DEF Enter, Succeed, Fail, Goto
  <2> QED
    BY <2>1, <2>2
<1>6. ASSUME NEW c \in Clients, Snapshot(c) PROVE TempInv'
  <2>1. temps' = temps /\ crashes' = crashes
    BY <1>6 DEF Snapshot, store
  <2>2. \A d \in Clients : pc'[d] = "temp" <=> pc[d] = "temp"
    BY <1>6 DEF Snapshot, Succeed, Goto
  <2> QED
    BY <2>1, <2>2
<1>7. ASSUME NEW c \in Clients, GiveUp(c) PROVE TempInv'
  <2>1. temps' = temps /\ crashes' = crashes
    BY <1>7 DEF GiveUp, store
  <2>2. \A d \in Clients : pc'[d] = "temp" <=> pc[d] = "temp"
    BY <1>7 DEF GiveUp, Fail, Goto
  <2> QED
    BY <2>1, <2>2
<1>8. ASSUME NEW c \in Clients, Use(c) PROVE TempInv'
  <2>1. temps' = temps /\ crashes' = crashes
    BY <1>8 DEF Use, store
  <2>2. \A d \in Clients : pc'[d] = "temp" <=> pc[d] = "temp"
    BY <1>8 DEF Use, Succeed, Fail, Goto
  <2> QED
    BY <2>1, <2>2
<1>9. ASSUME NEW c \in Clients, WriteTemp(c) PROVE TempInv'
  <2>1. pc[c] = "writing" /\ lock = c /\ temps' = temps + 1 /\ crashes' = crashes
    BY <1>9 DEF WriteTemp, WriteInv, Holding
  <2>2. \A d \in Clients : pc[d] # "temp"
    BY <2>1 DEF WriteInv, Holding
  <2>3. pc'[c] = "temp"
    BY <1>9 DEF WriteTemp, Goto
  <2> QED
    BY <2>1, <2>2, <2>3
<1>10. ASSUME NEW c \in Clients, Rename(c) PROVE TempInv'
  <2>1. crashes' = crashes
    BY <1>10 DEF Rename, Stores
  <2>2. CASE pc[c] = "temp"
    <3>1. \A d \in Clients : d # c => pc[d] # "temp"
      BY <2>2 DEF WriteInv, Holding
    <3>2. temps' = temps - 1 /\ \A d \in Clients : pc'[d] # "temp"
      BY <1>10, <2>2, <3>1 DEF Rename, Stores, Succeed, Fail, Goto
    <3> QED
      BY <2>1, <2>2, <3>2
  <2>3. CASE pc[c] # "temp"
    <3>1. temps' = temps /\ \A d \in Clients : pc'[d] = "temp" <=> pc[d] = "temp"
      BY <1>10, <2>3 DEF Rename, Stores, Succeed, Fail, Goto
    <3> QED
      BY <2>1, <3>1
  <2> QED
    BY <2>2, <2>3
<1>11. ASSUME NEW c \in Clients, Commit(c) PROVE TempInv'
  <2>1. temps' = temps /\ crashes' = crashes
    BY <1>11 DEF Commit, Stores, store
  <2>2. \A d \in Clients : pc'[d] = "temp" <=> pc[d] = "temp"
    BY <1>11 DEF Commit, Stores, Succeed, Goto
  <2> QED
    BY <2>1, <2>2
<1>12. ASSUME NEW c \in Clients, StorageFails(c) PROVE TempInv'
  <2>1. crashes' = crashes
    BY <1>12 DEF StorageFails
  <2>2. CASE pc[c] = "temp"
    <3>1. \A d \in Clients : d # c => pc[d] # "temp"
      BY <2>2 DEF WriteInv, Holding
    <3>2. temps' = temps - 1 /\ \A d \in Clients : pc'[d] # "temp"
      BY <1>12, <2>2, <3>1 DEF StorageFails, Succeed, Fail, Goto
    <3> QED
      BY <2>1, <2>2, <3>2
  <2>3. CASE pc[c] # "temp"
    <3>1. temps' = temps /\ \A d \in Clients : pc'[d] = "temp" <=> pc[d] = "temp"
      BY <1>12, <2>3 DEF StorageFails, Succeed, Fail, Goto
    <3> QED
      BY <2>1, <3>1
  <2> QED
    BY <2>2, <2>3
<1>13. ASSUME NEW c \in Clients, Return(c) PROVE TempInv'
  <2>1. temps' = temps /\ crashes' = crashes
    BY <1>13 DEF Return, store
  <2>2. \A d \in Clients : pc'[d] = "temp" <=> pc[d] = "temp"
    BY <1>13 DEF Return, Goto
  <2> QED
    BY <2>1, <2>2
<1>14. ASSUME NEW c \in Clients, Crash(c) PROVE TempInv'
  <2>1. temps' = temps /\ crashes' = crashes + 1
    BY <1>14 DEF Crash
  <2>2. ASSUME NEW d \in Clients, pc'[d] = "temp" PROVE pc[d] = "temp"
    BY <1>14, <2>2 DEF Crash
  <2> QED
    BY <2>1, <2>2
<1>15. CASE UNCHANGED vars
  <2>1. UNCHANGED <<temps, crashes, pc>>
    BY <1>15 DEF vars, store, client
  <2> QED
    BY <2>1
<1> QED
  BY <1>1, <1>2, <1>3, <1>4, <1>5, <1>6, <1>7, <1>8, <1>9, <1>10, <1>11,
     <1>12, <1>13, <1>14, <1>15 DEF Next, Step

LEMMA InitIInv == Init => IInv
<1> SUFFICES ASSUME Init PROVE IInv
  OBVIOUS
<1> USE DEF Init
<1>1. /\ content \in Seq(Items) /\ IsInjective(content)
      /\ \A item \in ToSet(content) : item[1] = 0
      /\ kind = "memory" => content = <<>>
  <2>1. <<0, 1>> \in Items /\ <<0, 2>> \in Items /\ V1 \in Items
    BY StoreAssumption DEF Items, V1
  <2>2. /\ Stored \in Seq(Items) /\ IsInjective(Stored)
        /\ \A item \in ToSet(Stored) : item[1] = 0
    BY <2>1 DEF Stored, IsInjective, ToSet
  <2>3. /\ <<V1>> \in Seq(Items) /\ IsInjective(<<V1>>)
        /\ \A item \in ToSet(<<V1>>) : item[1] = 0
    BY <2>1 DEF V1, IsInjective, ToSet
  <2>4. /\ <<>> \in Seq(Items) /\ IsInjective(<<>>)
        /\ \A item \in ToSet(<<>>) : item[1] = 0
    BY DEF IsInjective, ToSet
  <2> QED
    BY <2>2, <2>3, <2>4
<1>2. Types
  BY <1>1, StoreAssumption DEF Types, Kinds, Locations
<1>3. ReqInv
  BY DEF ReqInv, InCall, Pending
<1>4. FreshInv
  BY <1>1 DEF FreshInv, Brought, Pending
<1>5. FormatInv
  BY <1>1 DEF FormatInv, ToSet
<1>6. WriteInv /\ TempInv
  BY DEF WriteInv, TempInv, Holding
<1> QED
  BY <1>2, <1>3, <1>4, <1>5, <1>6 DEF IInv

(* The inductive invariant holds of every state of every run.              *)
THEOREM Invariance == Spec => []IInv
<1>1. IInv /\ [Next]_vars => IInv'
  BY TypesStep, ReqStep, FreshStep, FormatStep, WriteStep, TempStep DEF IInv
<1> QED
  BY InitIInv, <1>1, PTL DEF Spec

-----------------------------------------------------------------------------
(* No two items of a session have one identifier, whatever was replaced:   *)
(* a file with a duplicate could not be read again (src/session/file.go).  *)
THEOREM TypeCorrect == Spec => []TypeOK
<1>1. ASSUME IInv, NEW c \in Clients PROVE IsInjective(buf[c])
  <2>1. CASE pc[c] \in {"writing", "temp"}
    <3>1. pc[c] \in Holding /\ Writes(c)
      BY <1>1, <2>1 DEF IInv, WriteInv, Holding
    <3> QED
      BY <1>1, <3>1, Effective DEF Writes
  <2>2. CASE pc[c] \notin {"writing", "temp"}
    <3>1. buf[c] = <<>> /\ IsInjective(<<>>)
      BY <1>1, <2>2 DEF IInv, WriteInv, IsInjective
    <3> QED
      BY <3>1
  <2> QED
    BY <2>1, <2>2
<1>2. IInv => TypeOK
  BY <1>1 DEF IInv, Types, FreshInv, TypeOK
<1> QED
  BY Invariance, <1>2, PTL

(* A temporary file is in use or was left by a crash: rewriteItems in      *)
(* src/session/file.go removes it on every other way out.                  *)
THEOREM TempFilesAccountedForHolds == Spec => []TempFilesAccountedFor
<1>1. ASSUME IInv PROVE TempFilesAccountedFor
  <2> DEFINE Writers == {c \in Clients : pc[c] = "temp"}
  <2>1. crashes \in Nat /\ temps \in Nat
    BY <1>1, StoreAssumption DEF IInv, Types
  <2>2. CASE Writers = {}
    <3>1. Cardinality(Writers) = 0
      BY <2>2, FS_EmptySet
    <3>2. temps \in 0 .. crashes
      BY <1>1, <2>2 DEF IInv, TempInv
    <3> QED
      BY <2>1, <3>1, <3>2 DEF TempFilesAccountedFor
  <2>3. CASE Writers # {}
    <3>1. PICK c \in Clients : pc[c] = "temp"
      BY <2>3
    <3>2. Writers = {c}
      BY <1>1, <3>1 DEF IInv, WriteInv, Holding
    <3>3. Cardinality(Writers) = 1
      BY <3>2, FS_Singleton
    <3>4. temps \in 1 .. (crashes + 1)
      BY <1>1, <3>1 DEF IInv, TempInv
    <3> QED
      BY <2>1, <3>3, <3>4 DEF TempFilesAccountedFor
  <2> QED
    BY <2>2, <2>3
<1> QED
  BY Invariance, <1>1, PTL

-----------------------------------------------------------------------------
(* The stores implement AtomicSession.                                     *)

(* What List returns is the end of the items.                              *)
LEMMA SuffixOf ==
  ASSUME NEW s \in Seq(Items), NEW m \in 1 .. (Len(s) + 1)
  PROVE  IsSuffix(SubSeq(s, m, Len(s)), s)
<1> DEFINE u == SubSeq(s, m, Len(s))
           n == Len(s)
           k == n - m + 1
<1>1. n \in Nat /\ k \in Nat /\ k <= n /\ \A i \in m .. n : s[i] \in Items
  OBVIOUS
<1>2. u \in Seq(Items) /\ Len(u) = k /\ \A i \in 1 .. k : u[i] = s[m + i - 1]
  <2>1. m \in Int /\ n \in Int
    BY <1>1
  <2>2. /\ u \in Seq(Items) /\ Len(u) = IF m <= n THEN n - m + 1 ELSE 0
        /\ \A i \in 1 .. n - m + 1 : u[i] = s[m + i - 1]
    BY <1>1, <2>1, SubSeqProperties
  <2> QED
    BY <1>1, <2>1, <2>2
<1> HIDE DEF u, k
<1>3. /\ Reverse(u) \in Seq(Items) /\ Len(Reverse(u)) = k
      /\ \A i \in 1 .. k : Reverse(u)[i] = u[k - i + 1]
  <2>1. \A i \in 1 .. k : u[k - i + 1] \in Items
    BY <1>1, <1>2
  <2>2. Reverse(u) = [i \in 1 .. k |-> u[(k - i) + 1]]
    BY <1>2 DEF Reverse
  <2> QED
    BY <1>1, <2>1, <2>2, IsASeq
<1>4. /\ Reverse(s) \in Seq(Items) /\ Len(Reverse(s)) = n
      /\ \A i \in 1 .. n : Reverse(s)[i] = s[n - i + 1]
  <2>1. \A i \in 1 .. n : s[n - i + 1] \in Items
    BY <1>1
  <2>2. Reverse(s) = [i \in 1 .. n |-> s[(n - i) + 1]]
    BY <1>1 DEF Reverse
  <2> QED
    BY <1>1, <2>1, <2>2, IsASeq
<1>5. \A i \in 1 .. k : Reverse(u)[i] = Reverse(s)[i]
  <2> SUFFICES ASSUME NEW i \in 1 .. k PROVE Reverse(u)[i] = Reverse(s)[i]
    OBVIOUS
  <2>1. i \in 1 .. n /\ k - i + 1 \in 1 .. k /\ m + (k - i + 1) - 1 = n - i + 1
    BY <1>1 DEF k
  <2>2. Reverse(u)[i] = u[k - i + 1] /\ Reverse(s)[i] = s[n - i + 1]
    BY <1>3, <1>4, <2>1
  <2>3. u[k - i + 1] = s[m + (k - i + 1) - 1]
    BY <1>2, <2>1
  <2> QED
    BY <2>1, <2>2, <2>3
<1>6. SubSeq(Reverse(u), 1, k) = SubSeq(Reverse(s), 1, k)
  <2> DEFINE p == SubSeq(Reverse(u), 1, k)
             q == SubSeq(Reverse(s), 1, k)
  <2>1. /\ p \in Seq(Items) /\ Len(p) = k
        /\ \A i \in 1 .. k : p[i] = Reverse(u)[i]
    <3>1. \A i \in 1 .. k : Reverse(u)[i] \in Items
      BY <1>3
    <3> QED
      BY <1>1, <3>1, SubSeqProperties
  <2>2. /\ q \in Seq(Items) /\ Len(q) = k
        /\ \A i \in 1 .. k : q[i] = Reverse(s)[i]
    <3>1. \A i \in 1 .. k : Reverse(s)[i] \in Items
      BY <1>1, <1>4
    <3> QED
      BY <1>1, <3>1, SubSeqProperties
  <2> HIDE DEF p, q
  <2>3. p = q
    BY <1>5, <2>1, <2>2, SeqEqual
  <2> QED
    BY <2>3 DEF p, q
<1> QED
  BY <1>1, <1>3, <1>4, <1>6 DEF IsSuffix, IsPrefix, u

(* The abstract module's helpers are this module's.                        *)
LEMMA SameHelpers ==
  ASSUME NEW s, NEW u
  PROVE  /\ Promise!IsSuffix(s, u) <=> IsSuffix(s, u)
         /\ Promise!ToSet(s) = ToSet(s)
         /\ Promise!IsInjective(s) <=> IsInjective(s)
BY DEF Promise!IsSuffix, IsSuffix, Promise!IsPrefix, IsPrefix, Promise!Reverse, Reverse,
   Promise!ToSet, ToSet, Promise!IsInjective, IsInjective

LEMMA RecentAnswer ==
  ASSUME Types, NEW limit \in {0, 1}
  PROVE  Promise!Recent(content, limit, lastNItems(content, limit))
<1> DEFINE n == Len(content)
<1>1. content \in Seq(Items) /\ n \in Nat
  BY DEF Types
<1>2. CASE limit = 0 \/ limit >= n
  <2>1. lastNItems(content, limit) = content
    BY <1>2 DEF lastNItems
  <2>2. SubSeq(content, 1, n) = content
    BY <1>1, SubSeqFull
  <2>3. IsSuffix(content, content)
    <3>1. 1 \in 1 .. (n + 1)
      BY <1>1
    <3>2. IsSuffix(SubSeq(content, 1, n), content)
      BY <1>1, <3>1, SuffixOf
    <3> QED
      BY <2>2, <3>2
  <2>4. limit = 0 \/ n = limit \/ n < limit
    BY <1>1, <1>2
  <2> QED
    BY <1>1, <2>1, <2>3, <2>4, SameHelpers DEF Promise!Recent
<1>3. CASE ~(limit = 0 \/ limit >= n)
  <2>1. limit = 1 /\ n >= 2 /\ n - limit + 1 = n
    BY <1>1, <1>3
  <2>2. lastNItems(content, limit) = SubSeq(content, n, n)
    BY <1>3, <2>1 DEF lastNItems
  <2>3. n \in 1 .. (n + 1)
    BY <2>1, <1>1
  <2>4. IsSuffix(SubSeq(content, n, n), content)
    BY <1>1, <2>3, SuffixOf
  <2>5. Len(SubSeq(content, n, n)) = 1
    <3>1. \A i \in n .. n : content[i] \in Items
      BY <1>1, <2>1
    <3> QED
      BY <1>1, <3>1, SubSeqProperties
  <2>6. Promise!IsSuffix(SubSeq(content, n, n), content)
    BY <2>4, SameHelpers
  <2>7. limit > 0 /\ Len(SubSeq(content, n, n)) = limit
    BY <2>1, <2>5
  <2> QED
    BY <2>2, <2>6, <2>7, Zenon DEF Promise!Recent
<1> QED
  BY <1>2, <1>3

(* What a step of one client does to the phases of all.                    *)
LEMMA PhaseMoves ==
  ASSUME NEW c \in Clients, \A d \in Clients \ {c} : pc'[d] = pc[d]
  PROVE  /\ Phase(c)' = Phase(c) =>
              UNCHANGED [d \in Clients |-> Phase(d)]
         /\ Phase(c) = "out" /\ Phase(c)' = "asked" => Promise!Moves(c, "out", "asked")
         /\ Phase(c) = "asked" /\ Phase(c)' = "done" => Promise!Moves(c, "asked", "done")
         /\ Phase(c) = "asked" /\ Phase(c)' = "failed" => Promise!Moves(c, "asked", "failed")
         /\ Phase(c) = "done" /\ Phase(c)' = "out" => Promise!Moves(c, "done", "out")
         /\ Phase(c) = "failed" /\ Phase(c)' = "out" => Promise!Moves(c, "failed", "out")
<1>1. \A d \in Clients \ {c} : Phase(d)' = Phase(d)
  BY DEF Phase
<1> HIDE DEF Phase
<1> QED
  BY <1>1 DEF Promise!Moves

(* Which phase a place in a call is.                                       *)
LEMMA Phases ==
  ASSUME NEW c \in Clients
  PROVE  /\ pc[c] \in {"closed", "refused", "idle"} => Phase(c) = "out"
         /\ pc[c] \in Pending => Phase(c) = "asked"
         /\ pc[c] = "done" => Phase(c) = "done"
         /\ pc[c] = "failed" => Phase(c) = "failed"
         /\ pc'[c] \in {"closed", "refused", "idle"} => Phase(c)' = "out"
         /\ pc'[c] \in Pending => Phase(c)' = "asked"
         /\ pc'[c] = "done" => Phase(c)' = "done"
         /\ pc'[c] = "failed" => Phase(c)' = "failed"
BY DEF Phase, Pending

(* A new call brings items the session does not have.                      *)
LEMMA InvokeStep ==
  ASSUME IInv, NEW c \in Clients, Call(c)
  PROVE  Promise!Invoke(c)
<1>1. Types /\ FreshInv
  BY DEF IInv
<1>2. PICK r \in Requests(c) : req' = [req EXCEPT ![c] = r]
  BY DEF Call
<1>3. /\ pc[c] = "idle" /\ pc'[c] = "called" /\ \A d \in Clients \ {c} : pc'[d] = pc[d]
      /\ content' = content
  BY <1>1 DEF Call, Goto, Types, store
<1>4. req'[c] = r /\ req' = [req EXCEPT ![c] = req'[c]]
  BY <1>1, <1>2 DEF Types
<1>5. ASSUME r.op \in {"append", "replace"}
      PROVE  IsInjective(r.with) /\ ToSet(r.with) \cap ToSet(content) = {}
  <2>1. PICK n \in Sizes : r.with = newSessionItems(calls + 1, n)
    BY <1>2, <1>5 DEF Requests
  <2>2. n \in Nat /\ calls \in Nat
    BY <1>1, StoreAssumption DEF Types
  <2>3. \A item \in ToSet(r.with) : item[1] = calls + 1
    BY <2>1, <2>2 DEF ToSet, newSessionItems
  <2>4. IsInjective(r.with)
    BY <2>1, <2>2 DEF IsInjective, newSessionItems
  <2>5. \A item \in ToSet(content) : item \in Items /\ item[1] <= calls
    BY <1>1 DEF Types, FreshInv, ToSet
  <2>6. \A item \in ToSet(content) : item[1] # calls + 1
    BY <2>2, <2>5 DEF Items
  <2> QED
    BY <2>3, <2>4, <2>6
<1>6. Promise!Moves(c, "out", "asked")
  BY <1>3, Phases, PhaseMoves DEF Pending
<1> QED
  BY <1>3, <1>4, <1>5, <1>6, SameHelpers DEF Promise!Invoke

(* A mutation takes effect as a whole.                                     *)
LEMMA EffectStep ==
  ASSUME IInv, NEW c \in Clients, Effect(c)
  PROVE  Promise!Takes(c, answer'[c])
<1>1. /\ pc[c] \in Holding /\ pc'[c] = "done" /\ req[c].op # "list"
      /\ ~Unreadable(req[c], content) /\ content' = Updated(content, req[c])
      /\ req' = req /\ \A d \in Clients \ {c} : pc'[d] = pc[d]
  BY DEF Effect
<1>2. answer'[c] = IF req[c].op = "clear" THEN <<>> ELSE req[c].with
  BY DEF Effect, IInv, Types
<1>3. content \in Seq(Items) /\ IsInjective(content)
  BY DEF IInv, Types, FreshInv
<1>4. req[c].op \in Storing \cup {"clear"} /\ V1 \notin ToSet(content)
  BY <1>1, Effective
<1>5. Promise!Moves(c, "asked", "done")
  BY <1>1, Phases, PhaseMoves DEF Holding, Pending
<1>6. \/ req[c].op = "append" /\ content' = content \o req[c].with
      \/ req[c].op = "replace" /\ Promise!Replaced(content, req[c], content')
      \/ req[c].op = "clear" /\ content' = <<>>
  <2>1. CASE req[c].op = "append"
    BY <1>1, <2>1 DEF Updated
  <2>2. CASE req[c].op = "clear"
    BY <1>1, <2>2 DEF Updated
  <2>3. CASE req[c].op = "replace"
    <3>1. PICK i \in 1 .. Len(content), j \in 1 .. Len(content) :
            /\ i <= j /\ content[i] = req[c].first /\ content[j] = req[c].last
            /\ replacementBounds(content, req[c].first, req[c].last) = <<i, j>>
      BY <1>1, <1>3, <2>3, BoundsFound DEF Unreadable
    <3>2. content' = SubSeq(content, 1, i - 1) \o req[c].with
                       \o SubSeq(content, j + 1, Len(content))
      <4> DEFINE at == replacementBounds(content, req[c].first, req[c].last)
      <4>1. at[1] = i /\ at[2] = j
        BY <3>1
      <4>2. content' = SubSeq(content, 1, at[1] - 1) \o req[c].with
                         \o SubSeq(content, at[2] + 1, Len(content))
        BY <1>1, <2>3 DEF Updated
      <4> HIDE DEF at
      <4> QED
        BY <4>1, <4>2
    <3> QED
      BY <2>3, <3>1, <3>2 DEF Promise!Replaced
  <2> QED
    BY <1>4, <2>1, <2>2, <2>3 DEF Storing
<1> QED
  BY <1>1, <1>2, <1>4, <1>5, <1>6 DEF Promise!Takes

(* So does a list, at the moment it reads.                                 *)
LEMMA ListStep ==
  ASSUME IInv, NEW c \in Clients, pc[c] \in {"waiting", "locked"}, req[c].op = "list",
         V1 \notin ToSet(content), Succeed(c, lastNItems(content, req[c].limit)),
         UNCHANGED <<content, req>>
  PROVE  Promise!Takes(c, answer'[c])
<1>1. Types
  BY DEF IInv
<1>2. req[c].limit \in {0, 1}
  BY ListAnswer DEF InCall, Pending
<1>3. /\ answer'[c] = lastNItems(content, req[c].limit)
      /\ pc'[c] = "done" /\ \A d \in Clients \ {c} : pc'[d] = pc[d]
  BY <1>1 DEF Succeed, Goto, Types
<1>4. Promise!Recent(content, req[c].limit, answer'[c])
  BY <1>1, <1>2, <1>3, RecentAnswer
<1>5. Promise!Moves(c, "asked", "done")
  BY <1>3, Phases, PhaseMoves DEF Pending
<1> QED
  BY <1>4, <1>5 DEF Promise!Takes

LEMMA FailStep ==
  ASSUME IInv, NEW c \in Clients, pc[c] \in Pending, Fail(c), UNCHANGED <<content, req>>
  PROVE  Promise!Fails(c)
<1>1. pc'[c] = "failed" /\ \A d \in Clients \ {c} : pc'[d] = pc[d]
  BY DEF Fail, Goto, IInv, Types
<1>2. Promise!Moves(c, "asked", "failed")
  BY <1>1, Phases, PhaseMoves
<1> QED
  BY <1>2 DEF Promise!Fails

LEMMA StutterStep ==
  ASSUME IInv, NEW c \in Clients, pc[c] \in Pending, NEW to \in Pending, Goto(c, to),
         UNCHANGED <<content, req>>
  PROVE  UNCHANGED Promise!avars
<1>1. pc'[c] \in Pending /\ \A d \in Clients \ {c} : pc'[d] = pc[d]
  BY DEF Goto, IInv, Types
<1>2. UNCHANGED [d \in Clients |-> Phase(d)]
  BY <1>1, Phases, PhaseMoves
<1> QED
  BY <1>2 DEF Promise!avars

(* A crash ends the calls of its process, and the session if it lives      *)
(* there.                                                                  *)
LEMMA DiesStep ==
  ASSUME IInv, NEW c \in Clients, Crash(c)
  PROVE  Promise!Dies(kind = "memory" /\ crashes' > crashes)
<1> DEFINE dead == Process(c)
           lost == kind = "memory" /\ crashes' > crashes
<1>1. crashes \in Nat /\ crashes' = crashes + 1
  BY StoreAssumption DEF Crash, IInv, Types
<1>2. lost <=> kind = "memory"
  BY <1>1
<1>3. /\ dead \in SUBSET Clients /\ dead # {} /\ (lost => dead = Clients)
  BY <1>2 DEF Process
<1>4. /\ pc' = [d \in Clients |-> IF d \in dead THEN "closed" ELSE pc[d]]
      /\ req' = [d \in Clients |-> IF d \in dead THEN Nothing ELSE req[d]]
      /\ content' = IF lost THEN <<>> ELSE content
  BY <1>2 DEF Crash
<1> HIDE DEF dead, lost
<1>5. [d \in Clients |-> Phase(d)]'
        = [d \in Clients |-> IF d \in dead THEN "out" ELSE Phase(d)]
  <2>1. ASSUME NEW d \in Clients PROVE Phase(d)' = IF d \in dead THEN "out" ELSE Phase(d)
    BY <1>4 DEF Phase
  <2> QED
    BY <2>1
<1>6. Promise!Nothing = Nothing
  BY DEF Promise!Nothing, Nothing
<1>7. Promise!Dies(lost)
  BY <1>3, <1>4, <1>5, <1>6 DEF Promise!Dies
<1> QED
  BY <1>7 DEF lost

LEMMA ReturnsStep ==
  ASSUME IInv, NEW c \in Clients, Return(c)
  PROVE  Promise!Returns(c)
<1>1. /\ pc[c] \in {"done", "failed"} /\ pc'[c] = "idle"
      /\ \A d \in Clients \ {c} : pc'[d] = pc[d]
      /\ req' = [req EXCEPT ![c] = Nothing] /\ content' = content
  BY DEF Return, Goto, IInv, Types
<1>2. Promise!Moves(c, "done", "out") \/ Promise!Moves(c, "failed", "out")
  BY <1>1, Phases, PhaseMoves
<1>3. Promise!Nothing = Nothing
  BY DEF Promise!Nothing, Nothing
<1> QED
  BY <1>1, <1>2, <1>3 DEF Promise!Returns

(* Every step of a store is a step of the atomic session or none.          *)
LEMMA AtomicStep ==
  ASSUME IInv, [Next]_vars
  PROVE  \/ UNCHANGED Promise!avars
         \/ Promise!ANext(answer', kind = "memory" /\ crashes' > crashes)
<1> DEFINE lost == kind = "memory" /\ crashes' > crashes
           Atomic(c) == \/ Promise!Invoke(c) \/ Promise!Takes(c, answer'[c])
                        \/ Promise!Fails(c) \/ Promise!Returns(c)
<1>1. Types /\ FormatInv
  BY DEF IInv
<1>2. UNCHANGED (V1 \notin ToSet(content))
  BY FormatKept
<1> HIDE DEF lost
<1>5. ASSUME NEW c \in Clients, Open(c) PROVE UNCHANGED Promise!avars
  <2>1. /\ pc[c] = "closed" /\ pc'[c] \in {"refused", "idle"}
        /\ \A d \in Clients \ {c} : pc'[d] = pc[d]
    BY <1>1, <1>5 DEF Open, Goto, Types
  <2>2. UNCHANGED [d \in Clients |-> Phase(d)]
    BY <2>1, Phases, PhaseMoves
  <2> QED
    BY <1>5, <2>2 DEF Open, store, Promise!avars
<1>6. ASSUME NEW c \in Clients, Cancel(c) PROVE UNCHANGED Promise!avars
  BY <1>6 DEF Cancel, store, Phase, Promise!avars
<1>7. ASSUME NEW c \in Clients, Lock(c) PROVE UNCHANGED Promise!avars
  BY <1>7, StutterStep DEF Lock, Pending
<1>8. ASSUME NEW c \in Clients, WriteTemp(c) PROVE UNCHANGED Promise!avars
  BY <1>8, StutterStep DEF WriteTemp, Pending
<1>9. ASSUME NEW c \in Clients, Enter(c) PROVE UNCHANGED Promise!avars \/ Atomic(c)
  <2>1. /\ pc[c] = "called" /\ UNCHANGED <<content, req>>
    BY <1>9 DEF Enter, store
  <2>2. CASE Goto(c, "waiting")
    BY <2>1, <2>2, StutterStep DEF Pending
  <2>3. CASE Fail(c)
    BY <2>1, <2>3, FailStep DEF Pending
  <2>4. CASE req[c].op = "append" /\ req[c].with = <<>> /\ Succeed(c, <<>>)
    <3>1. /\ answer'[c] = <<>> /\ pc'[c] = "done"
          /\ \A d \in Clients \ {c} : pc'[d] = pc[d]
      BY <1>1, <2>4 DEF Succeed, Goto, Types
    <3>2. Promise!Moves(c, "asked", "done")
      BY <2>1, <3>1, Phases, PhaseMoves DEF Pending
    <3>3. content \o <<>> = content
      BY <1>1, ConcatEmptySeq DEF Types
    <3> QED
      BY <2>1, <2>4, <3>1, <3>2, <3>3 DEF Promise!Takes
  <2> QED
    BY <1>9, <2>2, <2>3, <2>4 DEF Enter
<1>10. ASSUME NEW c \in Clients, Snapshot(c) PROVE Atomic(c)
  <2>1. V1 \notin ToSet(content)
    BY <1>1, <1>10 DEF Snapshot, FormatInv
  <2> QED
    BY <1>10, <2>1, ListStep DEF Snapshot, store
<1>11. ASSUME NEW c \in Clients, GiveUp(c) PROVE Atomic(c)
  BY <1>11, FailStep DEF GiveUp, Pending, store
<1>12. ASSUME NEW c \in Clients, Use(c) PROVE UNCHANGED Promise!avars \/ Atomic(c)
  <2>1. pc[c] = "locked" /\ req' = req /\ kind' = kind
    BY <1>12 DEF Use
  <2>2. CASE ctxDone[c] \/ Unreadable(req[c], content)
    BY <1>12, <2>1, <2>2, FailStep DEF Use, Pending
  <2>3. CASE ~(ctxDone[c] \/ Unreadable(req[c], content)) /\ req[c].op = "list"
    <3>1. /\ Succeed(c, lastNItems(content, req[c].limit)) /\ UNCHANGED <<content, req>>
      BY <1>12, <2>3 DEF Use
    <3> QED
      BY <2>1, <2>3, <3>1, ListStep DEF Unreadable
  <2>4. CASE ~(ctxDone[c] \/ Unreadable(req[c], content)) /\ req[c].op # "list"
    <3>1. CASE kind = "memory"
      <4>1. /\ content' = Updated(content, req[c])
            /\ Succeed(c, IF req[c].op = "clear" THEN <<>> ELSE req[c].with)
            /\ UNCHANGED <<kind, req, known, calls, crashes>>
        BY <1>12, <2>4, <3>1 DEF Use
      <4>2. Effect(c)
        BY <1>1, <2>1, <2>4, <4>1 DEF Effect, Succeed, Goto, Holding, Types
      <4> QED
        BY <4>2, EffectStep
    <3>2. CASE kind # "memory"
      <4>1. Goto(c, "writing") /\ UNCHANGED <<content, req>>
        BY <1>12, <2>4, <3>2 DEF Use
      <4> QED
        BY <2>1, <4>1, StutterStep DEF Pending
    <3> QED
      BY <3>1, <3>2
  <2> QED
    BY <2>2, <2>3, <2>4
<1>13. ASSUME NEW c \in Clients, Rename(c) \/ Commit(c) PROVE Atomic(c)
  <2>1. pc[c] \in {"writing", "temp"} /\ Stores(c)
    BY <1>13 DEF Rename, Commit
  <2>2. buf[c] = Updated(content, req[c]) /\ ~Unreadable(req[c], content) /\ req[c].op # "list"
    BY <2>1 DEF IInv, WriteInv, Writes
  <2>3. Effect(c)
    BY <1>1, <2>1, <2>2 DEF Stores, Succeed, Goto, Effect, Holding, Types
  <2> QED
    BY <2>3, EffectStep
<1>14. ASSUME NEW c \in Clients, StorageFails(c) PROVE Atomic(c)
  BY <1>14, FailStep DEF StorageFails, Pending
<1>15. ASSUME NEW c \in Clients, Return(c) PROVE Atomic(c)
  BY <1>15, ReturnsStep
<1>16. CASE \E c \in Clients : Crash(c)
  <2>1. PICK c \in Clients : Crash(c)
    BY <1>16
  <2>2. Promise!Dies(lost)
    BY <2>1, DiesStep DEF lost
  <2> QED
    BY <1>2, <2>2 DEF Promise!ANext, lost
<1>17. ASSUME NEW c \in Clients, Call(c) PROVE Atomic(c)
  BY <1>17, InvokeStep
<1>18. CASE UNCHANGED vars
  BY <1>18 DEF vars, store, client, Phase, Promise!avars
<1> HIDE DEF Atomic
<1>19. ASSUME NEW c \in Clients, Step(c)
       PROVE  UNCHANGED Promise!avars \/ Atomic(c)
  BY <1>8, <1>9, <1>10, <1>11, <1>12, <1>13, <1>14, <1>15, <1>19 DEF Step
<1>20. ASSUME NEW c \in Clients, Open(c) \/ Call(c) \/ Cancel(c) \/ Lock(c)
       PROVE  UNCHANGED Promise!avars \/ Atomic(c)
  BY <1>5, <1>6, <1>7, <1>17, <1>20
<1>21. CASE \E c \in Clients : UNCHANGED Promise!avars \/ Atomic(c)
  BY <1>2, <1>21 DEF Promise!ANext, Atomic
<1> QED
  BY <1>16, <1>18, <1>19, <1>20, <1>21 DEF Next

(* Every store is an atomic session: each call takes effect at one moment  *)
(* or fails without any, among concurrent calls, cancellations, failing    *)
(* disks and crashes; and calls have no effect on items of an older        *)
(* format: src/session/session.go, file.go and sqlite.go.                  *)
THEOREM KeepsPromisesHolds == Spec => KeepsPromises
<1>1. Init => Promise!AInit(content)
  <2> SUFFICES ASSUME Init PROVE Promise!AInit(content)
    OBVIOUS
  <2>1. [c \in Clients |-> Phase(c)] = [c \in Clients |-> "out"]
    BY DEF Init, Phase
  <2> QED
    BY <2>1 DEF Init, Promise!AInit, Promise!Nothing, Nothing
<1>2. IInv /\ [Next]_vars
        => [Promise!ANext(answer', kind = "memory" /\ crashes' > crashes)]_(Promise!avars)
  BY AtomicStep
<1> QED
  BY <1>1, <1>2, Invariance, PTL DEF Spec, KeepsPromises
=============================================================================
