---------------------------- MODULE AtomicSession -----------------------------
(***************************************************************************)
(* What a session promises its callers, whatever stores it: each call of   *)
(* List, Append, Replace and Clear takes effect at one moment between its  *)
(* call and its return or not at all, a call that returns an error never,  *)
(* and nothing but a call changes the items of a session that outlives its *)
(* process.  No call has an effect on items of an older format.            *)
(***************************************************************************)
EXTENDS Naturals, Sequences, SequencesExt

CONSTANT Clients

VARIABLES
  items,                \* the items of the session, oldest first
  readable,             \* they are of the format this version knows
  phase,                \* of each client's call
  asked                 \* the call each client has made last

avars == <<items, readable, phase, asked>>

Nothing == [op |-> "none"]

AInit(start) ==
  /\ items = start
  /\ phase = [c \in Clients |-> "out"]
  /\ asked = [c \in Clients |-> Nothing]

Moves(c, from, to) == phase[c] = from /\ phase' = [phase EXCEPT ![c] = to]

(* New items have identifiers that no item of the session has.             *)
Invoke(c) ==
  /\ Moves(c, "out", "asked")
  /\ asked' = [asked EXCEPT ![c] = asked'[c]]
  /\ asked'[c].op \in {"append", "replace"} =>
       /\ IsInjective(asked'[c].with)
       /\ ToSet(asked'[c].with) \cap ToSet(items) = {}
  /\ UNCHANGED items

(* The effect of a call on the items s, with the answer it gives: the new  *)
(* items, or the most recent ones in their order.                          *)
Recent(s, limit, answer) ==
  /\ IsSuffix(answer, s)
  /\ \/ limit = 0 /\ answer = s
     \/ limit > 0 /\ Len(answer) = limit
     \/ Len(answer) < limit /\ answer = s

Replaced(s, r, result) ==
  \E i \in 1..Len(s), j \in 1..Len(s) :
    /\ i <= j /\ s[i] = r.first /\ s[j] = r.last
    /\ result = SubSeq(s, 1, i - 1) \o r.with \o SubSeq(s, j + 1, Len(s))

Takes(c, answer) ==
  LET r == asked[c]
  IN  /\ Moves(c, "asked", "done")
      /\ readable \/ (r.op = "append" /\ r.with = <<>>)
      /\ UNCHANGED asked
      /\ \/ r.op = "append" /\ items' = items \o r.with /\ answer = r.with
         \/ r.op = "replace" /\ Replaced(items, r, items') /\ answer = r.with
         \/ r.op = "clear" /\ items' = <<>> /\ answer = <<>>
         \/ r.op = "list" /\ UNCHANGED items /\ Recent(items, r.limit, answer)

Fails(c) == Moves(c, "asked", "failed") /\ UNCHANGED <<items, asked>>

Returns(c) ==
  /\ Moves(c, "done", "out") \/ Moves(c, "failed", "out")
  /\ asked' = [asked EXCEPT ![c] = Nothing]
  /\ UNCHANGED items

(* The process of some clients dies: their calls are over wherever they    *)
(* were, and a session that lives in that process is gone.                 *)
Dies(lost) ==
  /\ \E dead \in SUBSET Clients :
       /\ dead # {} /\ (lost => dead = Clients)
       /\ phase' = [c \in Clients |-> IF c \in dead THEN "out" ELSE phase[c]]
       /\ asked' = [c \in Clients |-> IF c \in dead THEN Nothing ELSE asked[c]]
  /\ items' = IF lost THEN <<>> ELSE items

ANext(answer, lost) ==
  /\ UNCHANGED readable
  /\ \/ \E c \in Clients :
          Invoke(c) \/ Takes(c, answer[c]) \/ Fails(c) \/ Returns(c)
     \/ Dies(lost)
=============================================================================
