-------------------------- MODULE ModelStreamProofs --------------------------
(***************************************************************************)
(* Proofs about ModelStream: what a turn has forwarded is the beginning of *)
(* the server's message, and a turn that ends well has all of it.          *)
(*                                                                         *)
(* The invariant compares what the server told with the message as it will *)
(* be once the queued events are received (Ahead): they differ by the one  *)
(* piece in flight between server and reader, unless a cut has lost it.    *)
(***************************************************************************)
EXTENDS ModelStream, FiniteSetTheorems, SequenceTheorems, TLAPS

(* The message once the events of a queue of at most two are received.     *)
So == [text |-> text, calls |-> byIndex]
With(m, e) ==
  IF e.type = "text" THEN [text |-> m.text \o e.text, calls |-> m.calls]
  ELSE IF e.type = "call" THEN [text |-> m.text, calls |-> Add(m.calls, e)]
  ELSE m
After(m, q) ==
  IF q = <<>> THEN m
  ELSE IF Len(q) = 1 THEN With(m, q[1]) ELSE With(With(m, q[1]), q[2])
Ahead == After(So, queue)

(* A beginning of the message.                                             *)
FitsCall(call, n) ==
  /\ call = [named |-> TRUE, args |-> UpTo(Len(call.args))]
  /\ Len(call.args) \in 0..n
Fits(msg, m) ==
  /\ m.text = UpTo(Len(m.text)) /\ Len(m.text) \in 0..msg.text
  /\ m.calls = [i \in DOMAIN m.calls |-> m.calls[i]]
  /\ \A i \in DOMAIN m.calls : i \in DOMAIN msg.args /\ FitsCall(m.calls[i], msg.args[i])
FitsAll(msg, m, q) == Fits(msg, m) /\ (q # <<>> => Fits(msg, With(m, q[1]))) /\ Fits(msg, After(m, q))

(* Chunks, and the one that was sent and is not read.                      *)
Marks == {"garbage", "done", "other", "finish", "failed"}
Chunks ==
  [is : Marks] \cup [is : {"text"}, text : Nat]
    \cup [is : {"call", "args"}, index : Indexes, arg : Nat]
    \cup [is : {"item"}, index : Indexes, args : {UpTo(n) : n \in Nat}]
Nothing == [is |-> "nothing"]
Piece(c) == c.is \in {"text", "call", "args", "item"}
About(c, i) == c.is \in {"call", "args", "item"} /\ c.index = i
InFlight(c) ==
  \/ c = Nothing /\ pending = <<>> /\ wire \in {<<>>, <<Comment>>, <<Blank>>, <<TooLong>>}
  \/ /\ c \in Chunks
     /\ \/ pending = <<>> /\ wire = <<Data(c), Blank>>
        \/ pending = <<c>> /\ wire = <<Blank>>
        \/ pending = <<>> /\ wire = <<Data(c)>> /\ end # "open"
        \/ pending = <<c>> /\ wire = <<>> /\ end # "open"

(* What was told and what is ahead differ by the piece in flight.          *)
Settled(t, m, i) ==
  /\ i \in DOMAIN m.calls <=> i \in DOMAIN t.args
  /\ i \in DOMAIN m.calls => Len(m.calls[i].args) = t.args[i]
Fitting(t, m, c, i) ==
  /\ i \in DOMAIN t.args
  /\ c.is = "call" => i \notin DOMAIN m.calls /\ c.arg = t.args[i] /\ c.arg \in 0..1
  /\ c.is = "args" =>
       /\ i \in DOMAIN m.calls
       /\ c.arg = t.args[i] /\ c.arg = Len(m.calls[i].args) + 1
  /\ c.is = "item" =>
       /\ c.args = UpTo(t.args[i])
       /\ i \in DOMAIN m.calls => Len(m.calls[i].args) \in {0, t.args[i]}
Balance(t, m, c) ==
  /\ t.text = Len(m.text) + (IF c.is = "text" THEN 1 ELSE 0)
  /\ c.is = "text" => c.text = t.text
  /\ \A i \in Indexes : IF About(c, i) THEN Fitting(t, m, c, i) ELSE Settled(t, m, i)
Lost(c) == end # "open" /\ stage = "body" /\ ~Piece(c)

Ending == stage \in {"finished", "done"}
Coming(c) ==
  /\ InFlight(c)
  /\ Lost(c) \/ Balance(told, Ahead, c)
  /\ stage # "body" => ~Piece(c)
  /\ c.is \in {"garbage", "failed"} => broken
  /\ c.is \in {"finish", "done"} => Ending
  /\ c.is \in {"failed", "item"} => mode = "responses"
  /\ c.is = "done" => mode = "chat"
  /\ (c.is = "call" /\ mode = "responses") => c.arg = 0
  /\ (Ending /\ ~broken) => (reader.finishSeen \/ reader.finished \/ c.is \in {"finish", "done"})

ToldFits ==
  /\ told.text \in 0..message.text
  /\ \A i \in DOMAIN told.args : i \in DOMAIN message.args /\ told.args[i] \in 0..message.args[i]

Streaming == mode \in {"chat", "responses"}
ServerInv ==
  /\ mode \in {"chat", "responses", "replay", "plain"} /\ message \in Messages
  /\ stage \in {"request", "body", "finished", "done"}
  /\ end \in {"open", "eof", "error"} /\ broken \in BOOLEAN
  /\ told = [text |-> told.text, args |-> [i \in DOMAIN told.args |-> told.args[i]]]
  /\ ToldFits
  /\ mode = "chat" => whole = {}
  /\ \A i \in whole \cap DOMAIN told.args : told.args[i] \in {0, message.args[i]}
  /\ Ending => AllTold /\ Streaming
  /\ wire = <<TooLong>> \/ end = "error" => broken
  /\ (end = "eof" /\ ~broken) => Ending
  /\ stage = "request" => end = "open"
  /\ ~Streaming => wire = <<>> /\ end = "open"

(* The sets of the responses reader are those of the calls it emitted.     *)
Readers ==
  [finishSeen : BOOLEAN, finished : BOOLEAN, err : BOOLEAN,
   calls : SUBSET Indexes, emitted : SUBSET Indexes, argsSeen : SUBSET Indexes]
Known(r, calls) ==
  /\ r.calls = DOMAIN calls /\ r.emitted = DOMAIN calls
  /\ r.argsSeen = {i \in DOMAIN calls : calls[i].args # <<>>}
ReaderInv ==
  /\ reader \in Readers
  /\ reader.err => broken /\ ~reader.finished
  /\ (Streaming /\ (reader.finished \/ reader.finishSeen)) => Ending
  /\ mode = "responses" => Known(reader, Ahead.calls)
  /\ ~Streaming => ~reader.err
  /\ mode = "plain" => ~reader.finished

Events == [type : {"text"}, text : Seq(Nat)] \cup [type : {"finish"}]
            \cup [type : {"call"}, index : Indexes, named : BOOLEAN, args : Seq(Nat)]
(* The finish event is the last one, and there once the reader finished.   *)
Flows(q, finishing) ==
  /\ q \in Seq(Events) /\ Len(q) <= 2
  /\ \A k \in DOMAIN q : q[k] = Finish <=> finishing /\ k = Len(q)
QueueInv ==
  /\ finishes \in 0..1
  /\ finishes = 1 => queue = <<>>
  /\ reader.finished <=> finishes = 1 \/ (queue # <<>> /\ queue[Len(queue)] = Finish)
  /\ Flows(queue, reader.finished)
  /\ FitsAll(message, So, queue)

ResultInv ==
  /\ result \in {"running", "ok", "failed", "cancelled"}
  /\ stage = "request" =>
       /\ result \in {"running", "cancelled"} /\ wire = <<>> /\ pending = <<>> /\ queue = <<>>
       /\ text = <<>> /\ DOMAIN byIndex = {} /\ finishes = 0
       /\ ~reader.finished /\ ~reader.err
  /\ result = "failed" => broken
  /\ result = "ok" =>
       IF mode = "plain" THEN text = UpTo(message.text) /\ byIndex = [i \in DOMAIN message.args |-> [named |-> TRUE, args |-> UpTo(message.args[i])]]
       ELSE reader.finished /\ queue = <<>>
  /\ mode = "replay" /\ reader.finished => Ahead.text = UpTo(message.text)

IInv ==
  /\ ServerInv /\ ReaderInv /\ QueueInv /\ ResultInv
  /\ Streaming => \E c \in Chunks \cup {Nothing} : Coming(c)

-----------------------------------------------------------------------------
(* Lemmas about the data.                                                  *)

LEMMA MessageType ==
  ASSUME message \in Messages
  PROVE  /\ message.text \in Nat /\ DOMAIN message.args \subseteq Indexes
         /\ \A i \in DOMAIN message.args : message.args[i] \in Nat
<1>1. message.text \in 0..MaxText /\ message.args \in UNION {[S -> 0..MaxArgs] : S \in SUBSET Indexes}
  BY DEF Messages
<1>2. PICK S \in SUBSET Indexes : message.args \in [S -> 0..MaxArgs]
  BY <1>1
<1> QED  BY <1>1, <1>2

LEMMA UpToFacts ==
  ASSUME NEW n \in Nat
  PROVE  /\ UpTo(n) \in Seq(Nat) /\ Len(UpTo(n)) = n
         /\ UpTo(n) = <<>> <=> n = 0
         /\ UpTo(n) \o <<n + 1>> = UpTo(n + 1)
         /\ <<>> \o UpTo(n) = UpTo(n)
<1>1. UpTo(n) \in Seq(Nat) /\ Len(UpTo(n)) = n
  BY DEF UpTo
<1>2. UpTo(n + 1) \in Seq(Nat) /\ Len(UpTo(n + 1)) = n + 1
  BY DEF UpTo
<1>3. UpTo(n) = <<>> <=> n = 0
  BY <1>1 DEF UpTo
<1>4. UpTo(n) \o <<n + 1>> = UpTo(n + 1)
  BY <1>1, <1>2 DEF UpTo
<1>5. <<>> \o UpTo(n) = UpTo(n)
  BY <1>1
<1> QED  BY <1>1, <1>3, <1>4, <1>5

(* new is old with the arguments of i continued by args.                   *)
Grown(old, i, args, new) ==
  /\ DOMAIN new = DOMAIN old \cup {i}
  /\ new = [j \in DOMAIN new |-> new[j]]
  /\ \A j \in DOMAIN old \ {i} : new[j] = old[j]
  /\ new[i] = [named |-> TRUE,
               args |-> (IF i \in DOMAIN old THEN old[i].args ELSE <<>>) \o args]

LEMMA AddGrows ==
  ASSUME NEW calls, NEW i, NEW named \in BOOLEAN, NEW args,
         NEW new, new = Add(calls, Delta(i, named, args)),
         i \in DOMAIN calls => calls[i].named = TRUE, i \notin DOMAIN calls => named = TRUE
  PROVE  Grown(calls, i, args, new)
<1>1. Delta(i, named, args).index = i /\ Delta(i, named, args).named = named
        /\ Delta(i, named, args).args = args
  BY DEF Delta
<1>2. /\ DOMAIN new = DOMAIN calls \cup {i}
      /\ new = [j \in DOMAIN new |-> new[j]]
      /\ \A j \in DOMAIN calls \ {i} : new[j] = calls[j]
  BY <1>1 DEF Add
<1>3. CASE i \in DOMAIN calls
  <2>1. (calls[i].named \/ named) = TRUE
    BY <1>3
  <2> QED  BY <1>1, <1>2, <1>3, <2>1 DEF Add, Grown
<1>4. CASE i \notin DOMAIN calls
  <2>1. (FALSE \/ named) = TRUE
    BY <1>4
  <2> QED  BY <1>1, <1>2, <1>4, <2>1 DEF Add, Grown
<1> QED  BY <1>3, <1>4

LEMMA FirstAndRest ==
  ASSUME NEW S, NEW q \in Seq(S), q # <<>>
  PROVE  /\ Head(q) = q[1] /\ Tail(q) \in Seq(S) /\ Len(Tail(q)) = Len(q) - 1
         /\ q[1] \in S /\ Len(q) \in Nat /\ Len(q) >= 1
         /\ Tail(q) = <<>> <=> Len(q) = 1
         /\ \A k \in DOMAIN Tail(q) : k + 1 \in DOMAIN q /\ Tail(q)[k] = q[k + 1]
<1>1. /\ Tail(q) \in Seq(S) /\ Len(Tail(q)) = Len(q) - 1
      /\ \A k \in 1..Len(Tail(q)) : Tail(q)[k] = q[k + 1]
  BY HeadTailProperties
<1>2. Len(q) \in Nat /\ Len(q) >= 1
  BY EmptySeq
<1>3. DOMAIN Tail(q) = 1..Len(Tail(q)) /\ DOMAIN q = 1..Len(q)
  BY <1>1, LenProperties
<1>4. Tail(q) = <<>> <=> Len(Tail(q)) = 0
  BY <1>1, EmptySeq
<1>5. q[1] \in S
  BY <1>2, ElementOfSeq
<1>6. Tail(q) = <<>> <=> Len(q) = 1
  BY <1>1, <1>2, <1>4
<1>7. \A k \in DOMAIN Tail(q) : k + 1 \in DOMAIN q /\ Tail(q)[k] = q[k + 1]
  BY <1>1, <1>2, <1>3
<1> QED  BY <1>1, <1>2, <1>5, <1>6, <1>7

LEMMA ReceivedFirst ==
  ASSUME NEW m, NEW S, NEW q \in Seq(S), q # <<>>, Len(q) <= 2
  PROVE  /\ After(With(m, Head(q)), Tail(q)) = After(m, q)
         /\ FitsAll(message, m, q) => FitsAll(message, With(m, Head(q)), Tail(q))
<1>0. /\ Head(q) = q[1] /\ Tail(q) \in Seq(S) /\ Len(Tail(q)) = Len(q) - 1
      /\ Len(q) \in Nat /\ Len(q) >= 1
      /\ Tail(q) = <<>> <=> Len(q) = 1
      /\ \A k \in DOMAIN Tail(q) : Tail(q)[k] = q[k + 1]
  BY FirstAndRest
<1>1. Len(q) \in 1..2
  BY <1>0
<1>2. CASE Len(q) = 1
  BY <1>0, <1>2 DEF After, FitsAll
<1>3. CASE Len(q) = 2
  <2>1. Len(Tail(q)) = 1 /\ Tail(q) # <<>> /\ 1 \in DOMAIN Tail(q)
    BY <1>0, <1>3, LenProperties
  <2>2. Tail(q)[1] = q[2]
    BY <1>0, <2>1
  <2>3. After(m, q) = With(With(m, q[1]), q[2])
    BY <1>3 DEF After
  <2>4. After(With(m, q[1]), Tail(q)) = With(With(m, q[1]), q[2])
    BY <2>1, <2>2 DEF After
  <2>5. FitsAll(message, m, q) => FitsAll(message, With(m, q[1]), Tail(q))
    BY <2>1, <2>2, <2>3, <2>4 DEF FitsAll
  <2> QED  BY <1>0, <2>3, <2>4, <2>5
<1> QED  BY <1>1, <1>2, <1>3

(* A fragment, the name or all of a call makes a longer beginning.         *)
LEMMA TextFits ==
  ASSUME message \in Messages, NEW m, Fits(message, m), NEW k \in 1..message.text, Len(m.text) = k - 1
  PROVE  LET new == With(m, Text(<<k>>))
         IN  Fits(message, new) /\ new.text = UpTo(k) /\ Len(new.text) = k /\ new.calls = m.calls
<1> DEFINE new == With(m, Text(<<k>>))
<1>1. k - 1 \in Nat /\ k \in Nat /\ (k - 1) + 1 = k
  BY MessageType
<1>2. m.text = UpTo(k - 1)
  BY DEF Fits
<1>3. m.text \o <<k>> = UpTo(k) /\ Len(UpTo(k)) = k
  BY <1>1, <1>2, UpToFacts
<1>4. new.text = m.text \o <<k>> /\ new.calls = m.calls
  BY DEF With, Text
<1>5. Fits(message, new)
  <2>1. new.text = UpTo(Len(new.text)) /\ Len(new.text) \in 0..message.text
    <3>1. new.text = UpTo(k) /\ Len(new.text) = k
      BY <1>3, <1>4
    <3>2. k \in 0..message.text
      BY <1>1, MessageType
    <3> QED  BY <3>1, <3>2
  <2> HIDE DEF new
  <2> QED  BY <1>4, <2>1 DEF Fits
<1> QED  BY <1>3, <1>4, <1>5

(* new is m with the first n fragments of the arguments of call i.         *)
CallTo(m, i, n, new) ==
  /\ Fits(message, new) /\ new.text = m.text
  /\ DOMAIN new.calls = DOMAIN m.calls \cup {i}
  /\ new.calls[i].args = UpTo(n) /\ Len(new.calls[i].args) = n
  /\ \A j \in DOMAIN m.calls \ {i} : new.calls[j] = m.calls[j]

LEMMA CallFits ==
  ASSUME message \in Messages, NEW m, Fits(message, m), NEW i \in DOMAIN message.args,
         NEW named \in BOOLEAN, NEW args \in Seq(Nat), NEW n \in 0..message.args[i],
         i \in DOMAIN m.calls => m.calls[i].args \o args = UpTo(n),
         i \notin DOMAIN m.calls => named = TRUE /\ args = UpTo(n),
         NEW new, new = With(m, Delta(i, named, args))
  PROVE  CallTo(m, i, n, new)
<1>1. message.args[i] \in Nat
  BY MessageType
<1>2. n \in Nat /\ Len(UpTo(n)) = n
  <2>1. n \in Nat
    BY <1>1
  <2> QED  BY <2>1, UpToFacts
<1>3. new.text = m.text /\ new.calls = Add(m.calls, Delta(i, named, args))
  BY DEF With, Delta
<1>4. Grown(m.calls, i, args, new.calls)
  <2>1. i \in DOMAIN m.calls => m.calls[i].named = TRUE
    <3>1. i \in DOMAIN m.calls => FitsCall(m.calls[i], message.args[i])
      BY DEF Fits
    <3> QED  BY <3>1 DEF FitsCall
  <2> DEFINE old == m.calls
             calls == new.calls
  <2>2. calls = Add(old, Delta(i, named, args))
    BY <1>3
  <2>3. (i \in DOMAIN old => old[i].named = TRUE) /\ (i \notin DOMAIN old => named = TRUE)
    BY <2>1
  <2> HIDE DEF old, calls
  <2>4. Grown(old, i, args, calls)
    BY <2>2, <2>3, AddGrows
  <2> QED  BY <2>4 DEF old, calls
<1>5. new.calls[i] = [named |-> TRUE, args |-> UpTo(n)]
  <2>1. i \notin DOMAIN m.calls => <<>> \o args = UpTo(n)
    BY <1>2, UpToFacts
  <2> QED  BY <1>4, <2>1 DEF Grown
<1>6. new.calls[i].args = UpTo(n) /\ Len(new.calls[i].args) = n
  BY <1>2, <1>5
<1>7. FitsCall(new.calls[i], message.args[i])
  BY <1>2, <1>5, <1>6 DEF FitsCall
<1>8. \A j \in DOMAIN new.calls : j \in DOMAIN message.args /\ FitsCall(new.calls[j], message.args[j])
  BY <1>4, <1>7 DEF Fits, Grown
<1>9. Fits(message, new)
  BY <1>3, <1>4, <1>8 DEF Fits, Grown
<1> QED  BY <1>3, <1>4, <1>6, <1>9 DEF Grown, CallTo

LEMMA FinishAdds ==
  \A m : With(m, Finish) = m
  BY DEF With, Finish

(* The piece in flight settles the difference.                             *)
LEMMA CallBalances ==
  ASSUME NEW m, NEW c, NEW i, About(c, i), c.is # "text", Balance(told, m, c), NEW new,
         new.text = m.text, DOMAIN new.calls = DOMAIN m.calls \cup {i},
         i \in DOMAIN told.args, Len(new.calls[i].args) = told.args[i],
         \A j \in DOMAIN m.calls \ {i} : new.calls[j] = m.calls[j]
  PROVE  Balance(told, new, Nothing)
<1>1. Nothing.is # "text" /\ \A j : ~About(Nothing, j)
  BY DEF About, Nothing
<1>2. \A j \in Indexes : Settled(told, new, j)
  <2> TAKE j \in Indexes
  <2>1. CASE j = i
    BY <2>1 DEF Settled
  <2>2. CASE j # i
    <3>1. ~About(c, j)
      BY <2>2 DEF About
    <3> QED  BY <2>2, <3>1 DEF Balance, Settled
  <2> QED  BY <2>1, <2>2
<1> QED  BY <1>1, <1>2 DEF Balance, About, Nothing

LEMMA MarkBalances ==
  ASSUME NEW m, NEW c, ~Piece(c)
  PROVE  Balance(told, m, c) <=> Balance(told, m, Nothing)
<1>1. \A i : ~About(Nothing, i) /\ ~About(c, i)
  BY DEF About, Nothing, Piece
<1>2. c.is # "text" /\ Nothing.is # "text"
  BY DEF Nothing, Piece
<1> QED  BY <1>1, <1>2 DEF Balance

(* The queues the readers fill.                                            *)
LEMMA EventTypes ==
  /\ Finish \in Events
  /\ \A ks \in Seq(Nat) : Text(ks) \in Events /\ Text(ks) # Finish
  /\ \A i \in Indexes, named \in BOOLEAN, args \in Seq(Nat) :
       Delta(i, named, args) \in Events /\ Delta(i, named, args) # Finish
<1>1. Finish \in Events
  BY DEF Finish, Events
<1>2. ASSUME NEW ks \in Seq(Nat)
      PROVE  Text(ks) \in Events /\ Text(ks) # Finish
  <2>1. Text(ks) \in [type : {"text"}, text : Seq(Nat)]
    BY DEF Text
  <2>2. Text(ks).type # Finish.type
    BY DEF Text, Finish
  <2> QED  BY <2>1, <2>2 DEF Events
<1>3. ASSUME NEW i \in Indexes, NEW named \in BOOLEAN, NEW args \in Seq(Nat)
      PROVE  Delta(i, named, args) \in Events /\ Delta(i, named, args) # Finish
  <2>1. Delta(i, named, args) \in [type : {"call"}, index : Indexes, named : BOOLEAN, args : Seq(Nat)]
    BY DEF Delta
  <2>2. Delta(i, named, args).type # Finish.type
    BY DEF Delta, Finish
  <2> QED  BY <2>1, <2>2 DEF Events
<1> QED  BY <1>1, <1>2, <1>3

LEMMA EmptyFlows ==
  \A finishing : Flows(<<>>, finishing)
  BY EmptySeq DEF Flows

LEMMA ShortFlows ==
  ASSUME NEW e \in Events, NEW f \in Events, e # Finish
  PROVE  /\ Flows(<<Finish>>, TRUE)
         /\ Flows(<<e>>, FALSE)
         /\ Flows(<<e, f>>, f = Finish)
<1>2. Flows(<<Finish>>, TRUE)
  BY EventTypes DEF Flows
<1>3. Flows(<<e>>, FALSE)
  BY DEF Flows
<1>4. Flows(<<e, f>>, f = Finish)
  <2>1. <<e, f>> \in Seq(Events) /\ Len(<<e, f>>) = 2
    OBVIOUS
  <2>2. ASSUME NEW k \in 1..2
        PROVE  <<e, f>>[k] = Finish <=> f = Finish /\ k = 2
    <3>1. CASE k = 1
      BY <3>1
    <3>2. CASE k = 2
      BY <3>2
    <3> QED  BY <3>1, <3>2
  <2> QED  BY <2>1, <2>2 DEF Flows
<1> QED  BY <1>2, <1>3, <1>4

LEMMA ShortAfter ==
  ASSUME NEW m, NEW e
  PROVE  /\ After(m, <<>>) = m
         /\ FitsAll(message, m, <<>>) <=> Fits(message, m)
         /\ After(m, <<e>>) = With(m, e)
         /\ Fits(message, m) /\ Fits(message, With(m, e)) => FitsAll(message, m, <<e>>)
<1>1. After(m, <<>>) = m
  BY DEF After
<1>2. After(m, <<e>>) = With(m, e)
  BY DEF After
<1>3. <<e>> # <<>> /\ <<e>>[1] = e
  OBVIOUS
<1> QED  BY <1>1, <1>2, <1>3 DEF FitsAll

LEMMA TwoAfter ==
  ASSUME NEW m, NEW e, NEW f, NEW mid, NEW new, mid = With(m, e), new = With(mid, f),
         Fits(message, m), Fits(message, mid), Fits(message, new)
  PROVE  After(m, <<e, f>>) = new /\ FitsAll(message, m, <<e, f>>)
<1>1. After(m, <<e, f>>) = new
  BY DEF After
<1>2. <<e, f>> # <<>> /\ <<e, f>>[1] = e
  OBVIOUS
<1> QED  BY <1>1, <1>2 DEF FitsAll

LEMMA OntoEmpty ==
  ASSUME NEW e \in Events, NEW f \in Events
  PROVE  /\ <<>> \o <<>> = <<>> /\ <<>> \o <<e>> = <<e>>
         /\ <<>> \o <<e, f>> = <<e, f>> /\ <<e>> \o <<f>> = <<e, f>>
<1>1. <<e>> \in Seq(Events) /\ <<e, f>> \in Seq(Events) /\ <<>> \in Seq(Events)
  OBVIOUS
<1>2. <<e>> \o <<f>> = <<e, f>>
  <2>1. <<f>> \in Seq(Events) /\ Len(<<e>>) = 1 /\ Len(<<f>>) = 1
    OBVIOUS
  <2>2. /\ <<e>> \o <<f>> \in Seq(Events) /\ Len(<<e>> \o <<f>>) = 2
        /\ (<<e>> \o <<f>>)[1] = e /\ (<<e>> \o <<f>>)[2] = f
    BY <1>1, <2>1, ConcatProperties
  <2>3. Len(<<e, f>>) = 2 /\ <<e, f>>[1] = e /\ <<e, f>>[2] = f
    OBVIOUS
  <2> DEFINE s == <<e>> \o <<f>>
             t == <<e, f>>
  <2> HIDE DEF s, t
  <2>4. s \in Seq(Events) /\ t \in Seq(Events) /\ Len(s) = 2 /\ Len(t) = 2 /\ s[1] = t[1] /\ s[2] = t[2]
    BY <1>1, <2>2, <2>3 DEF s, t
  <2>5. \A k \in 1..Len(s) : s[k] = t[k]
    <3> TAKE k \in 1..Len(s)
    <3>1. k = 1 \/ k = 2
      BY <2>4
    <3> QED  BY <2>4, <3>1
  <2>6. s = t
    BY <2>4, <2>5, SeqEqual
  <2> QED  BY <2>6 DEF s, t
<1> QED  BY <1>1, <1>2, ConcatEmptySeq

-----------------------------------------------------------------------------
(* Pieces that are delivered.                                              *)

LEMMA TextDelivered ==
  ASSUME message \in Messages, ToldFits, NEW m, Fits(message, m), NEW c, c.is = "text", Balance(told, m, c)
  PROVE  LET new == With(m, Text(<<c.text>>))
         IN  Fits(message, new) /\ Balance(told, new, Nothing) /\ new.calls = m.calls
<1> DEFINE new == With(m, Text(<<c.text>>))
<1>1. told.text = Len(m.text) + 1 /\ c.text = told.text
  BY DEF Balance
<1>2. Len(m.text) \in Nat /\ told.text \in 0..message.text /\ message.text \in Nat
  BY MessageType DEF Fits, ToldFits
<1>3. c.text \in 1..message.text /\ Len(m.text) = c.text - 1
  BY <1>1, <1>2
<1>4. Fits(message, new) /\ Len(new.text) = c.text /\ new.calls = m.calls
  BY <1>3, TextFits
<1>5. \A i \in Indexes : Settled(told, m, i)
  BY DEF Balance, About
<1> HIDE DEF new
<1>6. \A i \in Indexes : Settled(told, new, i)
  BY <1>4, <1>5 DEF Settled
<1>7. Nothing.is = "nothing" /\ \A i : ~About(Nothing, i)
  BY DEF Nothing, About
<1>8. told.text = Len(new.text) + 0
  BY <1>1, <1>2, <1>4
<1>9. Balance(told, new, Nothing)
  BY <1>6, <1>7, <1>8 DEF Balance
<1> QED  BY <1>4, <1>9 DEF new

(* What a delivery of a piece of call c.index makes of m.                  *)
Continued(m, c, new) ==
  /\ Fits(message, new) /\ Balance(told, new, Nothing)
  /\ DOMAIN new.calls = DOMAIN m.calls \cup {c.index}
  /\ Len(new.calls[c.index].args) = told.args[c.index]
  /\ \A j \in DOMAIN m.calls \ {c.index} : new.calls[j] = m.calls[j]

(* The queue that delivers the piece c of a call.                          *)
Delivery(m, c, q) == Flows(q, FALSE) /\ FitsAll(message, m, q) /\ Continued(m, c, After(m, q))

LEMMA DeltaDelivery ==
  ASSUME message \in Messages, ToldFits, NEW m, Fits(message, m), NEW c, c.is = "call" \/ c.is = "args",
         c.index \in Indexes, Balance(told, m, c),
         NEW event,
         \/ event = Delta(c.index, TRUE, Maybe(c.arg))
         \/ c.is = "args" /\ event = Delta(c.index, FALSE, Maybe(c.arg))
  PROVE  /\ Delivery(m, c, <<event>>)
         /\ c.is = "args" => Maybe(c.arg) = <<c.arg>> /\ c.arg # 0
<1> DEFINE i == c.index
           args == Maybe(c.arg)
<1>0. PICK named \in BOOLEAN : event = Delta(i, named, args) /\ (c.is = "call" => named = TRUE)
  BY Zenon
<1> DEFINE new == With(m, Delta(i, named, args))
<1>1. About(c, i) /\ Fitting(told, m, c, i)
  BY DEF About, Balance
<1>2. /\ i \in DOMAIN told.args /\ i \in DOMAIN message.args /\ c.arg = told.args[i]
      /\ told.args[i] \in 0..message.args[i] /\ message.args[i] \in Nat
  BY <1>1, MessageType DEF Fitting, ToldFits
<1>3. c.arg \in Nat /\ c.arg \in 0..message.args[i]
  BY <1>2
<1>4. /\ c.is = "args" => args = <<c.arg>> /\ c.arg # 0
      /\ args \in Seq(Nat)
      /\ i \in DOMAIN m.calls => m.calls[i].args \o args = UpTo(c.arg)
      /\ i \notin DOMAIN m.calls => named = TRUE /\ args = UpTo(c.arg)
  <2>1. CASE c.is = "call"
    <3>1. i \notin DOMAIN m.calls /\ c.arg \in 0..1
      BY <1>1, <2>1 DEF Fitting
    <3>2. args = UpTo(c.arg)
      BY <3>1 DEF Maybe, UpTo
    <3>3. args \in Seq(Nat)
      BY <1>3, <3>2, UpToFacts
    <3> QED  BY <1>0, <2>1, <3>1, <3>2, <3>3
  <2>2. CASE c.is = "args"
    <3>1. i \in DOMAIN m.calls /\ c.arg = Len(m.calls[i].args) + 1
      BY <1>1, <2>2 DEF Fitting
    <3>2. FitsCall(m.calls[i], message.args[i])
      BY <3>1 DEF Fits
    <3>3. m.calls[i].args = UpTo(Len(m.calls[i].args)) /\ Len(m.calls[i].args) \in Nat
      BY <3>2, <1>2 DEF FitsCall
    <3>4. m.calls[i].args \o <<c.arg>> = UpTo(c.arg)
      BY <3>1, <3>3, UpToFacts
    <3>0. c.arg # 0
      BY <3>1, <3>3
    <3>5. args = <<c.arg>>
      BY <3>0 DEF Maybe
    <3>6. <<c.arg>> \in Seq(Nat)
      BY <1>3
    <3> HIDE DEF args
    <3> QED  BY <2>2, <3>0, <3>1, <3>4, <3>5, <3>6
  <2> QED  BY <2>1, <2>2
<1>8. Delta(i, named, args) \in Events /\ Delta(i, named, args) # Finish
  BY <1>4, EventTypes
<1>a. new = With(m, Delta(i, named, args)) /\ i \in DOMAIN message.args /\ c.arg \in 0..message.args[i]
  BY <1>2, <1>3
<1> HIDE DEF args, new, i
<1>5. CallTo(m, i, c.arg, new)
  BY <1>a, <1>4, CallFits
<1>6. Balance(told, new, Nothing)
  BY <1>1, <1>2, <1>5, CallBalances DEF CallTo
<1>7. Continued(m, c, new)
  BY <1>2, <1>5, <1>6 DEF CallTo, Continued, i
<1> DEFINE e == Delta(i, named, args)
<1>9. Delivery(m, c, <<e>>)
  <2> HIDE DEF e
  <2>1. With(m, e) = new
    BY <1>a DEF e
  <2>2. e \in Events /\ e # Finish
    BY <1>8 DEF e
  <2>3. Flows(<<e>>, FALSE)
    BY <2>2, ShortFlows
  <2>4. After(m, <<e>>) = new /\ FitsAll(message, m, <<e>>)
    BY <1>5, <2>1, ShortAfter DEF CallTo
  <2> QED  BY <1>7, <2>3, <2>4 DEF Delivery
<1> QED  BY <1>0, <1>4, <1>9 DEF args, i, e


(* The complete item of a call, of which all or nothing was delivered.     *)
LEMMA ItemDelivery ==
  ASSUME message \in Messages, ToldFits, NEW m, Fits(message, m), NEW c, c.is = "item",
         c.index \in Indexes, Balance(told, m, c), NEW r, Known(r, m.calls),
         NEW first, first = (IF c.index \in r.emitted THEN <<>> ELSE <<Delta(c.index, TRUE, <<>>)>>)
  PROVE  /\ c.args = UpTo(told.args[c.index]) /\ told.args[c.index] \in Nat
         /\ c.args = <<>> => c.index \notin r.argsSeen
         /\ c.args = <<>> \/ c.index \in r.argsSeen => Delivery(m, c, first)
         /\ c.args # <<>> /\ c.index \notin r.argsSeen =>
              Delivery(m, c, first \o <<Delta(c.index, TRUE, c.args)>>)
<1> DEFINE i == c.index
           n == told.args[i]
           name == Delta(i, TRUE, <<>>)
           rest == Delta(i, TRUE, c.args)
<1>1. About(c, i) /\ Fitting(told, m, c, i)
  BY DEF About, Balance
<1>2. /\ i \in DOMAIN told.args /\ i \in DOMAIN message.args /\ n \in 0..message.args[i] /\ message.args[i] \in Nat /\ c.args = UpTo(n)
      /\ i \in DOMAIN m.calls => Len(m.calls[i].args) \in {0, n}
  BY <1>1, MessageType DEF Fitting, ToldFits
<1>3. n \in Nat /\ 0 \in 0..message.args[i]
  BY <1>2
<1>4. c.args \in Seq(Nat) /\ <<>> \in Seq(Nat) /\ UpTo(0) = <<>>
  BY <1>2, <1>3, UpToFacts
<1>5. c.args = <<>> <=> n = 0
  BY <1>2, <1>3, UpToFacts
<1>6. ASSUME i \in DOMAIN m.calls
      PROVE  /\ m.calls[i].args = UpTo(Len(m.calls[i].args))
             /\ Len(m.calls[i].args) = 0 => m.calls[i].args = <<>>
             /\ m.calls[i].args = <<>> => Len(m.calls[i].args) = 0
  <2>1. FitsCall(m.calls[i], message.args[i])
    BY <1>6 DEF Fits
  <2>2. m.calls[i].args = UpTo(Len(m.calls[i].args)) /\ Len(m.calls[i].args) \in Nat
    BY <1>2, <2>1 DEF FitsCall
  <2> QED  BY <2>2, UpToFacts
<1>7. /\ i \in r.emitted <=> i \in DOMAIN m.calls
      /\ i \in r.argsSeen <=> i \in DOMAIN m.calls /\ m.calls[i].args # <<>>
  BY DEF Known
<1>8. name \in Events /\ name # Finish /\ rest \in Events /\ rest # Finish
  BY <1>4, EventTypes
<1>9. c.args = <<>> => i \notin r.argsSeen
  BY <1>2, <1>5, <1>6, <1>7
<1> HIDE DEF n, name, rest, i
<1>10. ASSUME NEW new, CallTo(m, i, n, new)
       PROVE  Continued(m, c, new)
  <2>0. told.args[i] = n
    BY DEF n
  <2>1. Balance(told, new, Nothing)
    BY <1>1, <1>2, <1>10, <2>0, CallBalances DEF CallTo
  <2> QED  BY <1>2, <1>10, <2>0, <2>1 DEF CallTo, Continued, i
<1>11. ASSUME c.args = <<>> \/ i \in r.argsSeen
       PROVE  Delivery(m, c, first)
  <2>1. CASE i \in DOMAIN m.calls
    <3>1. first = <<>>
      BY <1>7, <2>1 DEF i
    <3>2. Len(m.calls[i].args) = n
      BY <1>2, <1>5, <1>6, <1>7, <1>11, <2>1
    <3>3. CallTo(m, i, n, m)
      BY <1>6, <2>1, <3>2 DEF CallTo
    <3>4. After(m, <<>>) = m /\ FitsAll(message, m, <<>>) /\ Flows(<<>>, FALSE)
      BY ShortAfter, EmptyFlows
    <3> QED  BY <1>10, <3>1, <3>3, <3>4 DEF Delivery
  <2>2. CASE i \notin DOMAIN m.calls
    <3>1. first = <<name>>
      BY <1>7, <2>2 DEF i, name
    <3>2. n = 0
      BY <1>5, <1>7, <1>11, <2>2
    <3>3. CallTo(m, i, n, With(m, name))
      BY <1>2, <1>3, <1>4, <2>2, <3>2, CallFits DEF n, name
    <3>4. Fits(message, With(m, name))
      BY <3>3 DEF CallTo
    <3>5. After(m, <<name>>) = With(m, name) /\ FitsAll(message, m, <<name>>) /\ Flows(<<name>>, FALSE)
      BY <1>8, <3>4, ShortAfter, ShortFlows
    <3> QED  BY <1>10, <3>1, <3>3, <3>5 DEF Delivery
  <2> QED  BY <2>1, <2>2
<1>12. ASSUME c.args # <<>>, i \notin r.argsSeen
       PROVE  Delivery(m, c, first \o <<rest>>)
  <2>1. CASE i \in DOMAIN m.calls
    <3>1. first \o <<rest>> = <<rest>>
      BY <1>7, <1>8, <2>1, OntoEmpty DEF i
    <3>2. m.calls[i].args = <<>>
      BY <1>7, <1>12, <2>1
    <3>3. m.calls[i].args \o c.args = UpTo(n)
      BY <1>2, <1>3, <3>2, UpToFacts
    <3>4. CallTo(m, i, n, With(m, rest))
      BY <1>2, <1>3, <1>4, <2>1, <3>3, CallFits DEF n, rest
    <3>5. Fits(message, With(m, rest))
      BY <3>4 DEF CallTo
    <3>6. After(m, <<rest>>) = With(m, rest) /\ FitsAll(message, m, <<rest>>) /\ Flows(<<rest>>, FALSE)
      BY <1>8, <3>5, ShortAfter, ShortFlows
    <3> QED  BY <1>10, <3>1, <3>4, <3>6 DEF Delivery
  <2>2. CASE i \notin DOMAIN m.calls
    <3> DEFINE mid == With(m, name)
               new == With(mid, rest)
    <3>1. first \o <<rest>> = <<name, rest>>
      <4>1. first = <<name>>
        BY <1>7, <2>2 DEF i, name
      <4> QED  BY <1>8, <4>1, OntoEmpty
    <3>2. CallTo(m, i, 0, mid)
      BY <1>2, <1>3, <1>4, <2>2, CallFits DEF n, name
    <3> HIDE DEF mid
    <3>3. Fits(message, mid) /\ i \in DOMAIN mid.calls /\ mid.calls[i].args = <<>>
      BY <1>4, <3>2 DEF CallTo
    <3>4. mid.calls[i].args \o c.args = UpTo(n)
      BY <1>2, <1>3, <3>3, UpToFacts
    <3>5. CallTo(mid, i, n, new)
      BY <1>2, <1>3, <1>4, <3>3, <3>4, CallFits DEF n, rest
    <3> HIDE DEF new
    <3>6. CallTo(m, i, n, new)
      BY <3>2, <3>5 DEF CallTo
    <3>7. Fits(message, new)
      BY <3>5 DEF CallTo
    <3>8. After(m, <<name, rest>>) = new /\ FitsAll(message, m, <<name, rest>>)
      <4>1. mid = With(m, name) /\ new = With(mid, rest)
        BY DEF mid, new
      <4> QED  BY <3>3, <3>7, <4>1, TwoAfter
    <3>9. Flows(<<name, rest>>, FALSE)
      BY <1>8, ShortFlows
    <3> QED  BY <1>10, <3>1, <3>6, <3>8, <3>9 DEF Delivery
  <2> QED  BY <2>1, <2>2
<1> QED  BY <1>2, <1>3, <1>9, <1>11, <1>12 DEF i, rest, n

(* The sets of the responses reader after such a piece.                    *)
LEMMA KnownGrows ==
  ASSUME message \in Messages, ToldFits, NEW m, NEW c, c.index \in DOMAIN told.args, NEW new, Continued(m, c, new),
         NEW r, NEW s, Known(r, m.calls),
         s.calls = r.calls \cup {c.index}, s.emitted = r.emitted \cup {c.index},
         s.argsSeen = IF told.args[c.index] = 0 THEN r.argsSeen ELSE r.argsSeen \cup {c.index},
         told.args[c.index] = 0 => c.index \notin r.argsSeen
  PROVE  Known(s, new.calls)
<1> DEFINE i == c.index
<1>1. i \in DOMAIN new.calls /\ FitsCall(new.calls[i], message.args[i]) /\ i \in DOMAIN message.args
  BY DEF Continued, Fits
<1>2. new.calls[i].args = UpTo(told.args[i]) /\ told.args[i] \in Nat
  BY <1>1, MessageType DEF Continued, FitsCall, ToldFits
<1>3. new.calls[i].args # <<>> <=> told.args[i] # 0
  BY <1>2, UpToFacts
<1>4. /\ DOMAIN new.calls = DOMAIN m.calls \cup {i}
      /\ \A j \in DOMAIN m.calls \ {i} : new.calls[j] = m.calls[j]
  BY DEF Continued
<1>5. s.argsSeen = {j \in DOMAIN new.calls : new.calls[j].args # <<>>}
  <2>1. r.argsSeen = {j \in DOMAIN m.calls : m.calls[j].args # <<>>}
    BY DEF Known
  <2> QED  BY <1>3, <1>4, <2>1
<1> QED  BY <1>4, <1>5 DEF Known

-----------------------------------------------------------------------------
(* The readers.                                                            *)

(* What reading the chunk c leaves, c being nothing any more.              *)
Read(c) ==
  /\ reader' \in Readers
  /\ Flows(queue', reader'.finished) /\ (reader'.finished => queue' # <<>>)
  /\ FitsAll(message, So, queue')
  /\ Lost(c) \/ Balance(told, After(So, queue'), Nothing)
  /\ mode = "responses" => Known(reader', After(So, queue').calls)
  /\ reader'.err => c.is \in {"garbage", "failed"} /\ ~reader'.finished
  /\ (reader'.finished \/ reader'.finishSeen) <=> (reader.finishSeen \/ c.is \in {"finish", "done"})

LEMMA ChunkFields ==
  ASSUME NEW c \in Chunks
  PROVE  /\ c.is \in Marks \cup {"text", "call", "args", "item"}
         /\ c.is \in {"call", "args", "item"} => c.index \in Indexes
<1>1. CASE c \in [is : Marks]
  BY <1>1 DEF Marks
<1>2. CASE c \in [is : {"text"}, text : Nat]
  BY <1>2
<1>3. CASE c \in [is : {"call", "args"}, index : Indexes, arg : Nat]
  BY <1>3
<1>4. CASE c \in [is : {"item"}, index : Indexes, args : {UpTo(n) : n \in Nat}]
  BY <1>4
<1> QED  BY <1>1, <1>2, <1>3, <1>4 DEF Chunks

LEMMA MarkRead ==
  ASSUME NEW c, ~Piece(c), Fits(message, So), Lost(c) \/ Balance(told, So, c),
         reader' \in Readers, queue' \in {<<>>, <<Finish>>}, reader'.finished <=> queue' = <<Finish>>,
         mode = "responses" => Known(reader', So.calls),
         reader'.err => c.is \in {"garbage", "failed"} /\ ~reader'.finished,
         (reader'.finished \/ reader'.finishSeen) <=> (reader.finishSeen \/ c.is \in {"finish", "done"})
  PROVE  Read(c)
<1> DEFINE m == So
           q == queue'
           finished == reader'.finished
<1>1. Fits(message, m)
  OBVIOUS
<1>2. q \in {<<>>, <<Finish>>} /\ (finished <=> q = <<Finish>>) /\ finished \in BOOLEAN
  BY DEF Readers
<1> HIDE DEF m, q, finished
<1>3. /\ After(m, q) = m /\ FitsAll(message, m, q)
      /\ Flows(q, finished) /\ (finished => q # <<>>)
  <2>1. With(m, Finish) = m /\ Finish \in Events
    BY FinishAdds, EventTypes
  <2>2. CASE q = <<>>
    <3>1. finished = FALSE
      BY <1>2, <2>2
    <3> QED  BY <1>1, <2>2, <3>1, ShortAfter, EmptyFlows
  <2>3. CASE q = <<Finish>>
    <3>1. finished = TRUE
      BY <1>2, <2>3
    <3>2. Flows(<<Finish>>, TRUE)
      BY <2>1 DEF Flows
    <3> QED  BY <1>1, <2>1, <2>3, <3>1, <3>2, ShortAfter
  <2> QED  BY <1>2, <2>2, <2>3
<1>4. Lost(c) \/ Balance(told, m, Nothing)
  BY MarkBalances DEF m
<1> QED  BY <1>3, <1>4 DEF Read, m, q, finished

LEMMA TextRead ==
  ASSUME message \in Messages, ToldFits, NEW c, c.is = "text", Fits(message, So), Balance(told, So, c),
         ~reader.err, ~reader.finished, reader \in Readers, mode = "responses" => Known(reader, So.calls),
         queue' = <<Text(<<c.text>>)>>, reader' = reader
  PROVE  Read(c)
<1> DEFINE m == So
           e == Text(<<c.text>>)
<1>1. Fits(message, With(m, e)) /\ Balance(told, With(m, e), Nothing) /\ With(m, e).calls = m.calls
  BY TextDelivered
<1>2. c.text \in Nat
  <2>1. c.text = Len(So.text) + 1 /\ Len(So.text) \in Nat
    BY MessageType DEF Balance, Fits
  <2> QED  BY <2>1
<1>3. e \in Events /\ e # Finish
  <2>1. <<c.text>> \in Seq(Nat)
    BY <1>2
  <2> QED  BY <2>1, EventTypes
<1>4. Flows(<<e>>, FALSE)
  BY <1>3, ShortFlows
<1>5. Fits(message, m)
  OBVIOUS
<1> HIDE DEF m, e
<1>6. After(m, <<e>>) = With(m, e) /\ FitsAll(message, m, <<e>>)
  BY <1>1, <1>5, ShortAfter
<1>7. queue' = <<e>> /\ reader'.finished = FALSE
  BY DEF e, Readers
<1> QED  BY <1>1, <1>4, <1>6, <1>7 DEF Read, m

LEMMA CallRead ==
  ASSUME NEW c, c.is \in {"call", "args", "item"}, Delivery(So, c, queue'),
         reader' \in Readers, ~reader'.err, ~reader'.finished, reader'.finishSeen = reader.finishSeen,
         mode = "responses" => Known(reader', After(So, queue').calls)
  PROVE  Read(c)
<1>1. reader'.finished = FALSE
  BY DEF Readers
<1>2. Flows(queue', FALSE) /\ FitsAll(message, So, queue') /\ Balance(told, After(So, queue'), Nothing)
  BY DEF Delivery, Continued
<1> QED  BY <1>1, <1>2 DEF Read

LEMMA HandleReads ==
  ASSUME ServerInv, ReaderInv, QueueInv, Streaming, NEW c \in Chunks, Coming(c), Reading, Handle(c)
  PROVE  Read(c)
<1> DEFINE m == So
<1>1. queue = <<>> /\ ~reader.err /\ ~reader.finished /\ reader \in Readers
  BY DEF Reading, ReaderInv
<1>2. Ahead = m
  BY <1>1 DEF Ahead, After
<1>3. /\ message \in Messages /\ ToldFits /\ Fits(message, m)
      /\ Lost(c) \/ Balance(told, m, c)
      /\ Piece(c) => Balance(told, m, c)
      /\ mode = "responses" => Known(reader, m.calls)
  BY <1>2 DEF ServerInv, QueueInv, FitsAll, Coming, Lost, ReaderInv
<1>4. /\ c.is \in Marks \cup {"text", "call", "args", "item"}
      /\ c.is \in {"call", "args", "item"} => c.index \in Indexes
  BY ChunkFields
<1>5. \A e \in Events : <<>> \o <<e>> = <<e>>
  BY OntoEmpty
<1>6. <<>> \o <<Finish>> = <<Finish>> /\ <<Finish>> # <<>>
  BY <1>5, EventTypes
<1>7. ASSUME c.is = "text", queue' = queue \o <<Text(<<c.text>>)>>, reader' = reader
      PROVE  Read(c)
  <2>1. Balance(told, So, c) /\ Fits(message, So)
    BY <1>3, <1>7 DEF Piece
  <2>2. c.text \in Nat
    <3>1. c.text = Len(So.text) + 1 /\ Len(So.text) \in Nat
      BY <1>3, <1>7, <2>1, MessageType DEF Balance, Fits
    <3> QED  BY <3>1
  <2>3. <<c.text>> \in Seq(Nat)
    BY <2>2
  <2>4. Text(<<c.text>>) \in Events
    BY <2>3, EventTypes
  <2>5. queue' = <<Text(<<c.text>>)>>
    BY <1>1, <1>5, <1>7, <2>4
  <2> QED  BY <1>1, <1>3, <1>7, <2>1, <2>5, TextRead
<1>8. ASSUME ~Piece(c), reader' = [reader EXCEPT !.err = TRUE], queue' = queue,
             c.is \in {"garbage", "failed"}
      PROVE  Read(c)
  <2>1. /\ reader' \in Readers /\ ~reader'.finished /\ reader'.finishSeen = reader.finishSeen
        /\ mode = "responses" => Known(reader', So.calls)
    BY <1>1, <1>3, <1>8 DEF Readers, Known
  <2>2. <<>> # <<Finish>>
    BY <1>6
  <2> QED  BY <1>1, <1>3, <1>8, <2>1, <2>2, MarkRead
<1>9. ASSUME c.is = "other", reader' = reader, queue' = queue
      PROVE  Read(c)
  <2>1. ~Piece(c)
    BY <1>9 DEF Piece
  <2> QED  BY <1>1, <1>3, <1>6, <1>9, <2>1, MarkRead
<1>10. CASE mode = "chat"
  <2>1. handleChunk(c)
    BY <1>10 DEF Handle
  <2>2. CASE c.is = "garbage" /\ Fails
    BY <1>8, <2>2 DEF Fails, Piece
  <2>3. CASE c.is = "done" /\ emitFinish
    <3>1. reader' = [reader EXCEPT !.finished = TRUE] /\ queue' = <<Finish>>
      BY <1>1, <1>6, <2>3 DEF emitFinish, Emit
    <3>2. reader' \in Readers /\ reader'.finished /\ ~reader'.err
      BY <1>1, <3>1 DEF Readers
    <3>3. ~Piece(c)
      BY <2>3 DEF Piece
    <3> QED  BY <1>3, <1>10, <2>3, <3>1, <3>2, <3>3, MarkRead
  <2>4. CASE c.is = "finish" /\ reader' = [reader EXCEPT !.finishSeen = TRUE] /\ UNCHANGED queue
    <3>1. reader' \in Readers /\ ~reader'.finished /\ ~reader'.err /\ reader'.finishSeen
      BY <1>1, <2>4 DEF Readers
    <3>2. ~Piece(c)
      BY <2>4 DEF Piece
    <3> QED  BY <1>1, <1>3, <1>6, <1>10, <2>4, <3>1, <3>2, MarkRead
  <2>5. CASE c.is = "text" /\ Emit(<<Text(<<c.text>>)>>) /\ UNCHANGED reader
    BY <1>7, <2>5 DEF Emit
  <2>6. CASE /\ c.is \in {"call", "args"}
             /\ Emit(<<Delta(c.index, c.is = "call", Maybe(c.arg))>>)
             /\ UNCHANGED reader
    <3> DEFINE named == c.is = "call"
               e == Delta(c.index, named, Maybe(c.arg))
    <3>1. Balance(told, m, c) /\ c.index \in Indexes
      BY <1>3, <1>4, <2>6 DEF Piece
    <3>2. Delivery(m, c, <<e>>)
      <4>1. message \in Messages /\ ToldFits /\ Fits(message, m) /\ (c.is = "call" \/ c.is = "args")
        BY <1>3, <2>6
      <4>2. \/ e = Delta(c.index, TRUE, Maybe(c.arg))
            \/ c.is = "args" /\ e = Delta(c.index, FALSE, Maybe(c.arg))
        <5>1. CASE c.is = "call"
          <6>1. named = TRUE
            BY <5>1
          <6> HIDE DEF named
          <6> QED  BY <6>1
        <5>2. CASE c.is = "args"
          <6>1. named = FALSE
            BY <5>2
          <6> HIDE DEF named
          <6> QED  BY <5>2, <6>1
        <5> QED  BY <2>6, <5>1, <5>2
      <4> HIDE DEF named, m, e
      <4> QED  BY <3>1, <4>1, <4>2, DeltaDelivery
    <3>3. queue' = <<e>>
      BY <1>1, <2>6, ConcatEmptySeq DEF Emit
    <3> QED  BY <1>1, <1>3, <1>10, <2>6, <3>2, <3>3, CallRead
  <2>7. CASE c.is = "other" /\ Ignores
    BY <1>9, <2>7 DEF Ignores
  <2> QED  BY <2>1, <2>2, <2>3, <2>4, <2>5, <2>6, <2>7 DEF handleChunk
<1>11. CASE mode = "responses"
  <2> DEFINE i == c.index
             Serves(seen) ==
               /\ reader' \in Readers
               /\ ~reader'.err /\ ~reader'.finished /\ reader'.finishSeen = reader.finishSeen
               /\ reader'.calls = reader.calls \cup {i} /\ reader'.emitted = reader.emitted \cup {i}
               /\ reader'.argsSeen = seen
  <2>1. handleEvent(c) /\ Known(reader, m.calls)
    BY <1>3, <1>11 DEF Handle
  <2>11. ASSUME c.is \in {"call", "args", "item"}
         PROVE  /\ Balance(told, m, c) /\ Fitting(told, m, c, i) /\ i \in Indexes
                /\ i \in DOMAIN told.args /\ told.args[i] \in Nat
    <3>1. Balance(told, m, c) /\ i \in Indexes /\ About(c, i)
      BY <1>3, <1>4, <2>11 DEF Piece, About
    <3>2. Fitting(told, m, c, i)
      BY <3>1 DEF Balance
    <3> QED  BY <1>3, <3>1, <3>2, MessageType DEF Fitting, ToldFits
  <2>12. ASSUME c.is \in {"call", "args", "item"}, Delivery(m, c, queue'),
                told.args[i] = 0 => i \notin reader.argsSeen,
                Serves(IF told.args[i] = 0 THEN reader.argsSeen ELSE reader.argsSeen \cup {i})
         PROVE  Read(c)
    <3> DEFINE new == After(m, queue')
               s == reader'
    <3>1. Continued(m, c, new)
      BY <2>12 DEF Delivery
    <3>2. /\ s.calls = reader.calls \cup {i} /\ s.emitted = reader.emitted \cup {i}
          /\ s.argsSeen = IF told.args[i] = 0 THEN reader.argsSeen ELSE reader.argsSeen \cup {i}
      BY <2>12
    <3>3. Known(s, new.calls)
      <4> HIDE DEF new, s, m
      <4> QED  BY <1>3, <2>1, <2>11, <2>12, <3>1, <3>2, KnownGrows
    <3> QED  BY <2>12, <3>3, CallRead
  <2>2. CASE c.is \in {"garbage", "failed"} /\ Fails
    BY <1>8, <2>2 DEF Fails, Piece
  <2>3. CASE /\ c.is = "finish"
             /\ reader' = [reader EXCEPT !.finishSeen = TRUE, !.finished = TRUE]
             /\ Emit(<<Finish>>)
    <3>1. queue' = <<Finish>>
      BY <1>1, <1>6, <2>3 DEF Emit
    <3>2. /\ reader' \in Readers /\ reader'.finished /\ ~reader'.err
          /\ Known(reader', So.calls)
      BY <1>1, <2>1, <2>3 DEF Readers, Known
    <3>3. ~Piece(c)
      BY <2>3 DEF Piece
    <3> QED  BY <1>3, <2>3, <3>1, <3>2, <3>3, MarkRead
  <2>4. CASE c.is = "text" /\ Emit(<<Text(<<c.text>>)>>) /\ UNCHANGED reader
    BY <1>7, <2>4 DEF Emit
  <2>5. CASE /\ c.is = "call"
             /\ Emit(Announced(c))
             /\ Knows(c, reader.argsSeen)
    <3> DEFINE e == Delta(i, TRUE, Maybe(c.arg))
    <3>1. Delivery(m, c, <<e>>)
      <4>1. e = Delta(c.index, TRUE, Maybe(c.arg)) /\ (c.is = "call" \/ c.is = "args")
        BY <2>5
      <4> HIDE DEF e
      <4> QED  BY <1>3, <2>11, <2>5, <4>1, DeltaDelivery
    <3>2. i \notin DOMAIN m.calls /\ c.arg = 0 /\ told.args[i] = 0
      BY <1>11, <2>11, <2>5 DEF Fitting, Coming
    <3>3. queue' = <<e>>
      <4>1. Announced(c) = <<e>>
        BY <2>1, <3>2 DEF Announced, Known, Maybe
      <4> QED  BY <1>1, <2>5, <4>1, ConcatEmptySeq DEF Emit
    <3>4. i \notin reader.argsSeen
      BY <2>1, <3>2 DEF Known
    <3>5. reader' = [reader EXCEPT !.calls = @ \cup {i}, !.emitted = @ \cup {i}, !.argsSeen = reader.argsSeen]
      BY <2>5 DEF Knows
    <3>6. Serves(IF told.args[i] = 0 THEN reader.argsSeen ELSE reader.argsSeen \cup {i})
      <4>1. i \in Indexes
        BY <2>11, <2>5
      <4> QED  BY <1>1, <3>2, <3>5, <4>1 DEF Readers
    <3> QED  BY <2>12, <2>5, <3>1, <3>3, <3>4, <3>6
  <2>6. CASE /\ c.is = "args"
             /\ Emit(<<Delta(c.index, c.index \in reader.calls, <<c.arg>>)>>)
             /\ reader' = [reader EXCEPT !.emitted = @ \cup {c.index},
                                        !.argsSeen = @ \cup {c.index}]
    <3> DEFINE named == i \in reader.calls
               e == Delta(i, named, Maybe(c.arg))
    <3>1. i \in DOMAIN m.calls /\ c.arg = told.args[i]
      BY <2>11, <2>6 DEF Fitting
    <3>4. i \in reader.calls
      BY <2>1, <3>1 DEF Known
    <3>2. Delivery(m, c, <<e>>) /\ Maybe(c.arg) = <<c.arg>> /\ c.arg # 0
      <4>1. named = TRUE
        BY <3>4
      <4>2. e = Delta(c.index, TRUE, Maybe(c.arg)) /\ (c.is = "call" \/ c.is = "args")
        BY <2>6, <4>1
      <4> HIDE DEF named, e
      <4> QED  BY <1>3, <2>11, <2>6, <4>2, DeltaDelivery
    <3>3. queue' = <<e>>
      BY <1>1, <2>6, <3>2, ConcatEmptySeq DEF Emit
    <3>5. Serves(IF told.args[i] = 0 THEN reader.argsSeen ELSE reader.argsSeen \cup {i})
      BY <1>1, <2>11, <2>6, <3>1, <3>2, <3>4 DEF Readers, Serves
    <3> QED  BY <2>12, <2>6, <3>1, <3>2, <3>3, <3>5
  <2>7. CASE /\ c.is = "item"
             /\ \/ /\ c.args = <<>> \/ c.index \in reader.argsSeen
                   /\ Emit(Announced(c))
                \/ /\ c.args # <<>> /\ c.index \notin reader.argsSeen
                   /\ Emit(Announced(c) \o <<Delta(c.index, TRUE, c.args)>>)
             /\ Knows(c, IF c.args = <<>> THEN reader.argsSeen
                         ELSE reader.argsSeen \cup {c.index})
    <3> DEFINE first == Announced(c)
    <3>1. first = (IF i \in reader.emitted THEN <<>> ELSE <<Delta(i, TRUE, <<>>)>>)
      BY DEF Announced
    <3>2. /\ c.args = UpTo(told.args[i]) /\ told.args[i] \in Nat
          /\ c.args = <<>> => i \notin reader.argsSeen
          /\ c.args = <<>> \/ i \in reader.argsSeen => Delivery(m, c, first)
          /\ c.args # <<>> /\ i \notin reader.argsSeen =>
               Delivery(m, c, first \o <<Delta(i, TRUE, c.args)>>)
      <4> HIDE DEF first
      <4> QED  BY <1>3, <2>11, <2>1, <2>7, <3>1, ItemDelivery
    <3>3. Delivery(m, c, queue')
      <4>1. <<>> \o first = first
        BY <3>1, ConcatEmptySeq
      <4>2. <<>> \o (first \o <<Delta(i, TRUE, c.args)>>) = first \o <<Delta(i, TRUE, c.args)>>
        BY <3>1, ConcatEmptySeq, ConcatProperties
      <4> HIDE DEF first
      <4> QED  BY <1>1, <2>7, <3>2, <4>1, <4>2 DEF Emit, first
    <3>4. c.args = <<>> <=> told.args[i] = 0
      BY <3>2, UpToFacts
    <3>5. Serves(IF told.args[i] = 0 THEN reader.argsSeen ELSE reader.argsSeen \cup {i})
      BY <1>1, <2>11, <2>7, <3>4 DEF Readers, Serves, Knows
    <3> QED  BY <2>12, <2>7, <3>2, <3>3, <3>4, <3>5
  <2>8. CASE c.is = "other" /\ Ignores
    BY <1>9, <2>8 DEF Ignores
  <2> QED  BY <2>1, <2>2, <2>3, <2>4, <2>5, <2>6, <2>7, <2>8 DEF handleEvent
<1> QED  BY <1>10, <1>11 DEF Streaming

-----------------------------------------------------------------------------
(* The server and the network.                                             *)

LEMMA Unread ==
  ASSUME ReaderInv, QueueInv, UNCHANGED <<mode, message, reader, queue, turn>>,
         Ending => Ending', broken => broken'
  PROVE  ReaderInv' /\ QueueInv' /\ Ahead' = Ahead
<1>1. Ahead' = Ahead /\ So' = So
  BY DEF Ahead, So, turn
<1>2. QueueInv'
  BY <1>1 DEF QueueInv, turn
<1>3. ReaderInv'
  BY <1>1 DEF ReaderInv, Streaming
<1> QED  BY <1>1, <1>2, <1>3

LEMMA ResultKept ==
  ASSUME ResultInv, UNCHANGED <<mode, message, reader, queue, turn, result>>,
         stage' # "request", broken => broken'
  PROVE  ResultInv'
<1>1. Ahead' = Ahead
  BY DEF Ahead, So, turn
<1> QED  BY <1>1 DEF ResultInv, turn

(* Between two messages on the wire nothing is in flight.                  *)
LEMMA NothingInFlight ==
  ASSUME IInv, Streaming, wire = <<>>, pending = <<>> \/ end = "open"
  PROVE  Coming(Nothing) /\ pending = <<>>
<1>1. PICK c \in Chunks \cup {Nothing} : Coming(c)
  BY DEF IInv
<1>2. InFlight(c)
  BY <1>1 DEF Coming
<1>3. c = Nothing /\ pending = <<>>
  BY <1>2 DEF InFlight
<1> QED  BY <1>1, <1>3

LEMMA NothingIs ==
  /\ Nothing.is = "nothing" /\ ~Piece(Nothing)
  /\ \A i : ~About(Nothing, i)
  BY DEF Nothing, Piece, About

(* s is t with n fragments of call i told.                                 *)
Updated(t, i, n, s) ==
  /\ s.text = t.text /\ DOMAIN s.args = DOMAIN t.args \cup {i}
  /\ s.args[i] = n
  /\ \A j \in DOMAIN t.args \ {i} : s.args[j] = t.args[j]

LEMMA TellsUpdates ==
  ASSUME ServerInv, NEW i, NEW n, Tells(i, n)
  PROVE  /\ Updated(told, i, n, told')
         /\ told' = [text |-> told'.text, args |-> [j \in DOMAIN told'.args |-> told'.args[j]]]
<1>1. told = [text |-> told.text, args |-> [j \in DOMAIN told.args |-> told.args[j]]]
  BY DEF ServerInv
<1>2. told'.args = [j \in DOMAIN told.args \cup {i} |-> IF j = i THEN n ELSE told.args[j]]
        /\ told'.text = told.text /\ told' = [text |-> told'.text, args |-> told'.args]
  BY <1>1 DEF Tells
<1> QED  BY <1>2 DEF Updated

LEMMA CallSent ==
  ASSUME NEW t, NEW m, Balance(t, m, Nothing), NEW i \in Indexes, NEW n, NEW s, Updated(t, i, n, s),
         NEW c, About(c, i), Fitting(s, m, c, i)
  PROVE  Balance(s, m, c)
<1>1. t.text = Len(m.text) + 0 /\ c.is # "text"
  BY NothingIs DEF Balance, About
<1>2. ASSUME NEW j \in Indexes, ~About(c, j)
      PROVE  Settled(s, m, j)
  <2>1. j # i /\ Settled(t, m, j)
    BY <1>2, NothingIs DEF Balance
  <2> QED  BY <2>1 DEF Settled, Updated
<1>3. \A j \in Indexes : About(c, j) => Fitting(s, m, c, j)
  BY DEF About
<1> QED  BY <1>1, <1>2, <1>3 DEF Balance, Updated

(* A step of the server: what it leaves alone.                             *)
Serving ==
  /\ Streaming /\ stage \notin {"request", "done"} /\ end = "open" /\ wire = <<>>
  /\ UNCHANGED <<mode, message, whole, pending, reader, queue, turn, result>>

LEMMA ServingKeeps ==
  ASSUME IInv, Serving, stage' \in {stage, "finished", "done"}, broken' \in {broken, TRUE}
  PROVE  /\ ReaderInv' /\ QueueInv' /\ ResultInv' /\ Streaming'
         /\ Ahead' = Ahead /\ Balance(told, Ahead, Nothing)
         /\ pending' = <<>> /\ Coming(Nothing)
<1>0. ServerInv /\ ReaderInv /\ QueueInv /\ ResultInv
  BY DEF IInv
<1>1. Ending => Ending'
  BY DEF Ending
<1>2. broken => broken'
  OBVIOUS
<1>3. ReaderInv' /\ QueueInv' /\ Ahead' = Ahead
  BY <1>0, <1>1, <1>2, Unread DEF Serving
<1>4. ResultInv'
  BY <1>0, <1>2, ResultKept DEF Serving
<1>5. Coming(Nothing) /\ pending = <<>>
  BY NothingInFlight DEF Serving
<1>6. Balance(told, Ahead, Nothing)
  BY <1>5 DEF Coming, Lost, Serving
<1> QED  BY <1>3, <1>4, <1>5, <1>6 DEF Serving, Streaming

(* A chunk is on its way.                                                  *)
LEMMA Underway ==
  ASSUME IInv, Serving, stage' \in {stage, "finished", "done"}, broken' \in {broken, TRUE}, ServerInv',
         NEW c \in Chunks, wire' = <<Data(c), Blank>>, end' = "open", Balance(told', Ahead, c),
         stage' # "body" => ~Piece(c),
         c.is \in {"garbage", "failed"} => broken',
         c.is \in {"finish", "done"} => Ending',
         c.is \in {"failed", "item"} => mode = "responses",
         c.is = "done" => mode = "chat",
         (c.is = "call" /\ mode = "responses") => c.arg = 0,
         stage' # stage => c.is \in {"finish", "done"}
  PROVE  IInv'
<1>1. /\ ReaderInv' /\ QueueInv' /\ ResultInv' /\ Streaming'
      /\ Ahead' = Ahead /\ Balance(told, Ahead, Nothing)
      /\ pending' = <<>> /\ Coming(Nothing)
  BY ServingKeeps
<1>2. InFlight(c)'
  BY <1>1 DEF InFlight
<1>3. (Ending' /\ ~broken') => (reader'.finishSeen \/ reader'.finished \/ c.is \in {"finish", "done"})
  <2>1. (Ending /\ ~broken) => (reader.finishSeen \/ reader.finished)
    BY <1>1, NothingIs DEF Coming
  <2>2. ~broken' => ~broken
    OBVIOUS
  <2>3. CASE stage' # stage
    BY <2>3
  <2>4. CASE stage' = stage
    <3>1. Ending' => Ending
      BY <2>4 DEF Ending
    <3>2. reader' = reader
      BY DEF Serving
    <3> QED  BY <2>1, <2>2, <3>1, <3>2
  <2> QED  BY <2>3, <2>4
<1>4. Coming(c)'
  BY <1>1, <1>2, <1>3 DEF Coming, Serving
<1> QED  BY <1>1, <1>4 DEF IInv

LEMMA SendTextKeeps ==
  ASSUME IInv, Serving, stage = "body", SendText
  PROVE  IInv'
<1> PICK c : c = [is |-> "text", text |-> told.text + 1]
  OBVIOUS
<1>0. ServerInv /\ message \in Messages /\ ToldFits
  BY DEF IInv, ServerInv
<1>1. told.text \in Nat /\ told.text + 1 \in 0..message.text
  BY <1>0, MessageType DEF ToldFits, SendText
<1>2. told'.args = told.args /\ told'.text = told.text + 1 /\ told' = [text |-> told'.text, args |-> told'.args]
  BY <1>0 DEF ServerInv, SendText
<1>3. ServerInv'
  <2>1. ToldFits'
    BY <1>0, <1>1, <1>2 DEF ToldFits, Serving
  <2> QED  BY <1>0, <1>2, <2>1 DEF ServerInv, Serving, Streaming, Ending, SendText, Send
<1>4. c \in Chunks
  BY <1>1 DEF Chunks
<1>5. Balance(told', Ahead, c)
  <2>1. Balance(told, Ahead, Nothing)
    BY ServingKeeps DEF SendText
  <2>2. told.text = Len(Ahead.text) + 0 /\ \A i \in Indexes : Settled(told, Ahead, i)
    BY <2>1, NothingIs DEF Balance
  <2>3. \A i \in Indexes : Settled(told', Ahead, i)
    BY <1>2, <2>2 DEF Settled
  <2>4. c.is = "text" /\ c.text = told'.text /\ \A i : ~About(c, i)
    BY <1>2 DEF About
  <2>5. told'.text = Len(Ahead.text) + 1
    BY <1>1, <1>2, <2>2
  <2> QED  BY <2>3, <2>4, <2>5 DEF Balance
<1>6. wire' = <<Data(c), Blank>> /\ stage' = stage /\ end' = "open" /\ broken' = broken
  BY DEF SendText, Send, Serving
<1>7. c.is = "text"
  OBVIOUS
<1> QED  BY <1>3, <1>4, <1>5, <1>6, <1>7, Underway

(* A piece of a call: it stays within the message.                         *)
LEMMA CallUnderway ==
  ASSUME IInv, Serving, stage = "body", UNCHANGED <<stage, end, broken>>,
         NEW i \in DOMAIN message.args, NEW n \in 0..message.args[i], Tells(i, n),
         i \in whole => n \in {0, message.args[i]},
         NEW c \in Chunks, Send(c), About(c, i), Fitting(told', Ahead, c, i),
         c.is = "item" => mode = "responses",
         (c.is = "call" /\ mode = "responses") => c.arg = 0
  PROVE  IInv'
<1>0. ServerInv /\ message \in Messages /\ ToldFits
  BY DEF IInv, ServerInv
<1>1. /\ Updated(told, i, n, told') /\ i \in Indexes
      /\ told' = [text |-> told'.text, args |-> [j \in DOMAIN told'.args |-> told'.args[j]]]
  BY <1>0, MessageType, TellsUpdates
<1>2. ToldFits'
  <2>1. told'.text \in 0..message.text
    BY <1>0, <1>1 DEF ToldFits, Updated
  <2>2. ASSUME NEW j \in DOMAIN told'.args
        PROVE  j \in DOMAIN message.args /\ told'.args[j] \in 0..message.args[j]
    BY <1>0, <1>1, <2>2 DEF ToldFits, Updated
  <2> QED  BY <2>1, <2>2 DEF ToldFits, Serving
<1>3. ServerInv'
  <2>1. \A j \in whole' \cap DOMAIN told'.args : told'.args[j] \in {0, message'.args[j]}
    BY <1>0, <1>1 DEF ServerInv, Updated, Serving
  <2> QED  BY <1>0, <1>1, <1>2, <2>1 DEF ServerInv, Serving, Streaming, Ending, Send
<1>4. Balance(told', Ahead, c)
  <2>1. Balance(told, Ahead, Nothing)
    BY ServingKeeps
  <2> QED  BY <1>1, <2>1, CallSent
<1>5. wire' = <<Data(c), Blank>> /\ stage' = "body" /\ end' = "open" /\ broken' = broken
  BY DEF Send, Serving
<1>6. c.is \in {"call", "args", "item"}
  BY DEF About
<1> QED  BY <1>3, <1>4, <1>5, <1>6, Underway

LEMMA SendCallKeeps ==
  ASSUME IInv, Serving, stage = "body", NEW i \in Indexes, SendCall(i)
  PROVE  IInv'
<1> PICK n \in 0..1 :
      /\ n = 1 => mode = "chat" /\ message.args[i] > 0
      /\ Tells(i, n)
      /\ Send([is |-> "call", index |-> i, arg |-> n])
  BY DEF SendCall
<1> PICK c : c = [is |-> "call", index |-> i, arg |-> n]
  OBVIOUS
<1>0. ServerInv /\ message \in Messages
  BY DEF IInv, ServerInv
<1>1. i \in DOMAIN message.args /\ i \notin DOMAIN told.args /\ message.args[i] \in Nat
  BY <1>0, MessageType DEF SendCall
<1>2. n \in 0..message.args[i]
  BY <1>1
<1>3. i \in whole => n \in {0, message.args[i]}
  BY <1>0 DEF ServerInv
<1>4. c \in Chunks /\ About(c, i) /\ Send(c) /\ c.is = "call" /\ c.arg = n
  BY DEF Chunks, About
<1>5. Fitting(told', Ahead, c, i)
  <2>1. Updated(told, i, n, told')
    BY <1>0, TellsUpdates
  <2>2. Balance(told, Ahead, Nothing)
    BY ServingKeeps DEF SendCall
  <2>3. Settled(told, Ahead, i)
    BY <2>2, NothingIs DEF Balance
  <2> QED  BY <1>1, <1>4, <2>1, <2>3 DEF Fitting, Settled, Updated
<1>6. (c.is = "call" /\ mode = "responses") => c.arg = 0
  BY <1>4
<1> QED  BY <1>1, <1>2, <1>3, <1>4, <1>5, <1>6, CallUnderway DEF SendCall

LEMMA SendArgsKeeps ==
  ASSUME IInv, Serving, stage = "body", NEW i \in Indexes, SendArgs(i)
  PROVE  IInv'
<1> PICK n : n = told.args[i] + 1
  OBVIOUS
<1> PICK c : c = [is |-> "args", index |-> i, arg |-> n]
  OBVIOUS
<1>0. ServerInv /\ message \in Messages /\ ToldFits
  BY DEF IInv, ServerInv
<1>1. i \in DOMAIN message.args /\ i \in DOMAIN told.args /\ told.args[i] \in Nat /\ message.args[i] \in Nat
        /\ told.args[i] < message.args[i]
  BY <1>0, MessageType DEF SendArgs, Opened, ToldFits
<1>2. n \in 0..message.args[i] /\ n \in Nat /\ i \notin whole /\ Tells(i, n)
  BY <1>1 DEF SendArgs
<1>4. c \in Chunks /\ About(c, i) /\ Send(c) /\ c.is = "args" /\ c.arg = n
  BY <1>2 DEF Chunks, About, SendArgs
<1>5. Fitting(told', Ahead, c, i)
  <2>1. Updated(told, i, n, told')
    BY <1>0, <1>2, TellsUpdates
  <2>2. Balance(told, Ahead, Nothing)
    BY ServingKeeps DEF SendArgs
  <2>3. Settled(told, Ahead, i)
    BY <2>2, NothingIs DEF Balance
  <2> QED  BY <1>1, <1>4, <2>1, <2>3 DEF Fitting, Settled, Updated
<1> QED  BY <1>1, <1>2, <1>4, <1>5, CallUnderway DEF SendArgs

LEMMA SendItemKeeps ==
  ASSUME IInv, Serving, stage = "body", NEW i \in Indexes, SendItem(i)
  PROVE  IInv'
<1> PICK n : n = message.args[i]
  OBVIOUS
<1> PICK c : c = [is |-> "item", index |-> i, args |-> UpTo(n)]
  OBVIOUS
<1>0. ServerInv /\ message \in Messages /\ ToldFits
  BY DEF IInv, ServerInv
<1>1. i \in DOMAIN message.args /\ message.args[i] \in Nat
  BY <1>0, MessageType DEF SendItem
<1>2. n \in 0..message.args[i] /\ n \in Nat /\ Tells(i, n) /\ (i \in whole => n \in {0, message.args[i]})
  BY <1>1 DEF SendItem
<1>4. c \in Chunks /\ About(c, i) /\ Send(c) /\ c.is = "item" /\ c.args = UpTo(n)
  BY <1>2 DEF Chunks, About, SendItem
<1>5. Fitting(told', Ahead, c, i)
  <2>1. Updated(told, i, n, told')
    BY <1>0, <1>2, TellsUpdates
  <2>2. Balance(told, Ahead, Nothing)
    BY ServingKeeps DEF SendItem
  <2>3. Settled(told, Ahead, i)
    BY <2>2, NothingIs DEF Balance
  <2>4. i \in DOMAIN Ahead.calls => Len(Ahead.calls[i].args) \in {0, n}
    BY <1>0, <2>3 DEF ServerInv, Settled, SendItem
  <2> QED  BY <1>4, <2>1, <2>4 DEF Fitting, Updated
<1> QED  BY <1>1, <1>2, <1>4, <1>5, CallUnderway DEF SendItem

LEMMA SendEndKeeps ==
  ASSUME IInv, Serving, SendEnd
  PROVE  IInv'
<1>0. ServerInv
  BY DEF IInv
<1>1. PICK c :
        \/ stage = "body" /\ stage' = "finished" /\ Send(c) /\ c = [is |-> "finish"]
        \/ mode = "chat" /\ stage' = "done" /\ Send(c) /\ c = [is |-> "done"]
  BY DEF SendEnd, Done
<1>2. c \in Chunks /\ ~Piece(c) /\ c.is \in {"finish", "done"} /\ (c.is = "done" => mode = "chat")
  BY <1>1 DEF Chunks, Marks, Piece
<1>3. wire' = <<Data(c), Blank>> /\ stage' \in {"finished", "done"} /\ end' = "open"
        /\ UNCHANGED <<told, broken>>
  BY <1>1 DEF Send, SendEnd, Serving
<1>4. ServerInv'
  BY <1>0, <1>3 DEF ServerInv, Serving, Streaming, Ending, SendEnd, AllTold, ToldFits
<1>5. Balance(told', Ahead, c)
  <2>1. Balance(told, Ahead, Nothing)
    BY <1>3, ServingKeeps
  <2>2. Balance(told, Ahead, c)
    BY <1>2, <2>1, MarkBalances
  <2> QED  BY <1>3, <2>2
<1> QED  BY <1>2, <1>3, <1>4, <1>5, Underway DEF Ending

LEMMA SendOtherKeeps ==
  ASSUME IInv, Serving, SendOther
  PROVE  IInv'
<1>0. ServerInv
  BY DEF IInv
<1>1. UNCHANGED <<stage, told, end>> /\ broken' \in {broken, TRUE} /\ end' = "open"
  BY DEF SendOther, Serving
<1>2. /\ ReaderInv' /\ QueueInv' /\ ResultInv' /\ Streaming'
      /\ Ahead' = Ahead /\ Balance(told, Ahead, Nothing)
      /\ pending' = <<>> /\ Coming(Nothing)
  BY <1>1, ServingKeeps
<1>3. ASSUME wire' = <<TooLong>> => broken'
      PROVE  ServerInv'
  BY <1>0, <1>1, <1>3 DEF ServerInv, Serving, Streaming, Ending, AllTold, ToldFits
<1>4. ASSUME NEW c, c \in {[is |-> "other"], Garbage, [is |-> "failed"]}, wire' = <<Data(c), Blank>>,
             c.is # "other" => broken', c.is = "failed" => mode = "responses"
      PROVE  IInv'
  <2>1. c \in Chunks /\ ~Piece(c) /\ c.is \in {"other", "garbage", "failed"}
    BY <1>4 DEF Chunks, Marks, Piece, Garbage
  <2>2. Balance(told', Ahead, c)
    <3>1. Balance(told, Ahead, c)
      BY <1>2, <2>1, MarkBalances
    <3> QED  BY <1>1, <3>1
  <2>3. ServerInv'
    <3>1. wire' # <<TooLong>>
      BY <1>4
    <3> QED  BY <1>3, <3>1
  <2> QED  BY <1>1, <1>4, <2>1, <2>2, <2>3, Underway
<1>5. ASSUME wire' \in {<<Comment>>, <<Blank>>, <<TooLong>>}, wire' = <<TooLong>> => broken'
      PROVE  IInv'
  <2>1. Coming(Nothing)'
    <3>1. InFlight(Nothing)'
      BY <1>2, <1>5 DEF InFlight
    <3>2. Balance(told', Ahead', Nothing)
      BY <1>1, <1>2
    <3>3. (Ending /\ ~broken) => (reader.finishSeen \/ reader.finished)
      BY <1>2, NothingIs DEF Coming
    <3>4. ~broken' => ~broken
      BY <1>1
    <3>5. Ending' = Ending /\ reader' = reader
      BY <1>1 DEF Ending, Serving
    <3> QED  BY <3>1, <3>2, <3>3, <3>4, <3>5, NothingIs DEF Coming
  <2> QED  BY <1>2, <1>3, <1>5, <2>1 DEF IInv
<1>6. CASE wire' \in {<<Comment>>, <<Blank>>}
  <2>1. <<Comment>> # <<TooLong>> /\ <<Blank>> # <<TooLong>>
    BY DEF Comment, Blank, TooLong
  <2> QED  BY <1>5, <1>6, <2>1
<1>7. CASE wire' = <<Data([is |-> "other"]), Blank>>
  BY <1>4, <1>7
<1>8. CASE broken' = TRUE
  <2>1. CASE wire' = <<TooLong>>
    BY <1>5, <1>8, <2>1
  <2>2. CASE wire' = <<Data(Garbage), Blank>>
    BY <1>4, <1>8, <2>2 DEF Garbage
  <2>3. CASE mode = "responses" /\ wire' = <<Data([is |-> "failed"]), Blank>>
    BY <1>4, <1>8, <2>3
  <2>4. CASE wire' \in {<<Comment>>, <<Blank>>, <<Data([is |-> "other"]), Blank>>}
    BY <1>6, <1>7, <2>4
  <2> QED  BY <2>1, <2>2, <2>3, <2>4 DEF SendOther
<1> QED  BY <1>6, <1>7, <1>8 DEF SendOther

LEMMA ServerKeeps ==
  ASSUME IInv, Server
  PROVE  IInv'
<1>1. Serving
  BY DEF Server, Serving, Streaming
<1>2. CASE stage = "body" /\ SendText
  BY <1>1, <1>2, SendTextKeeps
<1>3. CASE stage = "body" /\ \E i \in Indexes : SendCall(i) \/ SendArgs(i) \/ SendItem(i)
  BY <1>1, <1>3, SendCallKeeps, SendArgsKeeps, SendItemKeeps
<1>4. CASE SendEnd \/ SendOther
  BY <1>1, <1>4, SendEndKeeps, SendOtherKeeps
<1> QED  BY <1>2, <1>3, <1>4 DEF Server

LEMMA ServerClosesKeeps ==
  ASSUME IInv, ServerCloses
  PROVE  IInv'
<1>0. ServerInv /\ ReaderInv /\ QueueInv /\ ResultInv
  BY DEF IInv
<1>1. Streaming /\ Ending /\ stage # "request" /\ UNCHANGED <<mode, stage, broken, result, message, reader, queue, turn>>
  BY <1>0 DEF ServerCloses, Ending, ServerInv
<1>2. Ending' /\ Streaming'
  BY <1>1 DEF Ending, Streaming
<1>3. ReaderInv' /\ QueueInv' /\ ResultInv' /\ Ahead' = Ahead
  BY <1>0, <1>1, <1>2, Unread, ResultKept
<1>4. ServerInv'
  BY <1>0, <1>1, <1>2 DEF ServerInv, ServerCloses, AllTold, ToldFits, Streaming
<1>5. PICK c \in Chunks \cup {Nothing} : Coming(c)
  BY <1>1 DEF IInv
<1>6. InFlight(c)'
  BY <1>5 DEF Coming, InFlight, ServerCloses
<1>7. Balance(told', Ahead', c)
  <2>1. ~Lost(c)
    BY DEF Lost, ServerCloses
  <2> QED  BY <1>3, <1>5, <2>1 DEF Coming, ServerCloses
<1>8. Coming(c)'
  BY <1>1, <1>2, <1>5, <1>6, <1>7 DEF Coming, ServerCloses, Ending
<1> QED  BY <1>2, <1>3, <1>4, <1>5, <1>8 DEF IInv

(* Where a cut can leave the wire.                                         *)
LEMMA CutLines ==
  ASSUME NEW a, NEW b, NEW k \in Nat
  PROVE  /\ SubSeq(<<>>, 1, 0) = <<>>
         /\ k <= 1 => SubSeq(<<a>>, 1, k) \in {<<>>, <<a>>}
         /\ k <= 2 => SubSeq(<<a, b>>, 1, k) \in {<<>>, <<a>>, <<a, b>>}
         /\ <<>> \o <<a>> = <<a>>
<1>1. /\ SubSeq(<<a>>, 1, 0) = <<>> /\ SubSeq(<<a>>, 1, 1) = <<a>>
      /\ SubSeq(<<a, b>>, 1, 0) = <<>> /\ SubSeq(<<a, b>>, 1, 1) = <<a>>
      /\ SubSeq(<<a, b>>, 1, 2) = <<a, b>> /\ SubSeq(<<>>, 1, 0) = <<>>
  <2>1. \A s : SubSeq(s, 1, 0) = <<>>
    BY SubSeqEmpty
  <2>2. SubSeq(<<a>>, 1, 1) = <<a>>
    <3>1. <<a>> \in Seq({a}) /\ Len(<<a>>) = 1
      OBVIOUS
    <3> QED  BY <3>1, SubSeqFull
  <2>3. SubSeq(<<a, b>>, 1, 2) = <<a, b>>
    <3>1. <<a, b>> \in Seq({a, b}) /\ Len(<<a, b>>) = 2
      OBVIOUS
    <3> QED  BY <3>1, SubSeqFull
  <2>4. SubSeq(<<a, b>>, 1, 1) = <<a>>
    <3>1. 1 \in 1..2 /\ <<a, b>> \in Seq({a, b}) /\ Len(<<a, b>>) = 2 /\ <<a, b>>[1] = a
      OBVIOUS
    <3>2. SubSeq(<<a, b>>, 1, 1) = <<a>> \o SubSeq(<<a, b>>, 2, 1)
      BY <3>1, SubSeqRecursiveFirst
    <3>3. SubSeq(<<a, b>>, 2, 1) = <<>>
      BY SubSeqEmpty
    <3>4. <<a>> \in Seq({a})
      OBVIOUS
    <3> QED  BY <3>2, <3>3, <3>4, ConcatEmptySeq
  <2> QED  BY <2>1, <2>2, <2>3, <2>4
<1>2. k <= 1 => k \in {0, 1}
  OBVIOUS
<1>3. k <= 2 => k \in {0, 1, 2}
  OBVIOUS
<1>4. <<>> \o <<a>> = <<a>>
  <2>1. <<a>> \in Seq({a})
    OBVIOUS
  <2> QED  BY <2>1, ConcatEmptySeq
<1> QED  BY <1>1, <1>2, <1>3, <1>4

LEMMA CutKeeps ==
  ASSUME IInv, Cut
  PROVE  IInv'
<1>0. ServerInv /\ ReaderInv /\ QueueInv /\ ResultInv
  BY DEF IInv
<1>1. /\ Streaming /\ stage # "request" /\ end = "open" /\ end' \in {"eof", "error"} /\ broken' = TRUE
      /\ UNCHANGED <<mode, message, stage, told, whole, pending, reader, queue, turn, result>>
  BY DEF Cut, Streaming
<1>2. Streaming' /\ (Ending => Ending')
  BY <1>1 DEF Streaming, Ending
<1>3. ReaderInv' /\ QueueInv' /\ ResultInv' /\ Ahead' = Ahead
  BY <1>0, <1>1, <1>2, Unread, ResultKept
<1>4. ServerInv'
  BY <1>0, <1>1, <1>2 DEF ServerInv, AllTold, ToldFits, Streaming, Ending
<1>5. PICK c \in Chunks \cup {Nothing} : Coming(c)
  BY <1>1 DEF IInv
<1>6. /\ InFlight(c) /\ Balance(told, Ahead, c) /\ (stage # "body" => ~Piece(c))
      /\ c.is \in {"finish", "done"} => Ending
      /\ c.is \in {"failed", "item"} => mode = "responses"
      /\ c.is = "done" => mode = "chat"
      /\ (c.is = "call" /\ mode = "responses") => c.arg = 0
  BY <1>1, <1>5 DEF Coming, Lost
<1>7. PICK k \in 0..Len(wire) :
        \/ wire' = SubSeq(wire, 1, k)
        \/ /\ k < Len(wire) /\ wire[k + 1].line = "data" /\ end' = "eof"
           /\ wire' = SubSeq(wire, 1, k) \o <<Data(Garbage)>>
  BY DEF Cut
<1>8. ASSUME InFlight(c)'
      PROVE  IInv'
  <2>1. Balance(told', Ahead', c)
    BY <1>1, <1>3, <1>6
  <2>2. Coming(c)'
    BY <1>1, <1>2, <1>6, <1>8, <2>1 DEF Coming
  <2> QED  BY <1>2, <1>3, <1>4, <1>5, <2>2 DEF IInv
<1>9. ASSUME NEW d \in Chunks \cup {Nothing}, ~Piece(d), d.is \in {"nothing", "garbage"}, InFlight(d)'
      PROVE  IInv'
  <2>1. Lost(d)' \/ Balance(told', Ahead', d)
    <3>1. CASE stage = "body"
      BY <1>1, <1>9, <3>1 DEF Lost
    <3>2. CASE stage # "body"
      <4>1. Balance(told, Ahead, d)
        BY <1>6, <1>9, <3>2, MarkBalances
      <4> QED  BY <1>1, <1>3, <4>1
    <3> QED  BY <3>1, <3>2
  <2>2. Coming(d)'
    BY <1>1, <1>9, <2>1 DEF Coming
  <2> QED  BY <1>2, <1>3, <1>4, <1>9, <2>2 DEF IInv
<1>10. ASSUME pending = <<>>, wire' = <<>>
       PROVE  IInv'
  <2>1. InFlight(Nothing)'
    BY <1>1, <1>10 DEF InFlight
  <2> QED  BY <1>9, <2>1, NothingIs
<1>11. ASSUME pending = <<>>, wire' = <<Data(Garbage)>>
       PROVE  IInv'
  <2>1. Garbage \in Chunks /\ ~Piece(Garbage) /\ Garbage.is = "garbage"
    BY DEF Garbage, Chunks, Marks, Piece
  <2>2. InFlight(Garbage)'
    BY <1>1, <1>11, <2>1 DEF InFlight
  <2> QED  BY <1>9, <2>1, <2>2
<1>12. k \in Nat
  <2>1. Len(wire) \in Nat
    BY <1>6 DEF InFlight
  <2> QED  BY <2>1
<1>13. CASE c = Nothing /\ pending = <<>> /\ wire \in {<<>>, <<Comment>>, <<Blank>>, <<TooLong>>}
  <2>1. CASE wire = <<>>
    <3>1. k = 0 /\ Len(wire) = 0
      BY <2>1
    <3>2. wire' = <<>>
      BY <1>7, <2>1, <3>1, CutLines
    <3> QED  BY <1>10, <1>13, <3>2
  <2>2. ASSUME NEW l, wire = <<l>>, l.line # "data", l \in {Comment, Blank, TooLong}
        PROVE  IInv'
    <3>1. k <= 1 /\ (k < 1 => k = 0) /\ Len(wire) = 1 /\ wire[1] = l
      BY <1>12, <2>2
    <3>2. wire' = SubSeq(wire, 1, k)
      BY <1>7, <2>2, <3>1
    <3>3. wire' \in {<<>>, <<l>>}
      BY <1>12, <2>2, <3>1, <3>2, CutLines
    <3>4. InFlight(Nothing)'
      BY <1>1, <1>13, <2>2, <3>3 DEF InFlight
    <3> QED  BY <1>9, <3>4, NothingIs
  <2>3. Comment.line # "data" /\ Blank.line # "data" /\ TooLong.line # "data"
    BY DEF Comment, Blank, TooLong
  <2> QED  BY <1>13, <2>1, <2>2, <2>3
<1>14. CASE c \in Chunks /\ pending = <<>> /\ wire = <<Data(c), Blank>>
  <2>1. Len(wire) = 2 /\ wire[2] = Blank /\ Blank.line # "data"
    BY <1>14 DEF Blank
  <2>2. k <= 2 /\ (k < 2 => k \in {0, 1})
    BY <1>12, <2>1
  <2>3. CASE wire' = SubSeq(wire, 1, k)
    <3>1. wire' \in {<<>>, <<Data(c)>>, <<Data(c), Blank>>}
      BY <1>12, <1>14, <2>2, <2>3, CutLines
    <3>2. CASE wire' = <<>>
      BY <1>10, <1>14, <3>2
    <3>3. CASE wire' # <<>>
      BY <1>1, <1>8, <1>14, <3>1, <3>3 DEF InFlight
    <3> QED  BY <3>2, <3>3
  <2>4. CASE /\ k < Len(wire) /\ wire[k + 1].line = "data" /\ end' = "eof"
             /\ wire' = SubSeq(wire, 1, k) \o <<Data(Garbage)>>
    <3>1. k = 0
      BY <2>1, <2>2, <2>4
    <3>2. SubSeq(wire, 1, 0) = <<>>
      BY <1>14, CutLines
    <3>3. wire' = <<Data(Garbage)>>
      BY <2>4, <3>1, <3>2, CutLines
    <3> QED  BY <1>11, <1>14, <3>3
  <2> QED  BY <1>7, <2>3, <2>4
<1>15. CASE c \in Chunks /\ pending = <<c>> /\ wire = <<Blank>>
  <2>1. Len(wire) = 1 /\ wire[1] = Blank /\ Blank.line # "data"
    BY <1>15 DEF Blank
  <2>2. k <= 1 /\ (k < 1 => k = 0)
    BY <1>12, <2>1
  <2>6. k < Len(wire) => wire[k + 1].line # "data"
    <3>1. k < 1 => k + 1 = 1
      BY <2>2
    <3> QED  BY <2>1, <3>1
  <2>3. wire' = SubSeq(wire, 1, k)
    BY <1>7, <2>6
  <2>4. wire' \in {<<>>, <<Blank>>}
    BY <1>12, <1>15, <2>2, <2>3, CutLines
  <2>5. InFlight(c)'
    BY <1>1, <1>15, <2>4 DEF InFlight
  <2> QED  BY <1>8, <2>5
<1> QED  BY <1>1, <1>6, <1>13, <1>14, <1>15 DEF InFlight

LEMMA AbortKeeps ==
  ASSUME IInv, Abort
  PROVE  IInv'
<1>0. ServerInv /\ ReaderInv /\ QueueInv /\ ResultInv
  BY DEF IInv
<1>1. UNCHANGED <<mode, message, stage, told, whole, wire, end, broken, pending, reader, queue, turn>>
  BY DEF Abort, server
<1>2. Ending' = Ending /\ Streaming' = Streaming
  BY <1>1 DEF Ending, Streaming
<1>3. ReaderInv' /\ QueueInv' /\ Ahead' = Ahead
  BY <1>0, <1>1, <1>2, Unread
<1>4. ServerInv'
  BY <1>0, <1>1, <1>2 DEF ServerInv, AllTold, ToldFits
<1>5. ResultInv'
  BY <1>0, <1>1, <1>3 DEF ResultInv, Abort, turn
<1>6. \A c \in Chunks \cup {Nothing} : Coming(c) => Coming(c)'
  BY <1>1, <1>2, <1>3 DEF Coming, InFlight, Lost
<1> QED  BY <1>2, <1>3, <1>4, <1>5, <1>6 DEF IInv

-----------------------------------------------------------------------------
(* The decoder.                                                            *)

(* A step of the decoder: what it leaves alone.                            *)
Decoding ==
  /\ Reading /\ Streaming /\ wire' # <<TooLong>>
  /\ UNCHANGED <<mode, message, stage, told, whole, end, broken, turn, result>>

LEMMA DecodingKeeps ==
  ASSUME IInv, Decoding
  PROVE  /\ ServerInv' /\ Streaming' /\ Ending' = Ending /\ So' = So
         /\ ServerInv /\ ReaderInv /\ QueueInv /\ ResultInv
         /\ reader \in Readers /\ queue = <<>> /\ ~reader.err /\ ~reader.finished
         /\ finishes = 0 /\ finishes' = 0 /\ stage # "request" /\ Fits(message, So) /\ Ahead = So
<1>0. ServerInv /\ ReaderInv /\ QueueInv /\ ResultInv
  BY DEF IInv
<1>1. queue = <<>> /\ ~reader.err /\ ~reader.finished /\ stage # "request" /\ reader \in Readers
  BY <1>0 DEF Decoding, Reading, ReaderInv
<1>2. Streaming' /\ Ending' = Ending /\ So' = So
  BY DEF Decoding, Streaming, Ending, So, turn
<1>3. ServerInv'
  BY <1>0, <1>2 DEF ServerInv, Decoding, AllTold, ToldFits
<1>4. finishes = 0 /\ finishes' = 0
  BY <1>0, <1>1 DEF QueueInv, Decoding, turn
<1>5. Fits(message, So) /\ Ahead = So
  <2>1. After(So, <<>>) = So
    BY ShortAfter
  <2> QED  BY <1>0, <1>1, <2>1 DEF QueueInv, FitsAll, Ahead
<1> QED  BY <1>0, <1>1, <1>2, <1>3, <1>4, <1>5

LEMMA RunningOn ==
  ASSUME IInv, Decoding
  PROVE  ResultInv'
<1>1. result = "running" /\ stage # "request" /\ mode # "replay" /\ ResultInv
  BY DEF Decoding, Reading, Streaming, IInv
<1> QED  BY <1>1 DEF ResultInv, Decoding

LEMMA LineTaken ==
  ASSUME IInv, Decoding, UNCHANGED <<reader, queue>>,
         NEW c \in Chunks \cup {Nothing}, Coming(c), InFlight(c)'
  PROVE  IInv'
<1>0. /\ ServerInv' /\ Streaming' /\ Ending' = Ending /\ ReaderInv /\ QueueInv
  BY DecodingKeeps
<1>1. UNCHANGED <<mode, message, reader, queue, turn>> /\ broken' = broken
  BY DEF Decoding
<1>2. ReaderInv' /\ QueueInv' /\ Ahead' = Ahead
  BY <1>0, <1>1, Unread
<1>3. Lost(c)' \/ Balance(told', Ahead', c)
  BY <1>2 DEF Coming, Lost, Decoding
<1>4. Coming(c)'
  BY <1>0, <1>3 DEF Coming, Decoding
<1> QED  BY <1>0, <1>2, <1>4, RunningOn DEF IInv

LEMMA DecoderFails ==
  ASSUME IInv, Decoding, Fails, broken = TRUE,
         NEW c \in Chunks \cup {Nothing}, Coming(c), InFlight(c)'
  PROVE  IInv'
<1>0. /\ ServerInv' /\ Streaming' /\ Ending' = Ending /\ So' = So /\ ReaderInv /\ QueueInv
      /\ reader \in Readers /\ queue = <<>> /\ ~reader.err /\ ~reader.finished
  BY DecodingKeeps
<1>1. /\ reader' \in Readers /\ reader'.finished = reader.finished /\ reader'.finishSeen = reader.finishSeen
      /\ reader'.calls = reader.calls /\ reader'.emitted = reader.emitted /\ reader'.argsSeen = reader.argsSeen
      /\ queue' = queue
  BY <1>0 DEF Fails, Readers
<1>2. Ahead' = Ahead
  BY <1>0, <1>1 DEF Ahead
<1>3. QueueInv'
  BY <1>0, <1>1 DEF QueueInv, Decoding, turn
<1>4. ReaderInv'
  <2>1. mode' = "responses" => Known(reader', Ahead'.calls)
    BY <1>0, <1>1, <1>2 DEF ReaderInv, Known, Decoding
  <2>2. broken' = TRUE /\ mode' = mode
    BY DEF Decoding
  <2>3. ~reader'.finished /\ (reader'.finishSeen => reader.finishSeen)
    BY <1>0, <1>1
  <2>4. (reader'.finished \/ reader'.finishSeen) => Ending'
    BY <1>0, <2>3 DEF ReaderInv, Decoding
  <2>5. reader' \in Readers /\ Streaming'
    BY <1>0, <1>1
  <2> QED  BY <2>1, <2>2, <2>3, <2>4, <2>5 DEF ReaderInv
<1>5. Lost(c)' \/ Balance(told', Ahead', c)
  BY <1>2 DEF Coming, Lost, Decoding
<1>6. Coming(c)'
  BY <1>0, <1>5 DEF Coming, Decoding
<1> QED  BY <1>0, <1>3, <1>4, <1>6, RunningOn DEF IInv

LEMMA ChunkRead ==
  ASSUME IInv, Decoding, NEW c \in Chunks \cup {Nothing}, Coming(c), Read(c),
         pending' = <<>>, wire' = <<>>
  PROVE  IInv'
<1>0. /\ ServerInv' /\ Streaming' /\ Ending' = Ending /\ So' = So /\ ReaderInv /\ QueueInv
      /\ reader \in Readers /\ queue = <<>> /\ ~reader.err /\ ~reader.finished
      /\ finishes = 0 /\ finishes' = 0
  BY DecodingKeeps
<1>1. Ahead' = After(So, queue')
  BY <1>0 DEF Ahead
<1>2. QueueInv'
  <2>1. Flows(queue', reader'.finished) /\ (reader'.finished => queue' # <<>>) /\ FitsAll(message', So', queue')
    BY <1>0 DEF Read, Decoding
  <2>2. queue' # <<>> => Len(queue') \in DOMAIN queue'
    <3>1. queue' \in Seq(Events)
      BY <2>1 DEF Flows
    <3> QED  BY <3>1, FirstAndRest, LenProperties
  <2>3. reader'.finished <=> queue' # <<>> /\ queue'[Len(queue')] = Finish
    BY <2>1, <2>2 DEF Flows
  <2> QED  BY <1>0, <2>1, <2>3 DEF QueueInv
<1>3. (reader'.finished \/ reader'.finishSeen) => Ending
  <2>1. reader.finishSeen => Ending
    BY <1>0 DEF ReaderInv, Decoding
  <2> QED  BY <2>1 DEF Read, Coming
<1>4. ReaderInv'
  <2>1. reader' \in Readers /\ (mode' = "responses" => Known(reader', Ahead'.calls))
    BY <1>1 DEF Read, Decoding
  <2>2. reader'.err => broken' /\ ~reader'.finished
    BY DEF Read, Coming, Decoding
  <2>3. mode' # "plain"
    BY <1>0 DEF Streaming
  <2> QED  BY <1>0, <1>3, <2>1, <2>2, <2>3 DEF ReaderInv
<1>5. Coming(Nothing)'
  <2>1. InFlight(Nothing)'
    BY DEF InFlight
  <2>2. Lost(Nothing)' \/ Balance(told', Ahead', Nothing)
    BY <1>1, NothingIs DEF Read, Lost, Decoding
  <2>3. (Ending' /\ ~broken') => (reader'.finishSeen \/ reader'.finished)
    BY <1>0 DEF Coming, Read, Decoding
  <2> QED  BY <2>1, <2>2, <2>3, NothingIs DEF Coming
<1> QED  BY <1>0, <1>2, <1>4, <1>5, RunningOn DEF IInv

LEMMA Dispatches ==
  ASSUME IInv, Decoding, NEW c \in Chunks, Coming(c), Handle(c), pending' = <<>>, wire' = <<>>
  PROVE  IInv'
<1>1. Read(c)
  BY HandleReads DEF IInv, Decoding
<1> QED  BY <1>1, ChunkRead

LEMMA DecodeLineKeeps ==
  ASSUME IInv, DecodeLine
  PROVE  IInv'
<1>0. ServerInv /\ Streaming
  BY DEF IInv, ServerInv, DecodeLine
<1>1. PICK c \in Chunks \cup {Nothing} : Coming(c)
  BY <1>0 DEF IInv
<1>2. InFlight(c)
  BY <1>1 DEF Coming
<1>3. ASSUME wire' # <<TooLong>>
      PROVE  Decoding
  BY <1>0, <1>3 DEF Decoding, DecodeLine
<1>4. <<Blank>> # <<TooLong>> /\ <<>> # <<TooLong>>
  BY DEF Blank, TooLong
<1>5. CASE c = Nothing /\ pending = <<>> /\ wire \in {<<>>, <<Comment>>, <<Blank>>, <<TooLong>>}
  <2>1. PICK l \in {Comment, Blank, TooLong} : wire = <<l>>
    BY <1>5 DEF DecodeLine
  <2>2. Head(wire) = l /\ wire' = <<>>
    BY <2>1 DEF DecodeLine
  <2>3. Decoding
    BY <1>3, <1>4, <2>2
  <2>4. CASE l \in {Comment, Blank}
    <3>1. UNCHANGED <<pending, reader, queue>>
      BY <1>5, <2>2, <2>4 DEF DecodeLine, Comment, Blank
    <3>2. InFlight(c)'
      BY <1>5, <2>2, <3>1 DEF InFlight
    <3> QED  BY <1>1, <2>3, <3>1, <3>2, LineTaken
  <2>5. CASE l = TooLong
    <3>1. Fails /\ UNCHANGED pending
      BY <2>2, <2>5 DEF DecodeLine, TooLong
    <3>2. InFlight(c)'
      BY <1>5, <2>2, <3>1 DEF InFlight
    <3>3. broken = TRUE
      BY <1>0, <2>1, <2>5 DEF ServerInv
    <3> QED  BY <1>1, <2>3, <3>1, <3>2, <3>3, DecoderFails
  <2> QED  BY <2>4, <2>5
<1>6. CASE /\ c \in Chunks /\ pending = <<>>
           /\ wire = <<Data(c), Blank>> \/ (wire = <<Data(c)>> /\ end # "open")
  <2>1. Head(wire) = Data(c) /\ wire' = Tail(wire)
    BY <1>6 DEF DecodeLine
  <2>2. Data(c).line = "data" /\ Data(c).chunk = c
    BY DEF Data
  <2>3. pending' = Append(<<>>, c) /\ UNCHANGED <<reader, queue>>
    BY <1>6, <2>1, <2>2 DEF DecodeLine
  <2>4. pending' = <<c>>
    BY <2>3
  <2>5. wire' = <<Blank>> \/ (wire' = <<>> /\ end # "open")
    <3> DEFINE d == Data(c)
    <3>1. wire' = Tail(wire) /\ (wire = <<d, Blank>> \/ (wire = <<d>> /\ end # "open"))
      BY <1>6, <2>1
    <3> HIDE DEF d
    <3>2. Tail(<<d, Blank>>) = <<Blank>> /\ Tail(<<d>>) = <<>>
      OBVIOUS
    <3> QED  BY <3>1, <3>2
  <2>6. Decoding
    BY <1>3, <1>4, <2>5
  <2>7. InFlight(c)'
    BY <1>6, <2>4, <2>5, <2>6 DEF InFlight, Decoding
  <2> QED  BY <1>1, <2>3, <2>6, <2>7, LineTaken
<1>7. CASE c \in Chunks /\ pending = <<c>> /\ wire = <<Blank>>
  <2>1. Head(wire) = Blank /\ wire' = <<>> /\ Blank.line = "blank"
    BY <1>7 DEF DecodeLine, Blank
  <2>2. pending # <<>> /\ pending[1] = c
    BY <1>7
  <2>3. pending' = <<>> /\ Handle(c)
    BY <2>1, <2>2 DEF DecodeLine
  <2>4. Decoding
    BY <1>3, <1>4, <2>1
  <2> QED  BY <1>1, <1>7, <2>1, <2>3, <2>4, Dispatches
<1> QED  BY <1>2, <1>5, <1>6, <1>7 DEF InFlight, DecodeLine

LEMMA DecodeEndKeeps ==
  ASSUME IInv, DecodeEnd
  PROVE  IInv'
<1>0. ServerInv /\ Streaming
  BY DEF IInv, ServerInv, DecodeEnd
<1>1. PICK c \in Chunks \cup {Nothing} : Coming(c)
  BY <1>0 DEF IInv
<1>2. InFlight(c) /\ wire = <<>> /\ end # "open"
  BY <1>1 DEF Coming, DecodeEnd
<1>3. wire' = <<>> /\ end' = end /\ <<>> # <<TooLong>>
  BY <1>2 DEF DecodeEnd, server
<1>4. Decoding
  BY <1>0, <1>3 DEF Decoding, DecodeEnd, server
<1>5. CASE end = "error" /\ Fails /\ UNCHANGED pending
  <2>1. broken = TRUE
    BY <1>0, <1>5 DEF ServerInv
  <2>2. InFlight(c)'
    BY <1>2, <1>3, <1>5 DEF InFlight
  <2> QED  BY <1>1, <1>4, <1>5, <2>1, <2>2, DecoderFails
<1>6. CASE end = "eof" /\ pending # <<>> /\ pending' = <<>> /\ Handle(pending[1])
  <2>1. pending = <<c>> /\ c \in Chunks
    BY <1>2, <1>6 DEF InFlight
  <2>2. Handle(c)
    BY <1>6, <2>1
  <2> QED  BY <1>1, <1>3, <1>4, <1>6, <2>1, <2>2, Dispatches
<1>7. CASE end = "eof" /\ pending = <<>> /\ (IF reader.finishSeen THEN emitFinish ELSE Fails) /\ UNCHANGED pending
  <2>1. Coming(Nothing)
    BY <1>0, <1>2, <1>7, NothingInFlight
  <2>2. CASE reader.finishSeen
    <3>0. reader \in Readers /\ queue = <<>> /\ ~reader.err /\ Fits(message, So) /\ Ahead = So /\ ReaderInv
      BY <1>4, DecodingKeeps
    <3>1. queue' = <<Finish>>
      <4>1. <<>> \o <<Finish>> = <<Finish>>
        BY EventTypes, OntoEmpty
      <4> QED  BY <1>7, <2>2, <3>0, <4>1 DEF emitFinish, Emit
    <3>2. reader' \in Readers /\ reader'.finished /\ ~reader'.err
            /\ (mode = "responses" => Known(reader', So.calls))
      BY <1>7, <2>2, <3>0 DEF emitFinish, Readers, ReaderInv, Known
    <3>3. Lost(Nothing) \/ Balance(told, So, Nothing)
      BY <2>1, <3>0 DEF Coming
    <3>4. Read(Nothing)
      BY <2>2, <3>0, <3>1, <3>2, <3>3, NothingIs, MarkRead
    <3> QED  BY <1>3, <1>4, <1>7, <2>1, <3>4, ChunkRead
  <2>3. CASE ~reader.finishSeen
    <3>1. broken = TRUE
      <4>1. ~reader.finished
        BY DEF DecodeEnd, Reading
      <4>2. Ending => broken
        BY <2>1, <2>3, <4>1, NothingIs DEF Coming
      <4> QED  BY <1>0, <1>7, <4>2 DEF ServerInv
    <3>2. InFlight(Nothing)'
      BY <1>3, <1>7 DEF InFlight
    <3> QED  BY <1>4, <1>7, <2>1, <2>3, <3>1, <3>2, DecoderFails
  <2> QED  BY <2>2, <2>3
<1> QED  BY <1>5, <1>6, <1>7 DEF DecodeEnd

-----------------------------------------------------------------------------
(* The turn, the request and the invariant.                                *)

(* Receiving the first event leaves the rest of the queue.                 *)
LEMMA RestFlows ==
  ASSUME NEW q, NEW finished \in BOOLEAN, Flows(q, finished), q # <<>>, NEW rest, rest = Tail(q)
  PROVE  /\ Flows(rest, finished) /\ q \in Seq(Events) /\ Len(q) <= 2 /\ q[1] \in Events /\ Head(q) = q[1]
         /\ q[1] = Finish => rest = <<>> /\ finished
         /\ q[1] # Finish => (finished <=> rest # <<>> /\ rest[Len(rest)] = Finish)
<1>1. /\ q \in Seq(Events) /\ Len(q) <= 2
      /\ \A k \in DOMAIN q : q[k] = Finish <=> finished /\ k = Len(q)
  BY DEF Flows
<1>2. /\ Head(q) = q[1] /\ rest \in Seq(Events) /\ Len(rest) = Len(q) - 1
      /\ q[1] \in Events /\ Len(q) \in Nat /\ Len(q) >= 1
      /\ rest = <<>> <=> Len(q) = 1
      /\ \A k \in DOMAIN rest : k + 1 \in DOMAIN q /\ rest[k] = q[k + 1]
  BY <1>1, FirstAndRest
<1>3. DOMAIN rest = 1..Len(rest) /\ DOMAIN q = 1..Len(q)
  BY <1>1, <1>2, LenProperties
<1>4. Len(rest) \in Nat /\ Len(rest) <= 2 /\ 1 \in DOMAIN q
  BY <1>1, <1>2, <1>3
<1>5. \A k \in DOMAIN rest : rest[k] = Finish <=> finished /\ k = Len(rest)
  <2> TAKE k \in DOMAIN rest
  <2>1. rest[k] = Finish <=> finished /\ k + 1 = Len(q)
    BY <1>1, <1>2
  <2>2. k \in Nat /\ (k + 1 = Len(q) <=> k = Len(rest))
    BY <1>2, <1>3
  <2> QED  BY <2>1, <2>2
<1>6. Flows(rest, finished)
  BY <1>2, <1>4, <1>5 DEF Flows
<1>7. q[1] = Finish <=> finished /\ Len(q) = 1
  BY <1>1, <1>4
<1>8. rest # <<>> => Len(rest) \in DOMAIN rest
  BY <1>2, <1>3, <1>4
<1>9. q[1] # Finish => (finished <=> rest # <<>> /\ rest[Len(rest)] = Finish)
  BY <1>2, <1>5, <1>7, <1>8
<1> QED  BY <1>1, <1>2, <1>6, <1>7, <1>9

LEMMA ReceiveKeeps ==
  ASSUME IInv, Receive
  PROVE  IInv'
<1>0. ServerInv /\ ReaderInv /\ QueueInv /\ ResultInv
  BY DEF IInv
<1>1. /\ UNCHANGED <<mode, message, stage, told, whole, wire, end, broken, pending, reader, result>>
      /\ queue # <<>> /\ queue' = Tail(queue) /\ result = "running"
  BY DEF Receive, server
<1>2. /\ Flows(queue, reader.finished) /\ reader.finished \in BOOLEAN /\ finishes = 0
      /\ FitsAll(message, So, queue)
  BY <1>0, <1>1 DEF QueueInv, ReaderInv, Readers
<1>3. /\ Flows(queue', reader.finished) /\ queue \in Seq(Events) /\ Len(queue) <= 2
      /\ Head(queue) \in Events
      /\ Head(queue) = Finish => queue' = <<>> /\ reader.finished
      /\ Head(queue) # Finish =>
           (reader.finished <=> queue' # <<>> /\ queue'[Len(queue')] = Finish)
  BY <1>1, <1>2, RestFlows
<1>4. /\ Head(queue) = Finish <=> Head(queue).type = "finish"
      /\ Head(queue).type \in {"text", "call", "finish"}
  <2>1. CASE Head(queue) \in [type : {"text"}, text : Seq(Nat)]
    BY <2>1 DEF Finish
  <2>2. CASE Head(queue) \in [type : {"finish"}]
    BY <2>2 DEF Finish
  <2>3. CASE Head(queue) \in [type : {"call"}, index : Indexes, named : BOOLEAN, args : Seq(Nat)]
    BY <2>3 DEF Finish
  <2> QED  BY <1>3, <2>1, <2>2, <2>3 DEF Events
<1>5. So' = With(So, Head(queue))
  <2>1. CASE Head(queue).type = "text"
    BY <2>1 DEF Receive, So, With
  <2>2. CASE Head(queue).type = "call"
    BY <2>2 DEF Receive, So, With
  <2>3. CASE Head(queue).type = "finish"
    BY <2>3 DEF Receive, So, With
  <2> QED  BY <1>4, <2>1, <2>2, <2>3
<1>6. finishes' = IF Head(queue) = Finish THEN 1 ELSE 0
  BY <1>2, <1>4 DEF Receive
<1>7. Ahead' = Ahead /\ FitsAll(message, So', queue')
  <2> DEFINE m == So
             q == queue
             e == Head(q)
  <2>1. q \in Seq(Events) /\ q # <<>> /\ Len(q) <= 2
    BY <1>1, <1>3
  <2>2. FitsAll(message, m, q)
    BY <1>2
  <2> HIDE DEF m, q
  <2>3. After(With(m, Head(q)), Tail(q)) = After(m, q) /\ FitsAll(message, With(m, Head(q)), Tail(q))
    BY <2>1, <2>2, ReceivedFirst
  <2> QED  BY <1>1, <1>5, <2>3 DEF m, q, Ahead
<1>8. Streaming' = Streaming /\ Ending' = Ending
  BY <1>1 DEF Streaming, Ending
<1>9. ServerInv'
  BY <1>0, <1>1, <1>8 DEF ServerInv, AllTold, ToldFits
<1>10. ReaderInv'
  BY <1>0, <1>1, <1>7, <1>8 DEF ReaderInv
<1>11. QueueInv'
  <2>1. reader'.finished <=> (finishes' = 1 \/ (queue' # <<>> /\ queue'[Len(queue')] = Finish))
    BY <1>1, <1>3, <1>6
  <2> QED  BY <1>1, <1>3, <1>6, <1>7, <2>1 DEF QueueInv
<1>12. ResultInv'
  <2>1. stage # "request"
    BY <1>0, <1>1 DEF ResultInv
  <2> QED  BY <1>0, <1>1, <1>7, <2>1 DEF ResultInv
<1>13. \A c \in Chunks \cup {Nothing} : Coming(c) => Coming(c)'
  BY <1>1, <1>7, <1>8 DEF Coming, InFlight, Lost
<1> QED  BY <1>8, <1>9, <1>10, <1>11, <1>12, <1>13 DEF IInv

LEMMA FinishedKeeps ==
  ASSUME IInv, Finished
  PROVE  IInv'
<1>0. ServerInv /\ ReaderInv /\ QueueInv /\ ResultInv
  BY DEF IInv
<1>1. UNCHANGED <<mode, message, stage, told, whole, wire, end, broken, pending, reader, queue, turn>>
  BY DEF Finished, server
<1>2. Ending' = Ending /\ Streaming' = Streaming
  BY <1>1 DEF Ending, Streaming
<1>3. ReaderInv' /\ QueueInv' /\ Ahead' = Ahead
  BY <1>0, <1>1, <1>2, Unread
<1>4. ServerInv'
  BY <1>0, <1>1, <1>2 DEF ServerInv, AllTold, ToldFits
<1>5. ResultInv'
  <2>1. stage # "request"
    BY <1>0 DEF ResultInv, Finished
  <2>2. CASE reader.err
    <3>1. result' = "failed" /\ broken
      BY <1>0, <2>2 DEF Finished, ReaderInv
    <3> QED  BY <1>0, <1>1, <1>3, <2>1, <3>1 DEF ResultInv
  <2>3. CASE ~reader.err
    <3>1. result' = "ok" /\ reader.finished /\ queue = <<>> /\ mode # "plain"
      BY <1>0, <2>3 DEF Finished, ReaderInv
    <3> QED  BY <1>0, <1>1, <1>3, <2>1, <3>1 DEF ResultInv
  <2> QED  BY <2>2, <2>3
<1>6. \A c \in Chunks \cup {Nothing} : Coming(c) => Coming(c)'
  BY <1>1, <1>2, <1>3 DEF Coming, InFlight, Lost
<1> QED  BY <1>2, <1>3, <1>4, <1>5, <1>6 DEF IInv

(* Of a request, whatever answers it.                                      *)
LEMMA RequestSends ==
  ASSUME IInv, Request
  PROVE  /\ ServerInv /\ ReaderInv /\ QueueInv /\ ResultInv
         /\ UNCHANGED <<mode, message, told, whole, wire, end, pending, finishes>>
         /\ stage' = "body" /\ wire = <<>> /\ pending = <<>> /\ queue = <<>> /\ text = <<>>
         /\ finishes = 0 /\ ~reader.finished /\ ~reader.err /\ end = "open"
         /\ Fits(message, So) /\ Ahead = So /\ ~Ending /\ ~Ending' /\ Streaming' = Streaming
         /\ broken' \in {broken, TRUE} => ServerInv'
<1>0. ServerInv /\ ReaderInv /\ QueueInv /\ ResultInv
  BY DEF IInv
<1>1. UNCHANGED <<mode, message, told, whole, wire, end, pending, finishes>> /\ stage' = "body" /\ stage = "request"
  BY DEF Request
<1>2. /\ wire = <<>> /\ pending = <<>> /\ queue = <<>> /\ text = <<>>
      /\ finishes = 0 /\ ~reader.finished /\ ~reader.err /\ end = "open"
  BY <1>0, <1>1 DEF ResultInv, ServerInv
<1>3. Fits(message, So) /\ Ahead = So
  <2>1. After(So, <<>>) = So
    BY ShortAfter
  <2> QED  BY <1>0, <1>2, <2>1 DEF QueueInv, FitsAll, Ahead
<1>4. ~Ending /\ ~Ending' /\ Streaming' = Streaming
  BY <1>1 DEF Ending, Streaming
<1>5. broken' \in {broken, TRUE} => ServerInv'
  <2>1. wire # <<TooLong>>
    BY <1>2
  <2> QED  BY <1>0, <1>1, <1>2, <1>4, <2>1 DEF ServerInv, ToldFits
<1> QED  BY <1>0, <1>1, <1>2, <1>3, <1>4, <1>5

(* The reader and the turn of a request that is refused or streamed stay.  *)
LEMMA Unanswered ==
  ASSUME IInv, Request, UNCHANGED <<queue, reader, text, byIndex>>, broken' \in {broken, TRUE},
         \/ UNCHANGED result
         \/ broken' = TRUE /\ result' = "failed"
  PROVE  IInv'
<1>1. /\ ReaderInv /\ QueueInv /\ ResultInv
      /\ UNCHANGED <<mode, message, told, whole, wire, end, pending, finishes>>
      /\ stage' = "body" /\ wire = <<>> /\ pending = <<>> /\ end = "open" /\ ~reader.finished
      /\ ~Ending /\ ~Ending' /\ Streaming' = Streaming /\ ServerInv'
  BY RequestSends
<1>2. ReaderInv' /\ QueueInv' /\ Ahead' = Ahead
  <2>1. UNCHANGED <<mode, message, reader, queue, turn>> /\ (Ending => Ending') /\ (broken => broken')
    <3>1. broken => broken'
      OBVIOUS
    <3>2. UNCHANGED <<mode, message, reader, queue, turn>>
      BY <1>1 DEF turn
    <3> QED  BY <1>1, <3>1, <3>2
  <2> QED  BY <1>1, <2>1, Unread
<1>3. ResultInv'
  <2>1. /\ result' \in {"running", "failed"}
        /\ result' = "failed" => broken'
    BY <1>1 DEF ResultInv, Request
  <2>2. stage' # "request" /\ ~reader'.finished
    BY <1>1
  <2> QED  BY <2>1, <2>2 DEF ResultInv
<1>4. ASSUME Streaming
      PROVE  Coming(Nothing)'
  <2>1. Coming(Nothing)
    BY <1>1, <1>4, NothingInFlight
  <2>2. Balance(told, Ahead, Nothing)
    BY <1>1, <2>1 DEF Coming, Lost
  <2>3. InFlight(Nothing)'
    BY <1>1 DEF InFlight
  <2> QED  BY <1>1, <1>2, <2>2, <2>3, NothingIs DEF Coming
<1> QED  BY <1>1, <1>2, <1>3, <1>4 DEF IInv

(* All of a message is one of its beginnings.                              *)
LEMMA WholeFits ==
  ASSUME message \in Messages, NEW m,
         m = [text |-> UpTo(message.text),
              calls |-> [i \in DOMAIN message.args |-> [named |-> TRUE, args |-> UpTo(message.args[i])]]]
  PROVE  Fits(message, m)
<1>1. message.text \in Nat /\ \A i \in DOMAIN message.args : message.args[i] \in Nat
  BY MessageType
<1>2. m.text = UpTo(message.text) /\ Len(m.text) = message.text
  BY <1>1, UpToFacts
<1>3. DOMAIN m.calls = DOMAIN message.args /\ m.calls = [i \in DOMAIN m.calls |-> m.calls[i]]
  OBVIOUS
<1>4. \A i \in DOMAIN m.calls : FitsCall(m.calls[i], message.args[i])
  <2> TAKE i \in DOMAIN m.calls
  <2>1. m.calls[i] = [named |-> TRUE, args |-> UpTo(message.args[i])] /\ message.args[i] \in Nat
    BY <1>1, <1>3
  <2>2. Len(UpTo(message.args[i])) = message.args[i]
    BY <2>1, UpToFacts
  <2>3. m.calls[i].args = UpTo(message.args[i]) /\ message.args[i] \in 0..message.args[i]
    BY <2>1
  <2> QED  BY <2>1, <2>2, <2>3 DEF FitsCall
<1>5. message.text \in 0..message.text
  BY <1>1
<1> HIDE DEF UpTo
<1> QED  BY <1>2, <1>3, <1>4, <1>5 DEF Fits

LEMMA AnsweredKeeps ==
  ASSUME IInv, Request, Answered
  PROVE  IInv'
<1>1. /\ ServerInv /\ ReaderInv /\ QueueInv /\ ResultInv
      /\ UNCHANGED <<mode, message, finishes>> /\ stage' = "body" /\ queue = <<>>
      /\ finishes = 0 /\ ~reader.finished /\ ~reader.err
      /\ Streaming' = Streaming /\ (broken' \in {broken, TRUE} => ServerInv')
  BY RequestSends
<1>2. /\ mode = "plain" /\ mode' = "plain" /\ ~Streaming /\ ~Streaming' /\ result' = "ok" /\ message \in Messages
      /\ UNCHANGED <<broken, queue, reader>> /\ text' = UpTo(message.text)
      /\ byIndex' = [i \in DOMAIN message.args |-> [named |-> TRUE, args |-> UpTo(message.args[i])]]
  BY <1>1 DEF Answered, toResponse, Streaming, ServerInv
<1>3. Fits(message, So')
  <2>1. So' = [text |-> UpTo(message.text),
               calls |-> [i \in DOMAIN message.args |-> [named |-> TRUE, args |-> UpTo(message.args[i])]]]
    BY <1>2 DEF So
  <2> QED  BY <1>2, <2>1, WholeFits
<1>4. QueueInv'
  <2>1. FitsAll(message, So', <<>>) /\ Flows(<<>>, reader.finished)
    BY <1>3, ShortAfter, EmptyFlows
  <2> QED  BY <1>1, <1>2, <2>1 DEF QueueInv
<1>5. ReaderInv'
  BY <1>1, <1>2 DEF ReaderInv
<1>6. ResultInv'
  BY <1>1, <1>2 DEF ResultInv
<1> QED  BY <1>1, <1>2, <1>4, <1>5, <1>6 DEF IInv

(* The queue of a replayed response.                                       *)
LEMMA ReplayQueue ==
  ASSUME message \in Messages, NEW m, Fits(message, m), m.text = <<>>,
         NEW q, q = (IF message.text = 0 THEN <<>> ELSE <<Text(UpTo(message.text))>>) \o <<Finish>>
  PROVE  /\ Flows(q, TRUE) /\ FitsAll(message, m, q) /\ After(m, q).text = UpTo(message.text)
         /\ q # <<>> /\ q[Len(q)] = Finish
<1> DEFINE e == Text(UpTo(message.text))
           all == With(m, e)
<1>1. message.text \in Nat
  BY MessageType
<1>2. /\ UpTo(message.text) \in Seq(Nat) /\ Len(UpTo(message.text)) = message.text
      /\ <<>> \o UpTo(message.text) = UpTo(message.text)
      /\ message.text = 0 => UpTo(message.text) = <<>>
  BY <1>1, UpToFacts
<1>3. e \in Events /\ e # Finish /\ Finish \in Events
  BY <1>2, EventTypes
<1>4. With(m, Finish) = m /\ With(all, Finish) = all
  BY FinishAdds
<1>5. Fits(message, all) /\ all.text = UpTo(message.text)
  <2>1. all.text = UpTo(message.text) /\ all.calls = m.calls
    BY <1>2 DEF With, Text
  <2>2. message.text \in 0..message.text
    BY <1>1
  <2> HIDE DEF all
  <2> QED  BY <1>2, <2>1, <2>2 DEF Fits
<1> HIDE DEF e, all
<1>6. CASE message.text = 0
  <2>1. q = <<Finish>>
    BY <1>3, <1>6, OntoEmpty
  <2>2. Flows(<<Finish>>, TRUE)
    BY <1>3, ShortFlows
  <2>3. After(m, <<Finish>>) = m /\ FitsAll(message, m, <<Finish>>)
    BY <1>4, ShortAfter
  <2>4. UpTo(message.text) = m.text
    BY <1>2, <1>6
  <2>5. <<Finish>> # <<>> /\ Len(<<Finish>>) = 1 /\ <<Finish>>[1] = Finish
    OBVIOUS
  <2> QED  BY <2>1, <2>2, <2>3, <2>4, <2>5
<1>7. CASE message.text # 0
  <2>1. q = <<e, Finish>>
    <3>1. q = <<e>> \o <<Finish>>
      BY <1>7 DEF e
    <3> QED  BY <1>3, <3>1, OntoEmpty
  <2>2. Flows(<<e, Finish>>, TRUE)
    <3>1. Flows(<<e, Finish>>, Finish = Finish)
      BY <1>3, ShortFlows
    <3>2. (Finish = Finish) = TRUE
      OBVIOUS
    <3> QED  BY <3>1, <3>2
  <2>3. After(m, <<e, Finish>>) = all /\ FitsAll(message, m, <<e, Finish>>)
    <3>1. all = With(m, e) /\ all = With(all, Finish)
      BY <1>4 DEF all
    <3> QED  BY <1>5, <3>1, TwoAfter
  <2>4. <<e, Finish>> # <<>> /\ Len(<<e, Finish>>) = 2 /\ <<e, Finish>>[2] = Finish
    OBVIOUS
  <2> QED  BY <1>5, <2>1, <2>2, <2>3, <2>4
<1> QED  BY <1>6, <1>7

LEMMA ReplayedKeeps ==
  ASSUME IInv, Request, Replayed
  PROVE  IInv'
<1>1. /\ ServerInv /\ ReaderInv /\ QueueInv /\ ResultInv
      /\ UNCHANGED <<mode, message, finishes>> /\ stage' = "body" /\ text = <<>>
      /\ finishes = 0 /\ ~reader.err /\ Fits(message, So)
      /\ Streaming' = Streaming /\ (broken' \in {broken, TRUE} => ServerInv')
  BY RequestSends
<1>2. /\ mode = "replay" /\ mode' = "replay" /\ ~Streaming /\ ~Streaming' /\ message \in Messages
      /\ UNCHANGED <<broken, result, text, byIndex>> /\ reader' = [reader EXCEPT !.finished = TRUE]
      /\ queue' = (IF message.text = 0 THEN <<>> ELSE <<Text(UpTo(message.text))>>) \o <<Finish>>
  BY <1>1 DEF Replayed, Streaming, ServerInv
<1>3. So' = So /\ So.text = <<>>
  BY <1>1, <1>2 DEF So
<1>4. /\ Flows(queue', TRUE) /\ FitsAll(message, So, queue') /\ After(So, queue').text = UpTo(message.text)
      /\ queue' # <<>> /\ queue'[Len(queue')] = Finish
  <2> DEFINE m == So
             q == queue'
  <2>1. Fits(message, m) /\ m.text = <<>> /\ message \in Messages
        /\ q = (IF message.text = 0 THEN <<>> ELSE <<Text(UpTo(message.text))>>) \o <<Finish>>
    BY <1>1, <1>2, <1>3
  <2> HIDE DEF m, q
  <2>2. /\ Flows(q, TRUE) /\ FitsAll(message, m, q) /\ After(m, q).text = UpTo(message.text)
        /\ q # <<>> /\ q[Len(q)] = Finish
    BY <2>1, ReplayQueue
  <2> QED  BY <2>2 DEF m, q
<1>5. reader' \in Readers /\ reader'.finished = TRUE /\ reader'.err = reader.err
  BY <1>1, <1>2 DEF ReaderInv, Readers
<1>6. QueueInv'
  <2>1. Flows(queue', reader'.finished)
    BY <1>4, <1>5
  <2>2. reader'.finished <=> (finishes' = 1 \/ (queue' # <<>> /\ queue'[Len(queue')] = Finish))
    BY <1>4, <1>5
  <2>3. finishes' = 0 /\ FitsAll(message', So', queue')
    BY <1>1, <1>3, <1>4
  <2> QED  BY <2>1, <2>2, <2>3 DEF QueueInv
<1>7. ReaderInv'
  BY <1>1, <1>2, <1>5 DEF ReaderInv
<1>8. ResultInv'
  <2>1. Ahead' = After(So, queue')
    BY <1>3 DEF Ahead
  <2>2. result' = "running" /\ stage' = "body"
    BY <1>1, <1>2 DEF Request
  <2> QED  BY <1>1, <1>4, <2>1, <2>2 DEF ResultInv
<1> QED  BY <1>1, <1>2, <1>6, <1>7, <1>8 DEF IInv

LEMMA RequestKeeps ==
  ASSUME IInv, Request
  PROVE  IInv'
<1>1. CASE Refused
  BY <1>1, Unanswered DEF Refused
<1>2. CASE Streamed
  BY <1>2, Unanswered DEF Streamed
<1> QED  BY <1>1, <1>2, AnsweredKeeps, ReplayedKeeps DEF Request

(* Nothing told, nothing ahead.                                            *)
LEMMA InitInv ==
  ASSUME Init
  PROVE  IInv
<1>1. mode \in {"chat", "responses", "replay", "plain"} /\ message \in Messages /\ stage = "request"
        /\ told = [text |-> 0, args |-> <<>>] /\ wire = <<>> /\ end = "open" /\ broken = FALSE
        /\ pending = <<>> /\ queue = <<>> /\ text = <<>> /\ byIndex = <<>> /\ finishes = 0
        /\ result = "running"
  BY DEF Init
<1>2. reader = [finishSeen |-> FALSE, finished |-> FALSE, err |-> FALSE,
                calls |-> {}, emitted |-> {}, argsSeen |-> {}]
  BY DEF Init
<1>3. DOMAIN <<>> = {} /\ <<>> = [i \in DOMAIN <<>> |-> <<>>[i]] /\ Len(<<>>) = 0
  OBVIOUS
<1>4. ~Ending
  BY <1>1 DEF Ending
<1>5. message.text \in Nat
  BY <1>1, MessageType
<1>6. ServerInv
  <2>1. told = [text |-> told.text, args |-> [i \in DOMAIN told.args |-> told.args[i]]]
    BY <1>1, <1>3
  <2>2. ToldFits
    BY <1>1, <1>3, <1>5 DEF ToldFits
  <2>3. mode = "chat" => whole = {}
    BY DEF Init
  <2>4. wire # <<TooLong>>
    BY <1>1
  <2>5. DOMAIN told.args = {}
    BY <1>1, <1>3
  <2> QED  BY <1>1, <1>4, <2>1, <2>2, <2>3, <2>4, <2>5 DEF ServerInv
<1>7. Fits(message, So)
  <2>1. So.text = <<>> /\ So.calls = <<>> /\ UpTo(0) = <<>>
    BY <1>1, UpToFacts DEF So
  <2>2. 0 \in 0..message.text
    BY <1>5
  <2> QED  BY <1>3, <2>1, <2>2 DEF Fits
<1>8. Ahead = So /\ FitsAll(message, So, queue) /\ Flows(queue, reader.finished)
  <2>1. After(So, <<>>) = So /\ FitsAll(message, So, <<>>)
    BY <1>7, ShortAfter
  <2> QED  BY <1>1, <2>1, EmptyFlows DEF Ahead
<1>9. QueueInv
  <2>1. finishes = 0 /\ queue = <<>> /\ ~reader.finished
    BY <1>1, <1>2
  <2> QED  BY <1>8, <2>1 DEF QueueInv
<1>10. DOMAIN Ahead.calls = {} /\ Ahead.text = <<>>
  BY <1>1, <1>3, <1>8 DEF So
<1>11. ReaderInv
  <2>1. reader \in Readers
    BY <1>2 DEF Readers
  <2>2. Known(reader, Ahead.calls)
    BY <1>2, <1>10 DEF Known
  <2> QED  BY <1>2, <2>1, <2>2 DEF ReaderInv
<1>12. ResultInv
  BY <1>1, <1>2, <1>3 DEF ResultInv
<1>13. Coming(Nothing)
  <2>1. InFlight(Nothing)
    BY <1>1 DEF InFlight
  <2>2. Balance(told, Ahead, Nothing)
    <3>1. told.text = Len(Ahead.text) + 0
      BY <1>1, <1>3, <1>10
    <3>2. \A i : Settled(told, Ahead, i)
      BY <1>1, <1>3, <1>10 DEF Settled
    <3> QED  BY <3>1, <3>2, NothingIs DEF Balance
  <2> QED  BY <1>4, <2>1, <2>2, NothingIs DEF Coming
<1> QED  BY <1>6, <1>9, <1>11, <1>12, <1>13 DEF IInv

(* Nothing is lost, doubled or reordered between the server and the turn:  *)
(* the inductive invariant of one streamed call.                           *)
THEOREM InductiveInvariant == Spec => []IInv
<1>1. Init => IInv
  BY InitInv
<1>2. IInv /\ [Next]_vars => IInv'
  <2> SUFFICES ASSUME IInv, [Next]_vars
               PROVE  IInv'
    OBVIOUS
  <2>1. CASE Next
    BY <2>1, RequestKeeps, ServerKeeps, ServerClosesKeeps, CutKeeps, AbortKeeps, DecodeLineKeeps,
       DecodeEndKeeps, ReceiveKeeps, FinishedKeeps DEF Next, Turn
  <2>2. CASE UNCHANGED vars
    <3>1. UNCHANGED <<mode, message, stage, told, whole, wire, end, broken, pending, reader, queue,
                      text, byIndex, finishes, result>>
      BY <2>2 DEF vars, server, turn
    <3>2. Ending' = Ending /\ Streaming' = Streaming /\ Ahead' = Ahead /\ So' = So
      BY <3>1 DEF Ending, Streaming, Ahead, So
    <3>3. ServerInv' /\ ReaderInv' /\ QueueInv' /\ ResultInv'
      <4>1. ServerInv'
        BY <3>1, <3>2 DEF IInv, ServerInv, AllTold, ToldFits
      <4>2. ReaderInv'
        BY <3>1, <3>2 DEF IInv, ReaderInv
      <4>3. QueueInv'
        BY <3>1, <3>2 DEF IInv, QueueInv
      <4>4. ResultInv'
        BY <3>1, <3>2 DEF IInv, ResultInv
      <4> QED  BY <4>1, <4>2, <4>3, <4>4
    <3>4. \A c \in Chunks \cup {Nothing} : Coming(c) => Coming(c)'
      BY <3>1, <3>2 DEF Coming, InFlight, Lost
    <3> QED  BY <3>2, <3>3, <3>4 DEF IInv
  <2> QED  BY <2>1, <2>2
<1> QED  BY <1>1, <1>2, PTL DEF Spec

-----------------------------------------------------------------------------
(* The order of the calls.                                                 *)

(* The elements of a finite set of numbers, in order: each is found at its *)
(* rank, and the ranks are all the positions there are.                    *)
LEMMA InOrder ==
  ASSUME NEW S \in SUBSET Nat, IsFiniteSet(S), NEW n, n = Cardinality(S)
  PROVE  /\ n \in Nat
         /\ \E order \in [1..n -> S] : \A j, k \in 1..n : j < k => order[j] < order[k]
<1> DEFINE Below(i) == {j \in S : j <= i}
<1>1. n \in Nat
  BY FS_CardinalityType
<1>2. ASSUME NEW i \in S
      PROVE  IsFiniteSet(Below(i)) /\ Cardinality(Below(i)) \in 1..n
  <2>1. Below(i) \in SUBSET S /\ i \in Below(i)
    OBVIOUS
  <2> HIDE DEF Below
  <2>2. IsFiniteSet(Below(i)) /\ Cardinality(Below(i)) <= n
    BY <2>1, FS_Subset
  <2>3. Cardinality(Below(i)) \in Nat /\ Cardinality(Below(i)) # 0
    BY <2>1, <2>2, FS_CardinalityType, FS_EmptySet
  <2> QED  BY <1>1, <2>2, <2>3
<1>3. ASSUME NEW i \in S, NEW k \in S, i < k
      PROVE  Cardinality(Below(i)) < Cardinality(Below(k))
  <2>1. Below(i) \in SUBSET Below(k) /\ k \in Below(k) /\ k \notin Below(i)
    <3>1. i \in Nat /\ k \in Nat /\ ~(k <= i) /\ \A j \in S : j \in Nat
      BY <1>3
    <3>2. \A j \in S : j <= i => j <= k
      BY <1>3, <3>1
    <3>3. \A j \in Below(i) : j \in Below(k)
      BY <3>2
    <3>4. k <= k
      BY <3>1
    <3>5. k \in Below(k)
      BY <3>4
    <3>6. k \notin Below(i)
      BY <3>1
    <3> HIDE DEF Below
    <3>7. Below(i) \in SUBSET Below(k)
      BY <3>3
    <3> QED  BY <3>5, <3>6, <3>7
  <2>2. IsFiniteSet(Below(k)) /\ Cardinality(Below(k)) \in 1..n /\ Cardinality(Below(i)) \in 1..n
    BY <1>2
  <2> HIDE DEF Below
  <2>3. Cardinality(Below(i)) <= Cardinality(Below(k)) /\ Cardinality(Below(k)) # Cardinality(Below(i))
    BY <2>1, <2>2, FS_Subset
  <2> QED  BY <1>1, <2>2, <2>3
<1> DEFINE rank == [i \in S |-> Cardinality(Below(i))]
<1>4. rank \in [S -> 1..n] /\ \A i, k \in S : i < k => rank[i] < rank[k]
  <2> HIDE DEF Below
  <2> QED  BY <1>2, <1>3
<1> HIDE DEF rank
<1>5. rank \in Injection(S, 1..n)
  <2>1. \A i, k \in S : rank[i] = rank[k] => i = k
    <3> TAKE i, k \in S
    <3>1. i \in Nat /\ k \in Nat /\ rank[i] \in Nat /\ rank[k] \in Nat
      BY <1>1, <1>4
    <3>2. i < k \/ k < i \/ i = k
      BY <3>1
    <3> QED  BY <1>4, <3>1, <3>2
  <2> QED  BY <1>4, <2>1 DEF Injection, IsInjective
<1>6. \A k \in 1..n : \E i \in S : rank[i] = k
  <2>1. IsFiniteSet(1..n) /\ Cardinality(1..n) = n
    BY <1>1, FS_Interval
  <2>2. rank \in Surjection(S, 1..n)
    BY <1>5, <2>1, FS_Injection
  <2> QED  BY <2>2 DEF Surjection
<1> DEFINE order == [k \in 1..n |-> CHOOSE i \in S : rank[i] = k]
<1>7. order \in [1..n -> S] /\ \A k \in 1..n : order[k] \in S /\ rank[order[k]] = k
  BY <1>6
<1> HIDE DEF order
<1>8. \A j, k \in 1..n : j < k => order[j] < order[k]
  <2> TAKE j, k \in 1..n
  <2> HAVE j < k
  <2>1. order[j] \in Nat /\ order[k] \in Nat /\ order[j] \in S /\ order[k] \in S
          /\ rank[order[j]] = j /\ rank[order[k]] = k /\ j \in Nat /\ k \in Nat
    <3>1. j \in Nat /\ k \in Nat
      BY <1>1
    <3>2. order[j] \in S /\ order[k] \in S /\ rank[order[j]] = j /\ rank[order[k]] = k
      BY <1>7
    <3>3. order[j] \in Nat /\ order[k] \in Nat
      BY <3>2
    <3> QED  BY <3>1, <3>2, <3>3
  <2>2. order[j] < order[k] \/ order[j] = order[k] \/ order[k] < order[j]
    BY <2>1
  <2>3. ~(order[k] < order[j])
    <3>1. order[k] < order[j] => k < j
      BY <1>4, <2>1
    <3> QED  BY <2>1, <3>1
  <2>4. order[j] # order[k]
    <3>1. j # k
      BY <2>1
    <3> QED  BY <2>1, <3>1
  <2> QED  BY <2>2, <2>3, <2>4
<1> QED  BY <1>1, <1>7, <1>8

LEMMA SortedLists ==
  ASSUME NEW S \in SUBSET Nat, IsFiniteSet(S)
  PROVE  /\ Sorted(S) \in [1..Cardinality(S) -> S]
         /\ \A j, k \in 1..Cardinality(S) : j < k => Sorted(S)[j] < Sorted(S)[k]
<1> DEFINE n == Cardinality(S)
<1>1. n \in Nat /\ \E order \in [1..n -> S] : \A j, k \in 1..n : j < k => order[j] < order[k]
  BY InOrder
<1>2. PICK order \in [1..n -> S] : \A j, k \in 1..n : j < k => order[j] < order[k]
  BY <1>1
<1>3. order \in SetToSeqs(S)
  <2>1. \A j, k \in 1..n : j # k => order[j] # order[k]
    <3> TAKE j, k \in 1..n
    <3> HAVE j # k
    <3>1. j < k \/ k < j
      BY <1>1
    <3>2. order[j] \in Nat /\ order[k] \in Nat
      <4>1. order[j] \in S /\ order[k] \in S
        BY <1>2
      <4> QED  BY <4>1
    <3> QED  BY <1>2, <3>1, <3>2
  <2> QED  BY <1>2, <2>1 DEF SetToSeqs
<1>4. DOMAIN order = 1..n
  OBVIOUS
<1>5. Sorted(S) \in SetToSeqs(S) /\ \A j, k \in DOMAIN Sorted(S) : j < k => Sorted(S)[j] < Sorted(S)[k]
  BY <1>2, <1>3, <1>4 DEF Sorted
<1> DEFINE chosen == Sorted(S)
<1>6. chosen \in [1..n -> S]
  BY <1>5 DEF SetToSeqs
<1>7. \A j, k \in 1..n : j < k => chosen[j] < chosen[k]
  BY <1>5, <1>6
<1> QED  BY <1>6, <1>7

(* A turn that has all the calls of the message has them in its order.     *)
LEMMA CallsInOrder ==
  ASSUME StreamAssumption, message \in Messages,
         byIndex = [i \in DOMAIN message.args |-> [named |-> TRUE, args |-> UpTo(message.args[i])]]
  PROVE  Calls(byIndex) = toResponse.calls
<1> DEFINE S == DOMAIN message.args
           order == Sorted(S)
<1>1. S \in SUBSET Nat /\ IsFiniteSet(S)
  <2>1. S \in SUBSET Indexes
    BY MessageType
  <2> QED  BY <2>1, FS_Subset DEF StreamAssumption
<1>2. order \in [1..Cardinality(S) -> S]
  <2> HIDE DEF S
  <2> QED  BY <1>1, SortedLists
<1>3. DOMAIN byIndex = S
  OBVIOUS
<1> HIDE DEF order
<1>4. \A k \in DOMAIN order : order[k] \in DOMAIN message.args
  BY <1>2
<1>5. Calls(byIndex) = [k \in DOMAIN order |->
          [index |-> order[k], named |-> byIndex[order[k]].named, args |-> byIndex[order[k]].args]]
  BY <1>3 DEF Calls, order
<1>6. \A k \in DOMAIN order :
        [index |-> order[k], named |-> byIndex[order[k]].named, args |-> byIndex[order[k]].args]
          = Called(order[k], message.args[order[k]])
  <2> TAKE k \in DOMAIN order
  <2> DEFINE i == order[k]
  <2>1. byIndex[i] = [named |-> TRUE, args |-> UpTo(message.args[i])]
    BY <1>4
  <2>2. byIndex[i].named = TRUE /\ byIndex[i].args = UpTo(message.args[i])
    BY <2>1
  <2> HIDE DEF i
  <2> QED  BY <2>2 DEF Called, i
<1>7. toResponse.calls = [k \in DOMAIN order |-> Called(order[k], message.args[order[k]])]
  BY DEF toResponse, order
<1> DEFINE listed(k) == [index |-> order[k], named |-> byIndex[order[k]].named, args |-> byIndex[order[k]].args]
           meant(k) == Called(order[k], message.args[order[k]])
<1>8. /\ Calls(byIndex) = [k \in DOMAIN order |-> listed(k)]
      /\ toResponse.calls = [k \in DOMAIN order |-> meant(k)]
      /\ \A k \in DOMAIN order : listed(k) = meant(k)
  BY <1>5, <1>6, <1>7
<1> HIDE DEF listed, meant
<1> QED  BY <1>8

-----------------------------------------------------------------------------
(* What a turn tells.                                                      *)

LEMMA UpToPrefix ==
  ASSUME NEW n \in Nat, NEW k \in 0..n
  PROVE  IsPrefix(UpTo(k), UpTo(n))
<1>1. k \in Nat /\ k <= n
  OBVIOUS
<1>2. UpTo(k) \in Seq(Nat) /\ Len(UpTo(k)) = k /\ UpTo(n) \in Seq(Nat) /\ Len(UpTo(n)) = n
  BY <1>1, UpToFacts
<1>3. \A j \in 1..k : UpTo(k)[j] = j /\ UpTo(n)[j] = j
  BY <1>1 DEF UpTo
<1>4. SubSeq(UpTo(k), 1, k) = UpTo(k)
  BY <1>2, SubSeqFull
<1>5. SubSeq(UpTo(n), 1, k) = UpTo(k)
  <2> DEFINE s == UpTo(n)
             t == UpTo(k)
             u == SubSeq(s, 1, k)
  <2>1. s \in Seq(Nat) /\ t \in Seq(Nat) /\ Len(t) = k /\ \A j \in 1..k : t[j] = j /\ s[j] = j
    BY <1>2, <1>3
  <2> HIDE DEF s, t
  <2>2. \A j \in 1..k : s[j] \in Nat
    BY <1>1, <2>1
  <2>3. /\ u \in Seq(Nat) /\ Len(u) = IF 1 <= k THEN k - 1 + 1 ELSE 0
        /\ \A j \in 1..(k - 1 + 1) : u[j] = s[1 + j - 1]
    BY <1>1, <2>2, SubSeqProperties
  <2> HIDE DEF u
  <2>4. Len(u) = k /\ \A j \in 1..k : u[j] = s[j]
    BY <1>1, <2>3
  <2>5. \A j \in 1..Len(u) : u[j] = t[j]
    BY <2>1, <2>4
  <2> QED  BY <2>1, <2>3, <2>4, <2>5, SeqEqual DEF s, t, u
<1> QED  BY <1>1, <1>2, <1>4, <1>5 DEF IsPrefix

LEMMA ForwardedBeginning ==
  ASSUME IInv
  PROVE  ForwardedAsSent
<1>1. message \in Messages /\ Fits(message, So) /\ (queue # <<>> => finishes = 0)
  BY DEF IInv, ServerInv, QueueInv, FitsAll
<1>2. message.text \in Nat /\ \A i \in DOMAIN message.args : message.args[i] \in Nat
  BY <1>1, MessageType
<1>3. IsPrefix(text, toResponse.text)
  <2>1. text = UpTo(Len(text)) /\ Len(text) \in 0..message.text
    BY <1>1 DEF Fits, So
  <2>2. IsPrefix(UpTo(Len(text)), UpTo(message.text))
    BY <1>2, <2>1, UpToPrefix
  <2> QED  BY <2>1, <2>2 DEF toResponse
<1>4. ASSUME NEW i \in DOMAIN byIndex
      PROVE  /\ i \in DOMAIN message.args /\ byIndex[i].named
             /\ IsPrefix(byIndex[i].args, UpTo(message.args[i]))
  <2> DEFINE call == byIndex[i]
             n == Len(call.args)
  <2>1. i \in DOMAIN message.args /\ FitsCall(call, message.args[i])
    BY <1>1 DEF Fits, So
  <2>2. call = [named |-> TRUE, args |-> UpTo(n)] /\ n \in 0..message.args[i] /\ message.args[i] \in Nat
    BY <1>2, <2>1 DEF FitsCall
  <2>3. IsPrefix(UpTo(n), UpTo(message.args[i]))
    BY <2>2, UpToPrefix
  <2>4. call.named = TRUE /\ call.args = UpTo(n)
    BY <2>2
  <2> QED  BY <2>1, <2>3, <2>4
<1> QED  BY <1>1, <1>3, <1>4 DEF ForwardedAsSent

(* A stream that has finished has delivered all of the message.            *)
LEMMA AllReceived ==
  ASSUME IInv, Streaming, reader.finished, queue = <<>>
  PROVE  /\ text = UpTo(message.text)
         /\ byIndex = [i \in DOMAIN message.args |-> [named |-> TRUE, args |-> UpTo(message.args[i])]]
<1>1. /\ message \in Messages /\ Ending /\ AllTold /\ Fits(message, So)
  BY DEF IInv, ServerInv, ReaderInv, QueueInv, FitsAll
<1>2. Ahead = So
  <2>1. After(So, <<>>) = So
    BY ShortAfter
  <2> QED  BY <2>1 DEF Ahead
<1>3. PICK c \in Chunks \cup {Nothing} : Coming(c)
  BY DEF IInv
<1>4. ~Lost(c) /\ ~Piece(c)
  BY <1>1, <1>3 DEF Coming, Lost, Ending
<1>5. Balance(told, So, Nothing)
  <2>1. Balance(told, Ahead, c)
    BY <1>3, <1>4 DEF Coming
  <2>2. Balance(told, Ahead, Nothing)
    BY <1>4, <2>1, MarkBalances
  <2> QED  BY <1>2, <2>2
<1>6. told.text = message.text /\ told.args = message.args
  BY <1>1 DEF AllTold
<1>7. text = UpTo(message.text)
  <2>1. told.text = Len(text) + 0
    BY <1>5, NothingIs DEF Balance, So
  <2>2. text = UpTo(Len(text)) /\ Len(text) \in 0..message.text /\ message.text \in Nat
    BY <1>1, MessageType DEF Fits, So
  <2>3. Len(text) = message.text
    BY <1>6, <2>1, <2>2
  <2> QED  BY <2>2, <2>3
<1>8. \A i \in Indexes :
        /\ i \in DOMAIN byIndex <=> i \in DOMAIN message.args
        /\ i \in DOMAIN byIndex => Len(byIndex[i].args) = message.args[i]
  BY <1>5, <1>6, NothingIs DEF Balance, Settled, So
<1>9. /\ byIndex = [i \in DOMAIN byIndex |-> byIndex[i]]
      /\ \A i \in DOMAIN byIndex : i \in DOMAIN message.args /\ FitsCall(byIndex[i], message.args[i])
  BY <1>1 DEF Fits, So
<1>10. DOMAIN byIndex = DOMAIN message.args
  <2>1. DOMAIN message.args \subseteq Indexes
    BY <1>1, MessageType
  <2> QED  BY <1>8, <1>9, <2>1
<1>11. \A i \in DOMAIN message.args : byIndex[i] = [named |-> TRUE, args |-> UpTo(message.args[i])]
  <2> TAKE i \in DOMAIN message.args
  <2>1. Len(byIndex[i].args) = message.args[i]
    BY <1>1, <1>8, <1>10, MessageType
  <2>2. byIndex[i] = [named |-> TRUE, args |-> UpTo(Len(byIndex[i].args))]
    BY <1>9, <1>10 DEF FitsCall
  <2> QED  BY <2>1, <2>2
<1> QED  BY <1>7, <1>9, <1>10, <1>11

LEMMA MessageTold ==
  ASSUME IInv
  PROVE  TurnTellsTheMessage
<1>1. /\ message \in Messages /\ ResultInv /\ QueueInv
      /\ mode \in {"chat", "responses", "replay", "plain"}
  BY DEF IInv, ServerInv
<1>2. result = "failed" => broken
  BY <1>1 DEF ResultInv
<1>3. ASSUME result = "ok"
      PROVE  /\ text = UpTo(message.text)
             /\ mode # "replay" => Calls(byIndex) = toResponse.calls
             /\ mode # "plain" => finishes = 1
  <2>1. CASE mode = "plain"
    <3>1. /\ text = UpTo(message.text)
          /\ byIndex = [i \in DOMAIN message.args |-> [named |-> TRUE, args |-> UpTo(message.args[i])]]
      BY <1>1, <1>3, <2>1 DEF ResultInv
    <3> QED  BY <1>1, <2>1, <3>1, CallsInOrder, StreamAssumption
  <2>2. ASSUME mode # "plain"
        PROVE  reader.finished /\ queue = <<>> /\ finishes = 1
    <3>1. reader.finished /\ queue = <<>>
      BY <1>1, <1>3, <2>2 DEF ResultInv
    <3> QED  BY <1>1, <3>1 DEF QueueInv
  <2>3. CASE mode = "replay"
    <3>1. Ahead.text = UpTo(message.text)
      BY <1>1, <2>2, <2>3 DEF ResultInv
    <3>2. After(So, <<>>) = So
      BY ShortAfter
    <3>3. text = UpTo(message.text)
      BY <2>2, <2>3, <3>1, <3>2 DEF Ahead, So
    <3> QED  BY <2>2, <2>3, <3>3
  <2>4. CASE Streaming
    <3>1. mode # "plain" /\ mode # "replay"
      BY <2>4 DEF Streaming
    <3>2. /\ text = UpTo(message.text)
          /\ byIndex = [i \in DOMAIN message.args |-> [named |-> TRUE, args |-> UpTo(message.args[i])]]
      BY <2>2, <2>4, <3>1, AllReceived
    <3> QED  BY <1>1, <2>2, <3>1, <3>2, CallsInOrder, StreamAssumption
  <2> QED  BY <1>1, <2>1, <2>3, <2>4 DEF Streaming
<1>4. Assembled.text = text /\ Assembled.calls = Calls(byIndex) /\ toResponse.text = UpTo(message.text)
  BY DEF Assembled, toResponse
<1> QED  BY <1>2, <1>3, <1>4 DEF TurnTellsTheMessage

(* Wherever the stream is cut and however its pieces are interleaved, what *)
(* handleChunk, handleEvent and the accumulator forward is the beginning   *)
(* of the message: nothing twice, nothing out of order.                    *)
THEOREM ForwardedAsSentHolds == Spec => []ForwardedAsSent
<1>1. IInv => ForwardedAsSent
  BY ForwardedBeginning
<1> QED  BY <1>1, InductiveInvariant, PTL

(* A turn that ends without an error has all of the message, its calls in  *)
(* order and one finish event; one that fails was broken.                  *)
THEOREM TurnTellsTheMessageHolds == Spec => []TurnTellsTheMessage
<1>1. IInv => TurnTellsTheMessage
  BY MessageTold
<1> QED  BY <1>1, InductiveInvariant, PTL
=============================================================================
