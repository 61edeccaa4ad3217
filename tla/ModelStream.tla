----------------------------- MODULE ModelStream ------------------------------
(***************************************************************************)
(* One streamed model call: the server-sent events on the wire, their      *)
(* decoder (src/model/sse), the readers of the two protocols of the OpenAI *)
(* provider (src/model/openai), and the turn of the agent that forwards    *)
(* and assembles what they deliver (src/agent/stream.go).                  *)
(*                                                                         *)
(* The server and the network are external: the server sends a message in  *)
(* fragments, the pieces of its tool calls interleaved, and the connection *)
(* may be cut anywhere.  A fragment is its number; chunks are what JSON    *)
(* makes of the data, Garbage where it makes nothing.                      *)
(***************************************************************************)
EXTENDS Naturals, Sequences, FiniteSets, SequencesExt

CONSTANTS
  Indexes,      \* bound: the indexes of tool calls
  MaxText,      \* bound: fragments of the text
  MaxArgs       \* bound: fragments of the arguments of a call

ASSUME StreamAssumption ==
  /\ Indexes \subseteq Nat /\ IsFiniteSet(Indexes)
  /\ MaxText \in Nat /\ MaxArgs \in Nat

VARIABLES
  mode,         \* "chat" or "responses"; "replay" of a response; "plain"
  message,      \* what the server means to say
  stage,        \* of the server: "request", "body", "finished" or "done"
  told,         \* how much of the text and of each call it has sent
  whole,        \* the calls it sends in one piece (responses)
  wire, end,    \* the lines on their way, and what is after them
  broken,       \* the server failed or the connection was cut
  pending,      \* decoder: the data of the event being read
  reader,       \* the fields of the reader that its events depend on
  queue,        \* its events to deliver
  text, byIndex,        \* the turn: the text builder, the accumulator
  finishes,     \* finish events received
  result        \* "running", "ok", "failed" or "cancelled"

server == <<mode, message, stage, told, whole, wire, end, broken>>
turn == <<text, byIndex, finishes>>
vars == <<server, pending, reader, queue, turn, result>>

(* A message: the length of its text and of the arguments of its calls.    *)
Messages == [text : 0..MaxText, args : UNION {[S -> 0..MaxArgs] : S \in SUBSET Indexes}]
UpTo(n) == [k \in 1..n |-> k]
Called(i, n) == [index |-> i, named |-> TRUE, args |-> UpTo(n)]

Init ==
  /\ mode \in {"chat", "responses", "replay", "plain"}
  /\ message \in Messages
  /\ stage = "request"
  /\ told = [text |-> 0, args |-> <<>>]
  /\ whole \in IF mode = "responses" THEN SUBSET DOMAIN message.args ELSE {{}}
  /\ wire = <<>> /\ end = "open" /\ broken = FALSE
  /\ pending = <<>>
  /\ reader = [finishSeen |-> FALSE, finished |-> FALSE, err |-> FALSE,
               calls |-> {}, emitted |-> {}, argsSeen |-> {}]
  /\ queue = <<>>
  /\ text = <<>> /\ byIndex = <<>> /\ finishes = 0
  /\ result = "running"

-----------------------------------------------------------------------------
(* The server and the network.                                             *)

Data(chunk) == [line |-> "data", chunk |-> chunk]
Blank == [line |-> "blank"]
Comment == [line |-> "comment"]
TooLong == [line |-> "long"]
Garbage == [is |-> "garbage"]
Done == [is |-> "done"]

(* Pieces in order; a call's first piece has its identifier and name.      *)
Send(chunk) == wire' = <<Data(chunk), Blank>>
Opened(i) == i \in DOMAIN told.args
Tells(i, n) == told' = [told EXCEPT !.args =
                          [j \in DOMAIN @ \cup {i} |-> IF j = i THEN n ELSE @[j]]]
AllTold == told = [text |-> message.text, args |-> message.args]

SendText ==
  /\ told.text < message.text
  /\ told' = [told EXCEPT !.text = @ + 1]
  /\ Send([is |-> "text", text |-> told.text + 1])
  /\ UNCHANGED <<stage, end, broken>>

SendCall(i) ==
  /\ i \in DOMAIN message.args \ DOMAIN told.args
  /\ \E n \in 0..1 :
       /\ n = 1 => mode = "chat" /\ message.args[i] > 0
       /\ Tells(i, n)
       /\ Send([is |-> "call", index |-> i, arg |-> n])
  /\ UNCHANGED <<stage, end, broken>>

SendArgs(i) ==
  /\ Opened(i) /\ told.args[i] < message.args[i]
  /\ i \notin whole
  /\ Tells(i, told.args[i] + 1)
  /\ Send([is |-> "args", index |-> i, arg |-> told.args[i] + 1])
  /\ UNCHANGED <<stage, end, broken>>

(* The responses protocol ends every call with the complete item, which    *)
(* may be the first the client sees of a call sent in one piece.           *)
SendItem(i) ==
  /\ mode = "responses"
  /\ i \in DOMAIN message.args
  /\ i \in whole \/ (Opened(i) /\ told.args[i] = message.args[i])
  /\ Tells(i, message.args[i])
  /\ Send([is |-> "item", index |-> i, args |-> UpTo(message.args[i])])
  /\ UNCHANGED <<stage, end, broken>>

SendEnd ==
  /\ AllTold
  /\ \/ stage = "body" /\ stage' = "finished" /\ Send([is |-> "finish"])
     \/ mode = "chat" /\ stage' = "done" /\ Send(Done)
  /\ UNCHANGED <<told, end, broken>>

(* Events nobody asked for, comments, failures.                            *)
SendOther ==
  \/ /\ wire' \in {<<Comment>>, <<Blank>>, <<Data([is |-> "other"]), Blank>>}
     /\ UNCHANGED <<stage, told, end, broken>>
  \/ /\ wire' \in {<<TooLong>>, <<Data(Garbage), Blank>>}
                     \cup (IF mode = "responses" THEN {<<Data([is |-> "failed"]), Blank>>} ELSE {})
     /\ broken' = TRUE
     /\ UNCHANGED <<stage, told, end>>

Server ==
  /\ mode \in {"chat", "responses"}
  /\ stage \notin {"request", "done"} /\ end = "open" /\ wire = <<>>
  /\ \/ /\ stage = "body"
        /\ SendText \/ \E i \in Indexes : SendCall(i) \/ SendArgs(i) \/ SendItem(i)
     \/ SendEnd \/ SendOther
  /\ UNCHANGED <<mode, message, whole, pending, reader, queue, turn, result>>

ServerCloses ==
  /\ stage \in {"finished", "done"} /\ end = "open"
  /\ end' = "eof"
  /\ UNCHANGED <<mode, message, stage, told, whole, wire, broken, pending, reader, queue,
                 turn, result>>

(* The connection is cut after some line, or within a data line: what is   *)
(* left of it counts as a line when the end looks clean, of an unknown     *)
(* field or of garbage.                                                    *)
Cut ==
  /\ stage # "request" /\ end = "open" /\ mode \in {"chat", "responses"}
  /\ end' \in {"eof", "error"}
  /\ broken' = TRUE
  /\ \E k \in 0..Len(wire) :
       \/ wire' = SubSeq(wire, 1, k)
       \/ /\ k < Len(wire) /\ wire[k + 1].line = "data" /\ end' = "eof"
          /\ wire' = SubSeq(wire, 1, k) \o <<Data(Garbage)>>
  /\ UNCHANGED <<mode, message, stage, told, whole, pending, reader, queue, turn, result>>

-----------------------------------------------------------------------------
(* The readers.                                                            *)

Text(ks) == [type |-> "text", text |-> ks]
Delta(i, named, args) == [type |-> "call", index |-> i, named |-> named, args |-> args]
Finish == [type |-> "finish"]
Maybe(k) == IF k = 0 THEN <<>> ELSE <<k>>

Emit(events) == queue' = queue \o events
Fails == reader' = [reader EXCEPT !.err = TRUE] /\ UNCHANGED queue
emitFinish == reader' = [reader EXCEPT !.finished = TRUE] /\ Emit(<<Finish>>)
Ignores == UNCHANGED <<reader, queue>>

(* handleChunk, and the sentinel.                                          *)
handleChunk(chunk) ==
  \/ chunk.is = "garbage" /\ Fails
  \/ chunk.is = "done" /\ emitFinish
  \/ /\ chunk.is = "finish"
     /\ reader' = [reader EXCEPT !.finishSeen = TRUE] /\ UNCHANGED queue
  \/ chunk.is = "text" /\ Emit(<<Text(<<chunk.text>>)>>) /\ UNCHANGED reader
  \/ /\ chunk.is \in {"call", "args"}
     /\ Emit(<<Delta(chunk.index, chunk.is = "call", Maybe(chunk.arg))>>)
     /\ UNCHANGED reader
  \/ chunk.is = "other" /\ Ignores

(* addFunctionCall and callFor, for an item with its identifier and name.  *)
Announced(event) ==
  IF event.index \in reader.emitted THEN <<>> ELSE <<Delta(event.index, TRUE, <<>>)>>
Knows(event, seen) ==
  reader' = [reader EXCEPT !.calls = @ \cup {event.index},
                           !.emitted = @ \cup {event.index}, !.argsSeen = seen]

(* Variant: the arguments of the complete item are always forwarded.       *)
handleEventTwice(event) ==
  \/ event.is \in {"garbage", "failed"} /\ Fails
  \/ /\ event.is = "finish"
     /\ reader' = [reader EXCEPT !.finishSeen = TRUE, !.finished = TRUE]
     /\ Emit(<<Finish>>)
  \/ event.is = "text" /\ Emit(<<Text(<<event.text>>)>>) /\ UNCHANGED reader
  \/ /\ event.is = "call"
     /\ Emit(Announced(event))
     /\ Knows(event, reader.argsSeen)
  \/ /\ event.is = "args"
     /\ Emit(<<Delta(event.index, event.index \in reader.calls, <<event.arg>>)>>)
     /\ reader' = [reader EXCEPT !.emitted = @ \cup {event.index},
                                !.argsSeen = @ \cup {event.index}]
  \/ /\ event.is = "item"
     /\ Emit(Announced(event) \o <<Delta(event.index, TRUE, event.args)>>)
     /\ Knows(event, IF event.args = <<>> THEN reader.argsSeen
                     ELSE reader.argsSeen \cup {event.index})
  \/ event.is = "other" /\ Ignores

(* handleEvent: a call is announced once, and the arguments of its         *)
(* complete item are forwarded unless fragments of them were.              *)
handleEvent(event) ==
  \/ event.is \in {"garbage", "failed"} /\ Fails
  \/ /\ event.is = "finish"
     /\ reader' = [reader EXCEPT !.finishSeen = TRUE, !.finished = TRUE]
     /\ Emit(<<Finish>>)
  \/ event.is = "text" /\ Emit(<<Text(<<event.text>>)>>) /\ UNCHANGED reader
  \/ /\ event.is = "call"
     /\ Emit(Announced(event))
     /\ Knows(event, reader.argsSeen)
  \/ /\ event.is = "args"
     /\ Emit(<<Delta(event.index, event.index \in reader.calls, <<event.arg>>)>>)
     /\ reader' = [reader EXCEPT !.emitted = @ \cup {event.index},
                                !.argsSeen = @ \cup {event.index}]
  \/ /\ event.is = "item"
     /\ \/ /\ event.args = <<>> \/ event.index \in reader.argsSeen
           /\ Emit(Announced(event))
        \/ /\ event.args # <<>> /\ event.index \notin reader.argsSeen
           /\ Emit(Announced(event) \o <<Delta(event.index, TRUE, event.args)>>)
     /\ Knows(event, IF event.args = <<>> THEN reader.argsSeen
                     ELSE reader.argsSeen \cup {event.index})
  \/ event.is = "other" /\ Ignores

Handle(chunk) == IF mode = "chat" THEN handleChunk(chunk) ELSE handleEvent(chunk)

Reading ==
  /\ result = "running" /\ stage # "request"
  /\ queue = <<>> /\ ~reader.err /\ ~reader.finished

(* The decoder takes a line; a blank one dispatches the data before it.    *)
DecodeLine ==
  /\ Reading /\ wire # <<>>
  /\ wire' = Tail(wire)
  /\ LET next == Head(wire)
     IN  \/ next.line = "data" /\ pending' = Append(pending, next.chunk) /\ UNCHANGED <<reader, queue>>
         \/ next.line = "comment" /\ UNCHANGED <<pending, reader, queue>>
         \/ next.line = "long" /\ Fails /\ UNCHANGED pending
         \/ next.line = "blank" /\ pending = <<>> /\ UNCHANGED <<pending, reader, queue>>
         \/ next.line = "blank" /\ pending # <<>> /\ pending' = <<>> /\ Handle(pending[1])
  /\ UNCHANGED <<mode, message, stage, told, whole, end, broken, turn, result>>

(* Variant: every end of the stream is a clean one.                        *)
DecodeEndAlways ==
  /\ Reading /\ wire = <<>> /\ end # "open"
  /\ \/ end = "error" /\ Fails /\ UNCHANGED pending
     \/ end = "eof" /\ pending # <<>> /\ pending' = <<>> /\ Handle(pending[1])
     \/ end = "eof" /\ pending = <<>> /\ UNCHANGED pending /\ emitFinish
  /\ UNCHANGED <<server, turn, result>>

(* Variant: an end of the stream before its finish is read past.           *)
DecodeEndAgain ==
  /\ Reading /\ wire = <<>> /\ end # "open"
  /\ \/ end = "error" /\ Fails /\ UNCHANGED pending
     \/ end = "eof" /\ pending # <<>> /\ pending' = <<>> /\ Handle(pending[1])
     \/ /\ end = "eof" /\ pending = <<>> /\ reader.finishSeen
        /\ UNCHANGED pending /\ emitFinish
  /\ UNCHANGED <<server, turn, result>>

(* At a clean end the decoder dispatches what is pending, once; then the   *)
(* stream must have finished.                                              *)
DecodeEnd ==
  /\ Reading /\ wire = <<>> /\ end # "open"
  /\ \/ end = "error" /\ Fails /\ UNCHANGED pending
     \/ end = "eof" /\ pending # <<>> /\ pending' = <<>> /\ Handle(pending[1])
     \/ /\ end = "eof" /\ pending = <<>>
        /\ IF reader.finishSeen THEN emitFinish ELSE Fails
        /\ UNCHANGED pending
  /\ UNCHANGED <<server, turn, result>>

-----------------------------------------------------------------------------
(* The turn.                                                               *)

Sorted(indexes) ==
  CHOOSE order \in SetToSeqs(indexes) :
    \A j, k \in DOMAIN order : j < k => order[j] < order[k]

(* ToolCallAccumulator.                                                    *)
Add(calls, delta) ==
  LET i == delta.index
      so == IF i \in DOMAIN calls THEN calls[i] ELSE [named |-> FALSE, args |-> <<>>]
  IN  [j \in DOMAIN calls \cup {i} |->
         IF j # i THEN calls[j]
         ELSE [named |-> so.named \/ delta.named, args |-> so.args \o delta.args]]
Calls(calls) ==
  LET order == Sorted(DOMAIN calls)
  IN  [k \in DOMAIN order |->
         [index |-> order[k], named |-> calls[order[k]].named, args |-> calls[order[k]].args]]

(* What a response of the server's has when it is not streamed.            *)
toResponse ==
  LET order == Sorted(DOMAIN message.args)
  IN  [text |-> UpTo(message.text),
       calls |-> [k \in DOMAIN order |-> Called(order[k], message.args[order[k]])]]

(* The request may be refused ...                                          *)
Refused ==
  /\ broken' = TRUE /\ result' = "failed"
  /\ UNCHANGED <<queue, reader, text, byIndex>>

(* ... answered in one piece by a model that does not stream ...           *)
Answered ==
  /\ mode = "plain"
  /\ result' = "ok"
  /\ text' = toResponse.text
  /\ byIndex' = [i \in DOMAIN message.args |-> [named |-> TRUE, args |-> UpTo(message.args[i])]]
  /\ UNCHANGED <<broken, queue, reader>>

(* ... which AsStream replays as a stream ...                              *)
Replayed ==
  /\ mode = "replay"
  /\ queue' = (IF message.text = 0 THEN <<>> ELSE <<Text(UpTo(message.text))>>) \o <<Finish>>
  /\ reader' = [reader EXCEPT !.finished = TRUE]
  /\ UNCHANGED <<broken, result, text, byIndex>>

(* ... or answered with a stream.                                          *)
Streamed ==
  /\ mode \in {"chat", "responses"}
  /\ UNCHANGED <<broken, queue, reader, result, text, byIndex>>

Request ==
  /\ stage = "request" /\ result = "running"
  /\ stage' = "body"
  /\ Refused \/ Answered \/ Replayed \/ Streamed
  /\ UNCHANGED <<mode, message, told, whole, wire, end, pending, finishes>>

(* Forward the next event and add it to the message.                       *)
Receive ==
  /\ result = "running" /\ queue # <<>>
  /\ queue' = Tail(queue)
  /\ LET event == Head(queue)
     IN  \/ /\ event.type = "text"
            /\ text' = text \o event.text
            /\ UNCHANGED <<byIndex, finishes>>
         \/ /\ event.type = "call"
            /\ byIndex' = Add(byIndex, event)
            /\ UNCHANGED <<text, finishes>>
         \/ /\ event.type = "finish"
            /\ finishes' = finishes + 1
            /\ UNCHANGED <<text, byIndex>>
  /\ UNCHANGED <<server, pending, reader, result>>

(* The context is done: an event cannot be forwarded, or the body not be   *)
(* read.                                                                   *)
Abort ==
  /\ result = "running"
  /\ result' = "cancelled"
  /\ UNCHANGED <<server, pending, reader, queue, turn>>

(* The reader has no more events.                                          *)
Finished ==
  /\ result = "running" /\ queue = <<>>
  /\ reader.err \/ reader.finished
  /\ result' = IF reader.err THEN "failed" ELSE "ok"
  /\ UNCHANGED <<server, pending, reader, queue, turn>>

Turn == DecodeLine \/ DecodeEnd \/ Receive \/ Finished

Next == Request \/ Server \/ ServerCloses \/ Cut \/ Abort \/ Turn

Spec == Init /\ [][Next]_vars

(* The turn goes on while it can.                                          *)
FairSpec == Spec /\ WF_vars(Turn)

-----------------------------------------------------------------------------
(* Properties.                                                             *)

Assembled == [text |-> text, calls |-> Calls(byIndex)]

(* A turn that ends without an error has received one finish event and has *)
(* the message the server meant, whole and with its calls in order,        *)
(* however its pieces were interleaved and wherever the stream was cut:    *)
(* a truncated one fails.  A turn does not fail for nothing.  A replayed   *)
(* response is without its calls.                                          *)
TurnTellsTheMessage ==
  /\ result = "ok" =>
       /\ Assembled.text = toResponse.text
       /\ mode # "replay" => Assembled.calls = toResponse.calls
       /\ mode # "plain" => finishes = 1
  /\ result = "failed" => broken

(* What is forwarded before the end of a stream, even of one that breaks,  *)
(* is the beginning of the message: nothing twice, nothing out of order,   *)
(* and no call without its name.                                           *)
ForwardedAsSent ==
  /\ IsPrefix(text, toResponse.text)
  /\ \A i \in DOMAIN byIndex :
       /\ i \in DOMAIN message.args
       /\ byIndex[i].named
       /\ IsPrefix(byIndex[i].args, UpTo(message.args[i]))
  /\ queue # <<>> => finishes = 0

(* A turn ends once its stream does.                                       *)
TurnEnds == end # "open" ~> result # "running"
=============================================================================
