---------------------------- MODULE Conversation ----------------------------
(***************************************************************************)
(* What running agents over one session promises, without the loop, the    *)
(* handoffs and the history handling that do it: the session grows by      *)
(* whole turns only.  A run that succeeds adds its complete turn at once,  *)
(* a run that fails adds nothing, and after a run that ran out of turns    *)
(* the caller may add the open turn the error carries, once.               *)
(***************************************************************************)
EXTENDS Transcript

VARIABLES
  content,              \* the messages of the session
  fate                  \* what became of each run

cvars == <<content, fate>>

Fates == {"running", "done", "max_turns", "carried", "failed"}

CInit ==
  /\ content = <<>>
  /\ fate = [r \in Runs |-> "running"]

Becomes(r, from, to) == fate[r] = from /\ fate' = [fate EXCEPT ![r] = to]

(* What this step adds to the session.                                     *)
Added == SubSeq(content', Len(content) + 1, Len(content'))
Grows == /\ Len(content') > Len(content)
         /\ SubSeq(content', 1, Len(content)) = content

Commit(r) == Becomes(r, "running", "done") /\ Grows /\ CompleteTurn(r, Added)

GiveUp(r) ==
  /\ \E f \in {"max_turns", "failed"} : Becomes(r, "running", f)
  /\ UNCHANGED content

Carry(r) == Becomes(r, "max_turns", "carried") /\ Grows /\ OpenTurn(r, Added)

CNext == \E r \in Runs : Commit(r) \/ GiveUp(r) \/ Carry(r)

CSpec == CInit /\ [][CNext]_cvars
=============================================================================
