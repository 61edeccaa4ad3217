------------------------------ MODULE Resilience ------------------------------
(***************************************************************************)
(* The model decorators of package model, composed as retry.go asks and    *)
(* the tutorial shows: Fallback over candidates that each retry outside    *)
(* their timeout, the first of them, the primary, behind a token bucket:   *)
(*                                                                         *)
(*   Fallback(WithRateLimit(WithRetry(WithTimeout(m1))),                   *)
(*            WithRetry(WithTimeout(m2)), ...)                             *)
(*                                                                         *)
(* Callers share the chain and with it the bucket; each has a context that *)
(* may be cancelled or reach its deadline at any time.                     *)
(*                                                                         *)
(* Time passes in ticks; the bucket is measured in ticks too: a call costs *)
(* Period of them, one is refilled per tick.                               *)
(***************************************************************************)
EXTENDS Integers, Sequences, FiniteSets, SequencesExt, FiniteSetsExt

CONSTANTS
  Callers,
  Burst,        \* capacity of the bucket, in calls
  Period,       \* ticks between two calls at the limiter's rate
  Policies,     \* MaxAttempts of each candidate's RetryPolicy, in order
  Statuses,     \* HTTP statuses the providers fail with
  Causes,       \* and what else an attempt can fail of
  MaxCalls      \* bound: calls of all callers

ASSUME ResilienceAssumption ==
  /\ Burst \in Nat \ {0} /\ Period \in Nat \ {0}
  /\ Policies \in Seq(Nat) /\ Policies # <<>> /\ MaxCalls \in Nat
  /\ Statuses \subseteq 400..599
  /\ Causes \subseteq {"deadline", "refused", "undecodable", "other"}

VARIABLES
  tokens, elapsed,      \* the bucket at the last Wait, and the time since
  admitted,             \* how long ago the bucket admitted each call
  pc,                   \* where the call of each caller is
  candidate, attempt,   \* where it is in the chain, and in the retries
  wait,                 \* what is left of the time a throttled call sleeps
  ctx,                  \* the caller's context
  log,                  \* the attempts of the call with their outcomes
  failure,              \* why the last candidate failed
  calls

bucket == <<tokens, elapsed, admitted>>
call == <<pc, candidate, attempt, wait, ctx, log, failure>>
vars == <<bucket, call, calls>>

Full == Burst * Period

Init ==
  /\ tokens = Full /\ elapsed = 0 /\ admitted = <<>>
  /\ pc = [c \in Callers |-> "idle"]
  /\ candidate = [c \in Callers |-> 1]
  /\ attempt = [c \in Callers |-> 0]
  /\ wait = [c \in Callers |-> 0]
  /\ ctx = [c \in Callers |-> "live"]
  /\ log = [c \in Callers |-> <<>>]
  /\ failure = [c \in Callers |-> "none"]
  /\ calls = 0

-----------------------------------------------------------------------------
(* Errors.  A raw context error is "canceled" or "deadline"; the others    *)
(* but "other" are the kinds of a ModelError.                              *)

ClassifyHTTPStatus(status) ==
  CASE status \in {401, 403} -> "auth"
    [] status \in {408, 429} -> "rate_limited"
    [] status >= 500 -> "server_error"
    [] OTHER -> "invalid_request"

ClassifyTransportError(cause) ==
  CASE cause = "canceled" -> "canceled"
    [] cause = "deadline" -> "timeout"
    [] cause = "refused" -> "network"

(* Only ModelErrors are retried, and of them those a later attempt may not *)
(* meet.                                                                   *)
shouldRetry(kind) == kind \in {"rate_limited", "server_error", "timeout", "network"}

switchable(kind) == kind \notin {"invalid_request", "protocol"}

(* A provider classifies the transport and calls what it cannot decode a   *)
(* protocol failure; a model of another make returns what it likes.        *)
FailureOf(cause) ==
  CASE cause = "undecodable" -> "protocol"
    [] cause = "other" -> "other"
    [] OTHER -> ClassifyTransportError(cause)

(* What an attempt of c can fail with.  The attempt's own deadline can     *)
(* pass at any time; the caller's context reaches into the attempt.        *)
(* WithTimeout makes a timeout of every deadline, also of the caller's.    *)
AttemptFailures(c) ==
  {ClassifyHTTPStatus(s) : s \in Statuses}
    \cup {FailureOf(cause) : cause \in Causes \cup ({ctx[c]} \ {"live"})}

-----------------------------------------------------------------------------
(* Calls.                                                                  *)

Goto(c, location) == pc' = [pc EXCEPT ![c] = location]
CandidateFails(c, kind) ==
  Goto(c, "failed") /\ failure' = [failure EXCEPT ![c] = kind]

Begin(c) ==
  /\ pc[c] = "idle"
  /\ calls < MaxCalls
  /\ calls' = calls + 1
  /\ candidate' = [candidate EXCEPT ![c] = 1]
  /\ Goto(c, "candidate")
  /\ UNCHANGED <<bucket, attempt, wait, ctx, log, failure>>

ContextEnds(c) ==
  /\ pc[c] # "idle"
  /\ ctx[c] = "live"
  /\ \E how \in {"canceled", "deadline"} : ctx' = [ctx EXCEPT ![c] = how]
  /\ UNCHANGED <<bucket, pc, candidate, attempt, wait, log, failure, calls>>

(* Only the primary stands behind the limiter.                             *)
TryCandidate(c) ==
  /\ pc[c] = "candidate"
  /\ attempt' = [attempt EXCEPT ![c] = 1]
  /\ Goto(c, IF candidate[c] = 1 THEN "limiter" ELSE "check")
  /\ UNCHANGED <<bucket, candidate, wait, ctx, log, failure, calls>>

(* Variant: an idle bucket grows beyond its burst.                         *)
RefilledBeyond == tokens + elapsed

Refilled == Min({Full, tokens + elapsed})

(* Variant: the wait does not count what is in the bucket already.         *)
WaitFromEmpty(c) ==
  /\ pc[c] = "limiter"
  /\ elapsed' = 0
  /\ IF Refilled >= Period
       THEN /\ tokens' = Refilled - Period
            /\ admitted' = Append(admitted, 0)
            /\ Goto(c, "check")
            /\ UNCHANGED wait
       ELSE /\ tokens' = Refilled
            /\ wait' = [wait EXCEPT ![c] = Period]
            /\ Goto(c, "throttled")
            /\ UNCHANGED admitted
  /\ UNCHANGED <<candidate, attempt, ctx, log, failure, calls>>

(* One round of Wait, under the limiter's mutex: take a token, or learn    *)
(* how long the next one takes.  The context is not looked at.             *)
Wait(c) ==
  /\ pc[c] = "limiter"
  /\ elapsed' = 0
  /\ IF Refilled >= Period
       THEN /\ tokens' = Refilled - Period
            /\ admitted' = Append(admitted, 0)
            /\ Goto(c, "check")
            /\ UNCHANGED wait
       ELSE /\ tokens' = Refilled
            /\ wait' = [wait EXCEPT ![c] = Period - Refilled]
            /\ Goto(c, "throttled")
            /\ UNCHANGED admitted
  /\ UNCHANGED <<candidate, attempt, ctx, log, failure, calls>>

WaitOver(c) ==
  /\ pc[c] = "throttled"
  /\ wait[c] = 0
  /\ Goto(c, "limiter")
  /\ UNCHANGED <<bucket, candidate, attempt, wait, ctx, log, failure, calls>>

WaitAborted(c) ==
  /\ pc[c] = "throttled"
  /\ ctx[c] # "live"
  /\ CandidateFails(c, ctx[c])
  /\ wait' = [wait EXCEPT ![c] = 0]
  /\ UNCHANGED <<bucket, candidate, attempt, ctx, log, calls>>

(* Variant: the retry loop looks at the context before the first attempt.  *)
CheckFirst(c) ==
  /\ pc[c] = "check"
  /\ IF ctx[c] = "live" \/ attempt[c] > 1 THEN Goto(c, "start") /\ UNCHANGED failure
     ELSE CandidateFails(c, ctx[c])
  /\ UNCHANGED <<bucket, candidate, attempt, wait, ctx, log, calls>>

(* The retry loop looks at the context before every attempt ...            *)
Check(c) ==
  /\ pc[c] = "check"
  /\ IF ctx[c] = "live" THEN Goto(c, "start") /\ UNCHANGED failure
     ELSE CandidateFails(c, ctx[c])
  /\ UNCHANGED <<bucket, candidate, attempt, wait, ctx, log, calls>>

(* ... which may end before the attempt begins.                            *)
Start(c) ==
  /\ pc[c] = "start"
  /\ log' = [log EXCEPT ![c] =
       Append(@, [model |-> candidate[c], live |-> ctx[c] = "live", outcome |-> "none"])]
  /\ Goto(c, "attempt")
  /\ UNCHANGED <<bucket, candidate, attempt, wait, ctx, failure, calls>>

Ends(c, outcome) == log' = [log EXCEPT ![c][Len(log[c])].outcome = outcome]

AttemptSucceeds(c) ==
  /\ pc[c] = "attempt"
  /\ Ends(c, "ok")
  /\ Goto(c, "return")
  /\ failure' = [failure EXCEPT ![c] = "none"]
  /\ UNCHANGED <<bucket, candidate, attempt, wait, ctx, calls>>

Max1(n) == IF n <= 0 THEN 1 ELSE n

AttemptFails(c) ==
  /\ pc[c] = "attempt"
  /\ \E kind \in AttemptFailures(c) :
       /\ Ends(c, kind)
       /\ IF attempt[c] < Max1(Policies[candidate[c]]) /\ shouldRetry(kind)
            THEN Goto(c, "backoff") /\ UNCHANGED failure
            ELSE CandidateFails(c, kind)
  /\ UNCHANGED <<bucket, candidate, attempt, wait, ctx, calls>>

(* The backoff is over, whether or not the context is done as well.        *)
BackoffOver(c) ==
  /\ pc[c] = "backoff"
  /\ attempt' = [attempt EXCEPT ![c] = @ + 1]
  /\ Goto(c, "check")
  /\ UNCHANGED <<bucket, candidate, wait, ctx, log, failure, calls>>

BackoffAborted(c) ==
  /\ pc[c] = "backoff"
  /\ ctx[c] # "live"
  /\ CandidateFails(c, ctx[c])
  /\ UNCHANGED <<bucket, candidate, attempt, wait, ctx, log, calls>>

(* The chain goes on to the next candidate unless the context is done or   *)
(* another provider would fail the same way.                               *)
Fallback(c) ==
  /\ pc[c] = "failed"
  /\ IF ctx[c] # "live" \/ ~switchable(failure[c]) \/ candidate[c] = Len(Policies)
       THEN Goto(c, "return") /\ UNCHANGED candidate
       ELSE /\ candidate' = [candidate EXCEPT ![c] = @ + 1]
            /\ Goto(c, "candidate")
  /\ UNCHANGED <<bucket, attempt, wait, ctx, log, failure, calls>>

Return(c) ==
  /\ pc[c] = "return"
  /\ Goto(c, "idle")
  /\ ctx' = [ctx EXCEPT ![c] = "live"]
  /\ log' = [log EXCEPT ![c] = <<>>]
  /\ failure' = [failure EXCEPT ![c] = "none"]
  /\ attempt' = [attempt EXCEPT ![c] = 0]
  /\ candidate' = [candidate EXCEPT ![c] = 1]
  /\ UNCHANGED <<bucket, wait, calls>>

(* Time passes.  No more than a full bucket is gained, and admissions      *)
(* further back than that constrain nothing.                               *)
Horizon == Full + Period
Tick ==
  /\ elapsed' = Min({elapsed + 1, Horizon})
  /\ admitted' = [i \in DOMAIN admitted |-> Min({admitted[i] + 1, Horizon})]
  /\ wait' = [c \in Callers |-> IF wait[c] > 0 THEN wait[c] - 1 ELSE 0]
  /\ UNCHANGED <<tokens, pc, candidate, attempt, ctx, log, failure, calls>>

Step(c) ==
  \/ TryCandidate(c) \/ Wait(c) \/ WaitOver(c) \/ WaitAborted(c) \/ Check(c)
  \/ Start(c) \/ AttemptSucceeds(c) \/ AttemptFails(c) \/ BackoffOver(c)
  \/ BackoffAborted(c) \/ Fallback(c) \/ Return(c)

Next == Tick \/ \E c \in Callers : Begin(c) \/ ContextEnds(c) \/ Step(c)

Spec == Init /\ [][Next]_vars

-----------------------------------------------------------------------------
(* Properties.                                                             *)

(* In every stretch of time the bucket admits at most its burst and what   *)
(* the rate allows, however many callers wait, wake up together or were    *)
(* idle before.                                                            *)
BurstRespected ==
  /\ tokens \in 0..Full
  /\ \A i, j \in DOMAIN admitted :
       i <= j /\ admitted[i] < Horizon =>
         (j - i + 1 - Burst) * Period <= admitted[i] - admitted[j]

(* The attempts of a call follow the rules of its chain: a candidate is    *)
(* tried again only after a failure that may pass, within its policy, and  *)
(* the next one only after a failure another provider may not have; once   *)
(* the context is done at most the attempt already under way is made; and  *)
(* a call that gives up has a reason to.  Rejected credentials and errors  *)
(* of no known kind are among those another provider may not have, as in   *)
(* the code; docs/tutorial.en.md:592 lists neither.                        *)
Fatal == {"invalid_request", "protocol", "canceled"}
MayPass == {"rate_limited", "server_error", "timeout", "network"}

(* How often the model of attempt i of a log was tried by then.            *)
Tries(l, i) == Cardinality({j \in 1..i : l[j].model = l[i].model})

ChainFollowsRules ==
  \A c \in Callers :
    LET l == log[c]
        last == l[Len(l)]
        Retried(i) == l[i].outcome \in MayPass /\ Tries(l, i) < Policies[l[i].model]
    IN  /\ \A i \in 1..(Len(l) - 1) :
             /\ l[i].live /\ l[i].outcome \notin Fatal \cup {"ok"}
             /\ l[i + 1].model = IF Retried(i) THEN l[i].model ELSE l[i].model + 1
        /\ l # <<>> => l[1].model = 1 /\ last.model \in DOMAIN Policies
        /\ pc[c] = "return" =>
             \/ ctx[c] # "live"
             \/ l # <<>> /\ (last.outcome \in Fatal \cup {"ok"} \/ last.model = Len(Policies))

(* A throttled call never sleeps beyond the moment a token is there, also  *)
(* when others were admitted while it slept.                               *)
NoOversleeping ==
  \A c \in Callers : wait[c] > 0 => tokens + elapsed + wait[c] <= Period

(* The callers are interchangeable (for model checking).                   *)
CallerSymmetry == Permutations(Callers)
=============================================================================
