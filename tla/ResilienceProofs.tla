--------------------------- MODULE ResilienceProofs ---------------------------
(***************************************************************************)
(* Proofs about the model decorators: for any number of callers and calls, *)
(* every burst and rate of the bucket, every length of the chain and every *)
(* retry policy of each of its candidates.                                 *)
(***************************************************************************)
EXTENDS Resilience, SequenceTheorems, FiniteSetTheorems, TLAPS

(* What an attempt can fail with, and what it can end with.                *)
Kinds ==
  {"auth", "rate_limited", "server_error", "invalid_request", "canceled", "timeout",
   "network", "protocol", "other"}
Attempts ==
  [model : 1 .. Len(Policies), live : BOOLEAN, outcome : Kinds \cup {"none", "ok"}]

Locations ==
  {"idle", "candidate", "limiter", "throttled", "check", "start", "attempt", "backoff",
   "failed", "return"}

BucketType ==
  /\ tokens \in 0..Full /\ elapsed \in Nat /\ admitted \in Seq(Nat)
  /\ wait \in [Callers -> Nat]

CallType ==
  /\ pc \in [Callers -> Locations]
  /\ candidate \in [Callers -> 1 .. Len(Policies)]
  /\ attempt \in [Callers -> Nat]
  /\ ctx \in [Callers -> {"live", "canceled", "deadline"}]
  /\ log \in [Callers -> Seq(Attempts)]
  /\ failure \in [Callers -> Kinds \cup {"none", "deadline"}]

-----------------------------------------------------------------------------
(* The bucket.                                                             *)

Cost(k) == k * Period

(* What was taken from the bucket since an admission, that one included,   *)
(* and what is left came from a full bucket and the refill since.          *)
Conserved ==
  \A i \in DOMAIN admitted :
    admitted[i] < Horizon =>
      tokens + elapsed + Cost(Len(admitted) - i + 1) <= Full + admitted[i]

(* So did what was taken between two admissions.                           *)
Spaced ==
  \A i, j \in DOMAIN admitted :
    i <= j /\ admitted[i] < Horizon =>
      Cost(j - i + 1) <= Full + admitted[i] - admitted[j]

(* A call that still sleeps wakes up when the bucket holds a token.        *)
BucketInv == BucketType /\ Conserved /\ Spaced /\ NoOversleeping

-----------------------------------------------------------------------------
(* A call of the chain.                                                    *)

LastAttempt(c) == log[c][Len(log[c])]

(* The candidate of attempt i of a log is tried again after it.            *)
Again(l, i) == l[i].outcome \in MayPass /\ Tries(l, i) < Policies[l[i].model]

(* The model that follows a failed attempt of the log.                     *)
Following(l, i) == IF Again(l, i) THEN l[i].model ELSE l[i].model + 1

Passed(e) == e.outcome \notin Fatal \cup {"ok"}

(* All attempts but the last found the context live and failed in a way    *)
(* that allows the next one.                                               *)
Chained(c) ==
  \A i \in 1 .. (Len(log[c]) - 1) :
    /\ log[c][i].live /\ Passed(log[c][i])
    /\ log[c][i + 1].model = Following(log[c], i)

(* The attempts go through the chain in order.                             *)
Ordered(c) ==
  log[c] # <<>> =>
    /\ log[c][1].model = 1
    /\ \A j \in 1 .. Len(log[c]) : log[c][j].model <= LastAttempt(c).model

(* The context never comes back to life during a call, and it lived when   *)
(* the chain or the retry loop last let an attempt pass.                   *)
AllLive(c) == \A i \in 1 .. Len(log[c]) : log[c][i].live
StillLive(c) == ctx[c] = "live" \/ pc[c] \in {"candidate", "start"} => AllLive(c)

(* The next attempt would follow the last one.                             *)
MayFollow(c) ==
  IF log[c] = <<>> THEN candidate[c] = 1
  ELSE Passed(LastAttempt(c)) /\ candidate[c] = Following(log[c], Len(log[c]))

(* How often the candidate of a call was tried so far.                     *)
TriedSoFar(c) ==
  IF log[c] # <<>> /\ LastAttempt(c).model = candidate[c]
    THEN Tries(log[c], Len(log[c])) ELSE 0

Before == {"candidate", "limiter", "throttled", "check", "start"}

(* The retry loop counts the attempts of its candidate.                    *)
BeforeInv(c) ==
  pc[c] \in Before =>
    /\ MayFollow(c)
    /\ IF pc[c] = "candidate" THEN TriedSoFar(c) = 0
                              ELSE attempt[c] = TriedSoFar(c) + 1

AttemptInv(c) ==
  pc[c] \in {"attempt", "backoff"} =>
    /\ log[c] # <<>> /\ LastAttempt(c).model = candidate[c]
    /\ attempt[c] = Tries(log[c], Len(log[c]))
    /\ pc[c] = "backoff" => Again(log[c], Len(log[c]))

(* A candidate that failed while the context lives failed in an attempt    *)
(* which the policy does not repeat.                                       *)
FailedInv(c) ==
  pc[c] = "failed" /\ ctx[c] = "live" =>
    /\ log[c] # <<>> /\ LastAttempt(c).model = candidate[c]
    /\ LastAttempt(c).outcome = failure[c] /\ failure[c] \notin {"canceled", "ok"}
    /\ ~Again(log[c], Len(log[c]))

ReturnInv(c) ==
  pc[c] = "return" =>
    \/ ctx[c] # "live"
    \/ /\ log[c] # <<>>
       /\ \/ LastAttempt(c).outcome \in Fatal \cup {"ok"}
          \/ LastAttempt(c).model = Len(Policies)

IdleInv(c) == pc[c] = "idle" => log[c] = <<>> /\ ctx[c] = "live"

CallInv(c) ==
  /\ Chained(c) /\ Ordered(c) /\ StillLive(c)
  /\ BeforeInv(c) /\ AttemptInv(c) /\ FailedInv(c) /\ ReturnInv(c) /\ IdleInv(c)

ChainInv == CallType /\ \A c \in Callers : CallInv(c)

(* The inductive invariant.                                                *)
IInv == BucketInv /\ ChainInv

-----------------------------------------------------------------------------
LEMMA MinOfTwo ==
  ASSUME NEW a \in Int, NEW b \in Int
  PROVE  Min({a, b}) = IF a <= b THEN a ELSE b
BY DEF Min

LEMMA BucketSize == /\ Full \in Nat /\ Full >= Period /\ Period \in Nat \ {0}
                    /\ Horizon \in Nat /\ Horizon = Full + Period
<1>1. Burst \in Nat /\ Period \in Nat /\ Burst >= 1 /\ Period >= 1
  BY ResilienceAssumption
<1>2. Burst * Period \in Nat
  BY <1>1
<1>3. Burst * Period = (Burst - 1) * Period + Period
  BY <1>1
<1>4. (Burst - 1) * Period \in Nat
  BY <1>1
<1> HIDE DEF Full
<1>5. Full \in Nat /\ Full >= Period
  <2>1. Full = Burst * Period
    BY DEF Full
  <2> QED
    BY <1>1, <1>3, <1>4, <2>1
<1> QED
  BY <1>1, <1>5 DEF Horizon

LEMMA CostProperties ==
  /\ \A k \in Int : Cost(k) \in Int /\ Cost(k + 1) = Cost(k) + Period
  /\ Cost(1) = Period
<1>1. Period \in Nat
  BY ResilienceAssumption
<1> QED
  BY <1>1 DEF Cost

LEMMA CostDifference ==
  ASSUME NEW k \in Int, NEW l \in Int, l = k - Burst
  PROVE  l * Period = Cost(k) - Full
<1>1. Period \in Nat /\ Burst \in Nat
  BY ResilienceAssumption
<1> QED
  BY <1>1 DEF Cost, Full

LEMMA RefilledValue ==
  ASSUME BucketType
  PROVE  /\ Refilled = IF Full <= tokens + elapsed THEN Full ELSE tokens + elapsed
         /\ Refilled \in 0..Full /\ Refilled <= tokens + elapsed
<1>1. Full \in Nat /\ tokens \in Nat /\ elapsed \in Nat
  BY BucketSize DEF BucketType
<1> QED
  BY <1>1, MinOfTwo DEF Refilled

(* While time passes the bucket gains no more than the calls age.          *)
LEMMA TickBucket == BucketInv /\ Tick => BucketInv'
<1> SUFFICES ASSUME BucketInv, Tick PROVE BucketInv'
  OBVIOUS
<1> USE BucketSize
<1> HIDE DEF Full, Horizon
<1>1. tokens' = tokens /\ tokens \in 0..Full
  BY DEF Tick, BucketInv, BucketType
<1>2. elapsed \in Nat /\ elapsed' \in Nat /\ elapsed' <= elapsed + 1
  BY MinOfTwo, SMTT(30) DEF Tick, BucketInv, BucketType
<1>3. admitted \in Seq(Nat) /\ Len(admitted) \in Nat
  BY DEF BucketInv, BucketType
<1>4. /\ admitted' \in Seq(Nat) /\ Len(admitted') = Len(admitted)
      /\ DOMAIN admitted' = DOMAIN admitted
  <2>1. \A i \in DOMAIN admitted : Min({admitted[i] + 1, Horizon}) \in Nat
    BY <1>3, MinOfTwo
  <2>2. admitted' = [i \in 1 .. Len(admitted) |-> Min({admitted[i] + 1, Horizon})]
    BY <1>3 DEF Tick
  <2> QED
    BY <2>1, <2>2, <1>3
<1>5. \A i \in DOMAIN admitted :
        /\ admitted[i] \in Nat /\ admitted'[i] \in Nat
        /\ admitted'[i] <= admitted[i] + 1
        /\ admitted'[i] < Horizon => admitted'[i] = admitted[i] + 1
  <2>1. ASSUME NEW i \in DOMAIN admitted
        PROVE  admitted[i] \in Nat /\ admitted'[i] = Min({admitted[i] + 1, Horizon})
    BY <1>3, <2>1 DEF Tick
  <2>2. ASSUME NEW k \in Nat
        PROVE  LET m == Min({k + 1, Horizon})
               IN  m \in Nat /\ m <= k + 1 /\ (m < Horizon => m = k + 1)
    BY MinOfTwo
  <2> QED
    BY <2>1, <2>2
<1>6. /\ wait \in [Callers -> Nat] /\ wait' \in [Callers -> Nat]
      /\ \A c \in Callers : wait'[c] > 0 => wait[c] > 0 /\ wait'[c] = wait[c] - 1
  BY DEF Tick, BucketInv, BucketType
<1>7. BucketType'
  BY <1>1, <1>2, <1>4, <1>6 DEF BucketType, Full
<1>8. Conserved'
  <2> SUFFICES ASSUME NEW i \in DOMAIN admitted, admitted'[i] < Horizon
               PROVE  tokens' + elapsed' + Cost(Len(admitted') - i + 1)
                        <= Full + admitted'[i]
    BY <1>4 DEF Conserved, Horizon, Full
  <2>1. admitted[i] < Horizon /\ admitted[i] \in Nat /\ admitted'[i] = admitted[i] + 1
    BY <1>5
  <2>2. tokens + elapsed + Cost(Len(admitted) - i + 1) <= Full + admitted[i]
    BY <2>1 DEF BucketInv, Conserved
  <2>3. Cost(Len(admitted) - i + 1) \in Int
    <3>1. Len(admitted) - i + 1 \in Int
      BY <1>3
    <3> QED
      BY <3>1, CostProperties
  <2>4. Len(admitted') - i + 1 = Len(admitted) - i + 1
    BY <1>4
  <2> QED
    BY <1>1, <1>2, <2>1, <2>2, <2>3, <2>4, SMTT(30)
<1>9. Spaced'
  <2>1. ASSUME NEW i \in DOMAIN admitted, NEW j \in DOMAIN admitted, i <= j,
               admitted'[i] < Horizon
        PROVE  Cost(j - i + 1) <= Full + admitted'[i] - admitted'[j]
    <3>1. admitted[i] < Horizon /\ admitted'[i] = admitted[i] + 1
      BY <1>5, <2>1
    <3>2. Cost(j - i + 1) <= Full + admitted[i] - admitted[j]
      BY <2>1, <3>1 DEF BucketInv, Spaced
    <3>3. Cost(j - i + 1) \in Int
      <4>1. j - i + 1 \in Int
        BY <1>3
      <4> QED
        BY <4>1, CostProperties
    <3> QED
      BY <1>5, <3>1, <3>2, <3>3
  <2> QED
    BY <1>1, <1>4, <2>1 DEF Spaced, Horizon, Full
<1>10. NoOversleeping'
  <2> SUFFICES ASSUME NEW c \in Callers, wait'[c] > 0
               PROVE  tokens' + elapsed' + wait'[c] <= Period
    BY DEF NoOversleeping
  <2>1. tokens + elapsed + wait[c] <= Period
    BY <1>6 DEF BucketInv, NoOversleeping
  <2> QED
    BY <1>1, <1>2, <1>6, <2>1
<1> QED
  BY <1>7, <1>8, <1>9, <1>10 DEF BucketInv

(* Nobody sleeps while the bucket holds a token.                           *)
LEMMA AdmitBucket ==
  ASSUME BucketInv, NEW c \in Callers, Wait(c), Refilled >= Period
  PROVE  BucketInv'
<1> USE BucketSize
<1> HIDE DEF Full, Horizon
<1>1. BucketType
  BY DEF BucketInv
<1>2. /\ Refilled \in 0..Full /\ Refilled <= tokens + elapsed
      /\ tokens \in 0..Full /\ elapsed \in Nat
  BY <1>1, RefilledValue DEF BucketType
<1>3. tokens' = Refilled - Period /\ tokens' \in 0..Full /\ elapsed' = 0 /\ wait' = wait
  BY <1>2 DEF Wait
<1>4. admitted \in Seq(Nat) /\ admitted' = Append(admitted, 0)
  BY <1>1 DEF Wait, BucketType
<1> DEFINE n == Len(admitted)
<1>5. /\ admitted' \in Seq(Nat) /\ Len(admitted') = n + 1 /\ n \in Nat
      /\ DOMAIN admitted' = 1 .. (n + 1) /\ DOMAIN admitted = 1 .. n
      /\ admitted'[n + 1] = 0
      /\ \A i \in 1 .. n : admitted'[i] = admitted[i] /\ admitted[i] \in Nat
  BY <1>4
<1> HIDE DEF n
<1>6. BucketType'
  BY <1>1, <1>3, <1>5 DEF BucketType, Full
<1>7. ASSUME NEW i \in 1 .. (n + 1), admitted'[i] < Horizon
      PROVE  tokens' + Cost(n + 1 - i + 1) <= Full + admitted'[i]
  <2>1. CASE i = n + 1
    <3>1. n + 1 - i + 1 = 1 /\ Cost(n + 1 - i + 1) = Period
      BY <2>1, <1>5, CostProperties
    <3> QED
      BY <1>2, <1>3, <1>5, <2>1, <3>1
  <2>2. CASE i \in 1 .. n
    <3>1. tokens + elapsed + Cost(n - i + 1) <= Full + admitted[i]
      BY <1>5, <1>7, <2>2 DEF BucketInv, Conserved, n
    <3>2. n - i + 1 \in Int /\ n + 1 - i + 1 = (n - i + 1) + 1
      BY <1>5
    <3>3. /\ Cost(n + 1 - i + 1) = Cost(n - i + 1) + Period
          /\ Cost(n - i + 1) \in Int
      BY <3>2, CostProperties
    <3>4. /\ tokens \in Int /\ elapsed \in Int /\ Refilled \in Int /\ Period \in Int
          /\ tokens' = Refilled - Period /\ Refilled <= tokens + elapsed
          /\ admitted'[i] = admitted[i] /\ admitted[i] \in Int /\ Full \in Int
      BY <1>2, <1>3, <1>5, <2>2
    <3> QED
      BY <3>1, <3>3, <3>4
  <2> QED
    BY <1>5, <2>1, <2>2
<1>8. Conserved'
  <2> SUFFICES ASSUME NEW i \in 1 .. (n + 1), admitted'[i] < Horizon
               PROVE  tokens' + elapsed' + Cost(n + 1 - i + 1)
                        <= Full + admitted'[i]
    BY <1>5 DEF Conserved, Horizon, Full
  <2> QED
    BY <1>3, <1>7
<1>9. Spaced'
  <2>1. ASSUME NEW i \in 1 .. (n + 1), NEW j \in 1 .. (n + 1), i <= j,
               admitted'[i] < Horizon
        PROVE  Cost(j - i + 1) <= Full + admitted'[i] - admitted'[j]
    <3>1. CASE j \in 1 .. n
      <4>1. i \in 1 .. n
        BY <2>1, <3>1, <1>5
      <4> QED
        BY <1>5, <2>1, <3>1, <4>1 DEF BucketInv, Spaced
    <3>2. CASE j = n + 1
      <4>1. j - i + 1 \in Int /\ n + 1 - i + 1 = j - i + 1 /\ admitted'[i] \in Nat
        BY <3>2, <1>5
      <4>2. tokens' + Cost(j - i + 1) <= Full + admitted'[i]
        BY <1>7, <2>1, <4>1
      <4>3. Cost(j - i + 1) \in Int
        BY <4>1, CostProperties
      <4>4. admitted'[j] = 0
        BY <1>5, <3>2
      <4> QED
        BY <1>3, <4>1, <4>2, <4>3, <4>4
    <3> QED
      BY <1>5, <3>1, <3>2
  <2> QED
    BY <1>3, <1>5, <2>1 DEF Spaced, Horizon, Full
<1>10. NoOversleeping'
  <2> SUFFICES ASSUME NEW d \in Callers, wait[d] > 0 PROVE FALSE
    BY <1>3 DEF NoOversleeping
  <2>1. tokens + elapsed + wait[d] <= Period /\ wait[d] \in Nat
    BY <1>1 DEF BucketInv, NoOversleeping, BucketType
  <2> QED
    BY <1>2, <2>1
<1> QED
  BY <1>6, <1>8, <1>9, <1>10 DEF BucketInv

(* A throttled call is told how long the next token takes.                 *)
LEMMA ThrottleBucket ==
  ASSUME BucketInv, NEW c \in Callers, Wait(c), ~(Refilled >= Period)
  PROVE  BucketInv'
<1> USE BucketSize
<1> HIDE DEF Full, Horizon
<1>1. BucketType
  BY DEF BucketInv
<1>2. /\ tokens \in 0..Full /\ elapsed \in Nat /\ wait \in [Callers -> Nat]
      /\ admitted \in Seq(Nat) /\ Refilled \in 0..Full /\ Refilled = tokens + elapsed
  BY <1>1, RefilledValue DEF BucketType
<1>3. /\ tokens' = tokens + elapsed /\ tokens' \in 0..Full /\ elapsed' = 0
      /\ admitted' = admitted /\ wait' = [wait EXCEPT ![c] = Period - Refilled]
  BY <1>2 DEF Wait
<1>4. wait' \in [Callers -> Nat]
  BY <1>2, <1>3
<1>5. BucketType'
  BY <1>2, <1>3, <1>4 DEF BucketType, Full
<1>6. Conserved'
  <2>1. tokens' + elapsed' = tokens + elapsed
    BY <1>2, <1>3
  <2> QED
    BY <1>3, <2>1 DEF BucketInv, Conserved, Horizon, Full
<1>7. Spaced'
  BY <1>3 DEF BucketInv, Spaced, Horizon, Full
<1>8. NoOversleeping'
  BY <1>2, <1>3 DEF BucketInv, NoOversleeping
<1> QED
  BY <1>5, <1>6, <1>7, <1>8 DEF BucketInv

(* Every other step leaves the bucket alone; a call that is told to give   *)
(* up does not sleep on.                                                   *)
LEMMA BucketStep == BucketInv /\ [Next]_vars => BucketInv'
<1> SUFFICES ASSUME BucketInv, [Next]_vars PROVE BucketInv'
  OBVIOUS
<1>1. ASSUME UNCHANGED bucket, UNCHANGED wait PROVE BucketInv'
  BY <1>1 DEF BucketInv, BucketType, Conserved, Spaced, NoOversleeping, bucket, Full,
     Horizon
<1>2. ASSUME NEW c \in Callers, WaitAborted(c) PROVE BucketInv'
  <2>1. UNCHANGED bucket /\ wait' = [wait EXCEPT ![c] = 0]
    BY <1>2 DEF WaitAborted, Goto, CandidateFails
  <2>2. wait \in [Callers -> Nat]
    BY DEF BucketInv, BucketType
  <2>3. BucketType' /\ Conserved' /\ Spaced'
    BY <2>1, <2>2 DEF BucketInv, BucketType, Conserved, Spaced, bucket, Full, Horizon
  <2>4. NoOversleeping'
    BY <2>1, <2>2 DEF BucketInv, NoOversleeping, bucket
  <2> QED
    BY <2>3, <2>4 DEF BucketInv
<1>3. ASSUME NEW c \in Callers, Wait(c) PROVE BucketInv'
  BY <1>3, AdmitBucket, ThrottleBucket
<1>4. ASSUME NEW c \in Callers, Begin(c) \/ ContextEnds(c) \/ Step(c)
      PROVE  (UNCHANGED bucket /\ UNCHANGED wait) \/ WaitAborted(c) \/ Wait(c)
  BY <1>4 DEF Step, Begin, ContextEnds, TryCandidate, WaitOver, Check, Start,
     AttemptSucceeds, AttemptFails, BackoffOver, BackoffAborted, Fallback, Return
<1>5. CASE Tick
  BY <1>5, TickBucket
<1>6. CASE UNCHANGED vars
  BY <1>1, <1>6 DEF vars, call
<1> QED
  BY <1>1, <1>2, <1>3, <1>4, <1>5, <1>6 DEF Next

-----------------------------------------------------------------------------
(* The failures of an attempt: the caller's own cancellation shows as one  *)
(* only once it happened, and none is a success.                           *)
LEMMA FailureKinds ==
  ASSUME CallType, NEW c \in Callers, NEW kind \in AttemptFailures(c)
  PROVE  /\ kind \in Kinds
         /\ kind = "canceled" => ctx[c] # "live"
<1>1. ASSUME NEW s \in Int
      PROVE  ClassifyHTTPStatus(s)
               \in {"auth", "rate_limited", "server_error", "invalid_request"}
  BY DEF ClassifyHTTPStatus
<1>2. Statuses \subseteq Int /\ Causes \subseteq {"deadline", "refused", "undecodable", "other"}
  BY ResilienceAssumption
<1>3. CASE \E s \in Statuses : kind = ClassifyHTTPStatus(s)
  BY <1>1, <1>2, <1>3 DEF Kinds
<1>4. CASE \E cause \in Causes \cup ({ctx[c]} \ {"live"}) : kind = FailureOf(cause)
  <2>1. PICK cause \in Causes \cup ({ctx[c]} \ {"live"}) : kind = FailureOf(cause)
    BY <1>4
  <2>2. ctx[c] \in {"live", "canceled", "deadline"}
    BY DEF CallType
  <2>3. \/ cause = "deadline" \/ cause = "refused" \/ cause = "undecodable"
        \/ cause = "other" \/ (cause = "canceled" /\ ctx[c] # "live")
    BY <1>2, <2>1, <2>2
  <2> QED
    BY <2>1, <2>3 DEF FailureOf, ClassifyTransportError, Kinds
<1> QED
  BY <1>3, <1>4 DEF AttemptFailures

(* What the end of an attempt does to the log.                             *)
LEMMA EndsLog ==
  ASSUME CallType, NEW c \in Callers, log[c] # <<>>, NEW o \in Kinds \cup {"ok"},
         Ends(c, o)
  PROVE  /\ log' \in [Callers -> Seq(Attempts)]
         /\ \A d \in Callers : d # c => log'[d] = log[d]
         /\ Len(log'[c]) = Len(log[c]) /\ Len(log[c]) \in Nat \ {0}
         /\ \A i \in 1 .. (Len(log[c]) - 1) : log'[c][i] = log[c][i]
         /\ log'[c][Len(log[c])] = [LastAttempt(c) EXCEPT !.outcome = o]
<1> DEFINE n == Len(log[c])
           e == [LastAttempt(c) EXCEPT !.outcome = o]
<1>1. log[c] \in Seq(Attempts) /\ log \in [Callers -> Seq(Attempts)]
  BY DEF CallType
<1>2. n \in Nat \ {0} /\ DOMAIN log[c] = 1 .. n
  BY <1>1, EmptySeq
<1>3. LastAttempt(c) \in Attempts
  BY <1>1, <1>2, ElementOfSeq DEF LastAttempt
<1>4. e \in Attempts
  BY <1>3 DEF Attempts
<1>5. log' = [log EXCEPT ![c] = [log[c] EXCEPT ![n] = e]]
  BY DEF Ends, LastAttempt
<1> HIDE DEF e
<1>6. [log[c] EXCEPT ![n] = e] \in Seq(Attempts) /\ Len([log[c] EXCEPT ![n] = e]) = n
  BY <1>1, <1>2, <1>4, ExceptSeq
<1> QED
  BY <1>1, <1>2, <1>5, <1>6 DEF e

(* What the start of an attempt does to it.                                *)
LEMMA StartsLog ==
  ASSUME CallType, NEW c \in Callers, Start(c)
  PROVE  /\ log' \in [Callers -> Seq(Attempts)]
         /\ \A d \in Callers : d # c => log'[d] = log[d]
         /\ Len(log'[c]) = Len(log[c]) + 1 /\ Len(log[c]) \in Nat
         /\ \A i \in 1 .. Len(log[c]) : log'[c][i] = log[c][i]
         /\ log'[c][Len(log[c]) + 1].model = candidate[c]
         /\ log'[c][Len(log[c]) + 1].live <=> ctx[c] = "live"
<1> DEFINE e == [model |-> candidate[c], live |-> ctx[c] = "live", outcome |-> "none"]
<1>1. log[c] \in Seq(Attempts) /\ log \in [Callers -> Seq(Attempts)]
  BY DEF CallType
<1>2. (ctx[c] = "live") \in BOOLEAN
  OBVIOUS
<1>3. e \in Attempts
  BY <1>2 DEF Attempts, CallType
<1>4. log' = [log EXCEPT ![c] = Append(log[c], e)]
  BY DEF Start
<1>6. e.model = candidate[c]
  OBVIOUS
<1>7. e.live <=> ctx[c] = "live"
  BY Zenon
<1> HIDE DEF e
<1>5. /\ Append(log[c], e) \in Seq(Attempts)
      /\ Len(Append(log[c], e)) = Len(log[c]) + 1
      /\ \A i \in 1 .. Len(log[c]) : Append(log[c], e)[i] = log[c][i]
      /\ Append(log[c], e)[Len(log[c]) + 1] = e
      /\ Len(log[c]) \in Nat
  BY <1>1, <1>3, AppendProperties
<1> QED
  BY <1>1, <1>4, <1>5, <1>6, <1>7

-----------------------------------------------------------------------------
LEMMA ChainLength ==
  /\ Len(Policies) \in Nat \ {0} /\ DOMAIN Policies = 1 .. Len(Policies)
  /\ \A i \in 1 .. Len(Policies) : Policies[i] \in Nat
<1>1. Policies \in Seq(Nat) /\ Policies # <<>>
  BY ResilienceAssumption
<1> QED
  BY <1>1, EmptySeq, LenProperties, ElementOfSeq

(* How often a model was tried depends on the models alone, ...            *)
LEMMA TriesSame ==
  ASSUME NEW l, NEW m, NEW i \in Nat \ {0}, \A j \in 1..i : m[j].model = l[j].model
  PROVE  Tries(m, i) = Tries(l, i)
<1>1. {j \in 1..i : m[j].model = m[i].model} = {j \in 1..i : l[j].model = l[i].model}
  OBVIOUS
<1> QED
  BY <1>1 DEF Tries

LEMMA TriesType ==
  ASSUME NEW l, NEW i \in Nat \ {0}
  PROVE  Tries(l, i) \in Nat \ {0}
<1> DEFINE S == {j \in 1..i : l[j].model = l[i].model}
<1>1. S \subseteq 1..i /\ i \in S
  OBVIOUS
<1>2. IsFiniteSet(1..i)
  BY FS_Interval
<1>3. IsFiniteSet(S)
  BY <1>1, <1>2, FS_Subset
<1>4. Cardinality(S) \in Nat /\ (Cardinality(S) = 0 <=> S = {})
  BY <1>3, FS_CardinalityType, FS_EmptySet
<1> QED
  BY <1>1, <1>4 DEF Tries

(* ... and is one more for another attempt of the same, and one for a      *)
(* first attempt further down the chain.                                   *)
LEMMA TriesAppend ==
  ASSUME NEW l, NEW m, NEW n \in Nat,
         \A i \in 1 .. n : m[i] = l[i],
         \A i \in 1 .. n : l[i].model \in Int /\ l[i].model <= l[n].model,
         m[n + 1].model \in Int, n # 0 => l[n].model <= m[n + 1].model
  PROVE  Tries(m, n + 1)
           = IF n # 0 /\ l[n].model = m[n + 1].model THEN Tries(l, n) + 1 ELSE 1
<1> DEFINE S == {j \in 1 .. n : l[j].model = m[n + 1].model}
           R == {j \in 1 .. (n + 1) : m[j].model = m[n + 1].model}
<1>1. R = S \cup {n + 1}
  <2>1. \A j \in 1 .. (n + 1) : j \in 1 .. n \/ j = n + 1
    OBVIOUS
  <2>2. \A j \in 1 .. n : j \in 1 .. (n + 1) /\ m[j].model = l[j].model
    OBVIOUS
  <2>3. n + 1 \in 1 .. (n + 1)
    OBVIOUS
  <2> QED
    BY <2>1, <2>2, <2>3
<1>2. S \subseteq 1 .. n /\ n + 1 \notin S
  OBVIOUS
<1>3. IsFiniteSet(S)
  <2>1. IsFiniteSet(1 .. n)
    BY FS_Interval
  <2> QED
    BY <1>2, <2>1, FS_Subset
<1>4. Cardinality(R) = Cardinality(S) + 1
  BY <1>1, <1>2, <1>3, FS_AddElement
<1>5. Tries(m, n + 1) = Cardinality(S) + 1
  BY <1>4 DEF Tries
<1>6. CASE n # 0 /\ l[n].model = m[n + 1].model
  <2>1. S = {j \in 1 .. n : l[j].model = l[n].model}
    BY <1>6
  <2> QED
    BY <1>5, <1>6, <2>1 DEF Tries
<1>7. CASE ~(n # 0 /\ l[n].model = m[n + 1].model)
  <2>1. S = {}
    <3> SUFFICES ASSUME NEW j \in 1 .. n, l[j].model = m[n + 1].model PROVE FALSE
      OBVIOUS
    <3>1. n # 0 /\ l[j].model <= l[n].model /\ n \in 1 .. n
      OBVIOUS
    <3>2. l[n].model \in Int /\ l[n].model # m[n + 1].model
      BY <1>7, <3>1
    <3> QED
      BY <3>1, <3>2
  <2>2. Cardinality(S) = 0
    BY <2>1, FS_EmptySet
  <2> QED
    BY <1>5, <1>7, <2>2
<1> QED
  BY <1>6, <1>7

LEMMA FailureTyped ==
  ASSUME CallType, NEW c \in Callers, NEW kind \in Kinds \cup {"none", "deadline"},
         CandidateFails(c, kind)
  PROVE  /\ failure' \in [Callers -> Kinds \cup {"none", "deadline"}]
         /\ pc' \in [Callers -> Locations]
BY DEF CallType, CandidateFails, Goto, Locations

(* The calls keep their types.                                             *)
LEMMA CallTypeStep == ChainInv /\ [Next]_vars => CallType'
<1> SUFFICES ASSUME ChainInv, [Next]_vars PROVE CallType'
  OBVIOUS
<1> USE DEF Locations
<1>0. CallType
  BY DEF ChainInv
<1>1. CASE Tick
  BY <1>0, <1>1 DEF Tick, CallType
<1>2. ASSUME NEW c \in Callers, Start(c) PROVE CallType'
  BY <1>0, <1>2, StartsLog DEF Start, Goto, CallType
<1>3. ASSUME NEW c \in Callers, pc[c] = "attempt" PROVE log[c] # <<>>
  BY <1>3 DEF ChainInv, CallInv, AttemptInv
<1>4. ASSUME NEW c \in Callers, AttemptSucceeds(c) PROVE CallType'
  <2>1. log' \in [Callers -> Seq(Attempts)]
    BY <1>0, <1>3, <1>4, EndsLog DEF AttemptSucceeds
  <2> QED
    BY <1>0, <1>4, <2>1 DEF AttemptSucceeds, Goto, CallType
<1>5. ASSUME NEW c \in Callers, AttemptFails(c) PROVE CallType'
  <2>1. PICK kind \in AttemptFailures(c) :
          /\ Ends(c, kind)
          /\ \/ Goto(c, "backoff") /\ UNCHANGED failure
             \/ CandidateFails(c, kind)
    BY <1>5 DEF AttemptFails
  <2>2. kind \in Kinds
    BY <1>0, FailureKinds
  <2>3. log' \in [Callers -> Seq(Attempts)]
    BY <1>0, <1>3, <1>5, <2>1, <2>2, EndsLog DEF AttemptFails
  <2>4. /\ failure' \in [Callers -> Kinds \cup {"none", "deadline"}]
        /\ pc' \in [Callers -> Locations]
    <3>1. CASE Goto(c, "backoff") /\ UNCHANGED failure
      BY <1>0, <3>1 DEF Goto, CallType
    <3>2. CASE CandidateFails(c, kind)
      BY <1>0, <2>2, <3>2, FailureTyped
    <3> QED
      BY <2>1, <3>1, <3>2
  <2> QED
    BY <1>0, <1>5, <2>3, <2>4 DEF AttemptFails, CallType
<1>6. ASSUME NEW c \in Callers, Fallback(c) PROVE CallType'
  <2>1. candidate' \in [Callers -> 1 .. Len(Policies)]
    <3>1. /\ candidate[c] \in 1 .. Len(Policies)
          /\ candidate \in [Callers -> 1 .. Len(Policies)]
      BY <1>0 DEF CallType
    <3> QED
      BY <1>6, <3>1, ChainLength DEF Fallback
  <2> QED
    BY <1>0, <1>6, <2>1 DEF Fallback, Goto, CallType
<1>7. ASSUME NEW c \in Callers, Return(c) PROVE CallType'
  BY <1>0, <1>7, ChainLength DEF Return, Goto, CallType
<1>8. ASSUME NEW c \in Callers, Begin(c) PROVE CallType'
  BY <1>0, <1>8, ChainLength DEF Begin, Goto, CallType
<1>9. ASSUME NEW c \in Callers, ContextEnds(c) PROVE CallType'
  BY <1>0, <1>9 DEF ContextEnds, CallType
<1>10. ASSUME NEW c \in Callers, TryCandidate(c) PROVE CallType'
  BY <1>0, <1>10 DEF TryCandidate, Goto, CallType
<1>11. ASSUME NEW c \in Callers, Wait(c) PROVE CallType'
  BY <1>0, <1>11 DEF Wait, Goto, CallType
<1>12. ASSUME NEW c \in Callers, WaitOver(c) PROVE CallType'
  BY <1>0, <1>12 DEF WaitOver, Goto, CallType
<1>13. ASSUME NEW c \in Callers, WaitAborted(c) PROVE CallType'
  <2>1. ctx[c] \in {"live"} \cup Kinds \cup {"none", "deadline"}
    BY <1>0 DEF CallType, Kinds
  <2>2. ctx[c] # "live" => ctx[c] \in Kinds \cup {"none", "deadline"}
    BY <2>1
  <2> QED
    BY <1>0, <1>13, <2>2, FailureTyped DEF WaitAborted, Goto, CallType
<1>14. ASSUME NEW c \in Callers, Check(c) PROVE CallType'
  <2>1. ctx[c] \in {"live"} \cup Kinds \cup {"none", "deadline"}
    BY <1>0 DEF CallType, Kinds
  <2>2. ctx[c] # "live" => ctx[c] \in Kinds \cup {"none", "deadline"}
    BY <2>1
  <2> QED
    BY <1>0, <1>14, <2>2, FailureTyped DEF Check, Goto, CallType
<1>15. ASSUME NEW c \in Callers, BackoffOver(c) PROVE CallType'
  BY <1>0, <1>15 DEF BackoffOver, Goto, CallType
<1>16. ASSUME NEW c \in Callers, BackoffAborted(c) PROVE CallType'
  <2>1. ctx[c] \in {"live"} \cup Kinds \cup {"none", "deadline"}
    BY <1>0 DEF CallType, Kinds
  <2>2. ctx[c] # "live" => ctx[c] \in Kinds \cup {"none", "deadline"}
    BY <2>1
  <2> QED
    BY <1>0, <1>16, <2>2, FailureTyped DEF BackoffAborted, Goto, CallType
<1>17. CASE UNCHANGED vars
  BY <1>0, <1>17 DEF vars, call, CallType
<1> QED
  BY <1>1, <1>2, <1>4, <1>5, <1>6, <1>7, <1>8, <1>9, <1>10, <1>11, <1>12,
     <1>13, <1>14, <1>15, <1>16, <1>17 DEF Next, Step

(* What a step of one caller leaves alone it leaves true.                  *)
LEMMA OtherCalls ==
  ASSUME NEW c \in Callers, CallInv(c), pc'[c] = pc[c], candidate'[c] = candidate[c],
         attempt'[c] = attempt[c], ctx'[c] = ctx[c], log'[c] = log[c],
         failure'[c] = failure[c]
  PROVE  CallInv(c)'
BY DEF CallInv, Chained, Ordered, StillLive, BeforeInv, AttemptInv, FailedInv, ReturnInv,
   IdleInv, MayFollow, TriedSoFar, AllLive, LastAttempt

(* The predicates about the log alone.                                     *)
LEMMA SameLog ==
  ASSUME NEW c \in Callers, log'[c] = log[c]
  PROVE  /\ Chained(c)' <=> Chained(c)
         /\ Ordered(c)' <=> Ordered(c)
         /\ AllLive(c)' <=> AllLive(c)
         /\ LastAttempt(c)' = LastAttempt(c)
BY DEF Chained, Ordered, AllLive, LastAttempt

(* The last attempt of a call.                                             *)
LEMMA LastFacts ==
  ASSUME CallType, NEW c \in Callers
  PROVE  /\ Len(log[c]) \in Nat /\ (log[c] = <<>> <=> Len(log[c]) = 0)
         /\ \A i \in 1 .. Len(log[c]) : log[c][i] \in Attempts
         /\ log[c] # <<>> => /\ LastAttempt(c) \in Attempts
                             /\ Tries(log[c], Len(log[c])) \in Nat \ {0}
<1>1. log[c] \in Seq(Attempts)
  BY DEF CallType
<1>2. /\ Len(log[c]) \in Nat /\ (log[c] = <<>> <=> Len(log[c]) = 0)
      /\ \A i \in 1 .. Len(log[c]) : log[c][i] \in Attempts
  BY <1>1, EmptySeq, ElementOfSeq
<1>3. ASSUME log[c] # <<>>
      PROVE  LastAttempt(c) \in Attempts /\ Tries(log[c], Len(log[c])) \in Nat \ {0}
  <2>1. Len(log[c]) \in Nat \ {0}
    BY <1>2, <1>3
  <2> QED
    BY <1>2, <2>1, TriesType DEF LastAttempt
<1> QED
  BY <1>2, <1>3

(* A step that makes no attempt keeps the chain of the attempts.           *)
LEMMA QuietStep ==
  ASSUME ChainInv, NEW c \in Callers,
         \/ Begin(c) \/ ContextEnds(c) \/ TryCandidate(c) \/ Wait(c) \/ WaitOver(c)
         \/ WaitAborted(c) \/ Check(c) \/ BackoffOver(c) \/ BackoffAborted(c) \/ Fallback(c)
  PROVE  CallInv(c)'
<1>1. CallType /\ CallInv(c)
  BY DEF ChainInv
<1>2. log'[c] = log[c]
  BY DEF Begin, ContextEnds, TryCandidate, Wait, WaitOver, WaitAborted, Check,
     BackoffOver, BackoffAborted, Fallback
<1>3. /\ Chained(c)' /\ Ordered(c)' /\ (AllLive(c)' <=> AllLive(c))
      /\ LastAttempt(c)' = LastAttempt(c)
  BY <1>1, <1>2, SameLog DEF CallInv
<1>4. log[c] = <<>> => AllLive(c) /\ Len(log[c]) = 0
  BY DEF AllLive
<1>5. /\ Len(log[c]) \in Nat
      /\ log[c] # <<>> => /\ LastAttempt(c) \in Attempts
                          /\ Tries(log[c], Len(log[c])) \in Nat \ {0}
  BY <1>1, LastFacts
<1>6. /\ pc \in [Callers -> Locations] /\ candidate \in [Callers -> 1 .. Len(Policies)]
      /\ attempt \in [Callers -> Nat] /\ failure \in [Callers -> Kinds \cup {"none", "deadline"}]
      /\ ctx \in [Callers -> {"live", "canceled", "deadline"}]
  BY <1>1 DEF CallType
<1> USE DEF CallInv, StillLive, BeforeInv, AttemptInv, FailedInv, ReturnInv, IdleInv, Before, Goto,
   CandidateFails
<1> USE DEF MayFollow, TriedSoFar
<1> HIDE DEF LastAttempt, AllLive, Chained, Ordered, Again, Following, Tries
<1>7. CASE Begin(c)
  BY <1>1, <1>2, <1>3, <1>4, <1>5, <1>6, <1>7 DEF Begin
<1>8. CASE ContextEnds(c)
  BY <1>1, <1>2, <1>3, <1>4, <1>5, <1>6, <1>8 DEF ContextEnds
<1>9. CASE TryCandidate(c)
  BY <1>1, <1>2, <1>3, <1>4, <1>5, <1>6, <1>9 DEF TryCandidate
<1>10. CASE Wait(c)
  BY <1>1, <1>2, <1>3, <1>4, <1>5, <1>6, <1>10 DEF Wait
<1>11. CASE WaitOver(c)
  BY <1>1, <1>2, <1>3, <1>4, <1>5, <1>6, <1>11 DEF WaitOver
<1>12. CASE WaitAborted(c)
  BY <1>1, <1>2, <1>3, <1>4, <1>5, <1>6, <1>12 DEF WaitAborted
<1>13. CASE Check(c)
  BY <1>1, <1>2, <1>3, <1>4, <1>5, <1>6, <1>13 DEF Check
<1>14. CASE BackoffOver(c)
  <2>1. /\ pc[c] = "backoff" /\ pc'[c] = "check" /\ attempt'[c] = attempt[c] + 1
        /\ candidate' = candidate /\ ctx' = ctx
    BY <1>6, <1>14 DEF BackoffOver
  <2>2. /\ log[c] # <<>> /\ LastAttempt(c).model = candidate[c]
        /\ attempt[c] = Tries(log[c], Len(log[c])) /\ Again(log[c], Len(log[c]))
    BY <1>1, <2>1
  <2>3. Passed(LastAttempt(c)) /\ candidate[c] = Following(log[c], Len(log[c]))
    BY <2>2 DEF Again, Following, Passed, MayPass, Fatal, LastAttempt
  <2> QED
    BY <1>1, <1>2, <1>3, <2>1, <2>2, <2>3
<1>15. CASE BackoffAborted(c)
  BY <1>1, <1>2, <1>3, <1>4, <1>5, <1>6, <1>15 DEF BackoffAborted
<1>16. CASE Fallback(c) /\ (ctx[c] # "live" \/ ~switchable(failure[c])
                              \/ candidate[c] = Len(Policies))
  <2>1. pc[c] = "failed" /\ pc'[c] = "return" /\ candidate' = candidate /\ ctx' = ctx
    BY <1>6, <1>16 DEF Fallback
  <2> QED
    BY <1>1, <1>2, <1>3, <1>16, <2>1 DEF switchable, Fatal
<1>17. CASE Fallback(c) /\ ~(ctx[c] # "live" \/ ~switchable(failure[c])
                              \/ candidate[c] = Len(Policies))
  <2>1. /\ pc[c] = "failed" /\ pc'[c] = "candidate" /\ candidate'[c] = candidate[c] + 1
        /\ ctx' = ctx /\ ctx[c] = "live"
    BY <1>6, <1>17 DEF Fallback
  <2>2. /\ log[c] # <<>> /\ LastAttempt(c).model = candidate[c]
        /\ ~Again(log[c], Len(log[c]))
    BY <1>1, <2>1
  <2>3. candidate'[c] = Following(log[c], Len(log[c])) /\ candidate'[c] # candidate[c]
    BY <1>6, <2>1, <2>2 DEF Following, LastAttempt
  <2>4. Passed(LastAttempt(c))
    BY <1>1, <1>17, <2>1 DEF switchable, Fatal, Passed
  <2> QED
    BY <1>1, <1>2, <1>3, <1>4, <2>1, <2>2, <2>3, <2>4
<1> QED
  BY <1>7, <1>8, <1>9, <1>10, <1>11, <1>12, <1>13, <1>14, <1>15, <1>16, <1>17

(* An attempt is made only where the rules allow it.                       *)
LEMMA StartStep ==
  ASSUME ChainInv, NEW c \in Callers, Start(c)
  PROVE  CallInv(c)'
<1> DEFINE n == Len(log[c])
           l == log[c]
           m == log'[c]
<1>1. CallType /\ CallInv(c)
  BY DEF ChainInv
<1>2. pc[c] = "start" /\ pc'[c] = "attempt" /\ UNCHANGED <<candidate, attempt, ctx>>
  BY <1>1 DEF Start, Goto, CallType
<1>3. /\ n \in Nat /\ Len(m) = n + 1
      /\ \A i \in 1 .. n : m[i] = l[i]
      /\ m[n + 1].model = candidate[c]
      /\ m[n + 1].live <=> ctx[c] = "live"
  BY <1>1, StartsLog
<1>4. m # <<>>
  BY <1>3
<1>5. AllLive(c) /\ MayFollow(c) /\ attempt[c] = TriedSoFar(c) + 1
  BY <1>1, <1>2 DEF CallInv, StillLive, BeforeInv, Before
<1>6. /\ n = 0 <=> l = <<>>
      /\ \A i \in 1 .. n : l[i].model \in Int
      /\ candidate[c] \in Nat
  <2>1. (n = 0 <=> l = <<>>) /\ \A i \in 1 .. n : l[i] \in Attempts
    BY <1>1, LastFacts
  <2> QED
    BY <1>1, <2>1, ChainLength DEF Attempts, CallType
<1>7. LastAttempt(c) = l[n] /\ LastAttempt(c)' = m[n + 1]
  BY <1>3 DEF LastAttempt
<1> HIDE DEF n, l, m
<1>8. n # 0 => /\ \A j \in 1 .. n : l[j].model <= l[n].model
               /\ l[1].model = 1 /\ Passed(l[n]) /\ candidate[c] = Following(l, n)
               /\ l[n].model <= candidate[c]
  <2>1. ASSUME n # 0
        PROVE  /\ \A j \in 1 .. n : l[j].model <= l[n].model
               /\ l[1].model = 1 /\ Passed(l[n]) /\ candidate[c] = Following(l, n)
    BY <1>1, <1>5, <1>6, <1>7, <2>1 DEF CallInv, Ordered, MayFollow, n, l
  <2>2. n # 0 => l[n].model \in Int
    BY <1>3, <1>6
  <2> QED
    BY <2>1, <2>2 DEF Following
<1>9. n = 0 => candidate[c] = 1
  BY <1>5, <1>6 DEF MayFollow, l
<1>10. Tries(m, n + 1)
         = IF n # 0 /\ l[n].model = m[n + 1].model THEN Tries(l, n) + 1 ELSE 1
  <2>1. \A i \in 1 .. n : l[i].model \in Int /\ l[i].model <= l[n].model
    BY <1>3, <1>6, <1>8
  <2>2. m[n + 1].model \in Int /\ (n # 0 => l[n].model <= m[n + 1].model)
    BY <1>3, <1>6, <1>8
  <2> QED
    BY <1>3, <2>1, <2>2, TriesAppend
<1>11. attempt[c] = Tries(m, n + 1)
  BY <1>3, <1>5, <1>6, <1>7, <1>10 DEF TriedSoFar, l, n
<1>12. ASSUME NEW i \in 1 .. n PROVE Following(m, i) = Following(l, i)
  <2>1. Tries(m, i) = Tries(l, i)
    <3>1. i \in Nat \ {0} /\ \A j \in 1 .. i : m[j].model = l[j].model
      BY <1>3
    <3> QED
      BY <3>1, TriesSame
  <2> QED
    BY <1>3, <2>1 DEF Following, Again
<1>13. Chained(c)'
  <2> SUFFICES ASSUME NEW i \in 1 .. n
               PROVE  m[i].live /\ Passed(m[i]) /\ m[i + 1].model = Following(m, i)
    BY <1>3 DEF Chained, m
  <2>1. m[i] = l[i] /\ l[i].live
    BY <1>3, <1>5 DEF AllLive, n, l
  <2>2. CASE i = n
    <3>1. n # 0
      BY <1>3, <2>2
    <3> QED
      BY <1>3, <1>8, <1>12, <2>1, <2>2, <3>1
  <2>3. CASE i < n
    <3>1. i \in 1 .. (n - 1) /\ i + 1 \in 1 .. n
      BY <1>3, <2>3
    <3>2. Passed(l[i]) /\ l[i + 1].model = Following(l, i)
      BY <1>1, <3>1 DEF CallInv, Chained, n, l
    <3> QED
      BY <1>3, <1>12, <2>1, <3>1, <3>2
  <2> QED
    BY <1>3, <2>2, <2>3
<1>14. Ordered(c)'
  <2>1. m[1].model = 1
    BY <1>3, <1>8, <1>9
  <2>2. ASSUME NEW j \in 1 .. (n + 1) PROVE m[j].model <= m[n + 1].model
    <3>1. CASE j = n + 1
      BY <1>3, <1>6, <3>1
    <3>2. CASE j \in 1 .. n
      BY <1>3, <1>6, <1>8, <3>2
    <3> QED
      BY <1>3, <3>1, <3>2
  <2> QED
    BY <1>3, <1>7, <2>1, <2>2 DEF Ordered, m
<1>15. StillLive(c)'
  <2> SUFFICES ASSUME ctx[c] = "live", NEW i \in 1 .. (n + 1) PROVE m[i].live
    BY <1>2, <1>3 DEF StillLive, AllLive, m
  <2>1. CASE i = n + 1
    BY <1>3, <2>1
  <2>2. CASE i \in 1 .. n
    BY <1>3, <1>5, <2>2 DEF AllLive, n, l
  <2> QED
    BY <1>3, <2>1, <2>2
<1>16. AttemptInv(c)'
  BY <1>2, <1>3, <1>4, <1>7, <1>11 DEF AttemptInv, m
<1> QED
  BY <1>2, <1>13, <1>14, <1>15, <1>16
     DEF CallInv, BeforeInv, Before, FailedInv, ReturnInv, IdleInv

(* The end of an attempt keeps all but its outcome.                        *)
LEMMA EndsChain ==
  ASSUME ChainInv, NEW c \in Callers, log[c] # <<>>, NEW o \in Kinds \cup {"ok"},
         Ends(c, o)
  PROVE  /\ Chained(c)' /\ Ordered(c)' /\ (AllLive(c) => AllLive(c)')
         /\ log'[c] # <<>> /\ Len(log'[c]) = Len(log[c])
         /\ LastAttempt(c)'.outcome = o
         /\ LastAttempt(c)'.model = LastAttempt(c).model
         /\ Tries(log'[c], Len(log'[c])) = Tries(log[c], Len(log[c]))
<1> DEFINE n == Len(log[c])
<1>1. CallType /\ CallInv(c)
  BY DEF ChainInv
<1>2. log[c] \in Seq(Attempts)
  BY <1>1 DEF CallType
<1>3. /\ n \in Nat \ {0} /\ Len(log'[c]) = n
      /\ \A i \in 1 .. (n - 1) : log'[c][i] = log[c][i]
      /\ log'[c][n] = [log[c][n] EXCEPT !.outcome = o]
  BY <1>1, EndsLog DEF LastAttempt
<1>4. log[c][n] \in Attempts
  BY <1>2, <1>3, ElementOfSeq
<1>5. /\ log'[c][n].model = log[c][n].model /\ log'[c][n].live = log[c][n].live
      /\ log'[c][n].outcome = o
  BY <1>3, <1>4 DEF Attempts
<1>6. Chained(c)
  BY <1>1 DEF CallInv
<1>10. \A i \in 1 .. n : log'[c][i].model = log[c][i].model
  <2>1. \A i \in 1 .. n : i = n \/ i \in 1 .. (n - 1)
    BY <1>3
  <2> QED
    BY <1>3, <1>5, <2>1
<1>11. ASSUME NEW i \in 1 .. n PROVE Tries(log'[c], i) = Tries(log[c], i)
  <2>1. i \in Nat \ {0} /\ \A k \in 1 .. i : log'[c][k].model = log[c][k].model
    BY <1>3, <1>10
  <2> QED
    BY <2>1, TriesSame
<1>7. Chained(c)'
  <2> SUFFICES ASSUME NEW i \in 1 .. (n - 1)
               PROVE  /\ log'[c][i].live /\ Passed(log'[c][i])
                      /\ log'[c][i + 1].model = Following(log'[c], i)
    BY <1>3 DEF Chained
  <2>1. log'[c][i] = log[c][i] /\ i \in 1 .. n /\ i + 1 \in 1 .. n
    BY <1>3
  <2>2. Following(log'[c], i) = Following(log[c], i)
    BY <1>11, <2>1 DEF Following, Again
  <2>3. /\ log[c][i].live /\ Passed(log[c][i])
        /\ log[c][i + 1].model = Following(log[c], i)
    BY <1>6 DEF Chained
  <2> QED
    BY <1>10, <2>1, <2>2, <2>3
<1>12. Ordered(c)'
  <2>1. log[c][1].model = 1 /\ \A k \in 1 .. n : log[c][k].model <= log[c][n].model
    BY <1>1 DEF CallInv, Ordered, LastAttempt
  <2> QED
    BY <1>3, <1>10, <2>1 DEF Ordered, LastAttempt
<1>8. AllLive(c) => AllLive(c)'
  <2> SUFFICES ASSUME AllLive(c), NEW i \in 1 .. n PROVE log'[c][i].live
    BY <1>3 DEF AllLive
  <2>1. log[c][i].live
    BY DEF AllLive
  <2>2. i = n \/ i \in 1 .. (n - 1)
    BY <1>3
  <2> QED
    BY <1>3, <1>5, <2>1, <2>2
<1>9. log'[c] # <<>>
  BY <1>3
<1> QED
  BY <1>3, <1>5, <1>7, <1>8, <1>9, <1>11, <1>12 DEF LastAttempt

(* A failed attempt is repeated only as the policy says.                   *)
LEMMA AttemptFailsStep ==
  ASSUME ChainInv, NEW c \in Callers, AttemptFails(c)
  PROVE  CallInv(c)'
<1> DEFINE policy == Policies[candidate[c]]
           tries == Tries(log[c], Len(log[c]))
<1>1. CallType /\ CallInv(c)
  BY DEF ChainInv
<1>2. pc[c] = "attempt" /\ UNCHANGED <<candidate, attempt, ctx>>
  BY DEF AttemptFails
<1>3. log[c] # <<>> /\ LastAttempt(c).model = candidate[c] /\ attempt[c] = tries
  BY <1>1, <1>2 DEF CallInv, AttemptInv
<1>4. PICK kind \in AttemptFailures(c) :
        /\ Ends(c, kind)
        /\ IF attempt[c] < Max1(policy) /\ shouldRetry(kind)
             THEN Goto(c, "backoff") /\ UNCHANGED failure
             ELSE CandidateFails(c, kind)
  BY DEF AttemptFails
<1>5. kind \in Kinds /\ (kind = "canceled" => ctx[c] # "live")
  BY <1>1, FailureKinds
<1>6. /\ Chained(c)' /\ Ordered(c)' /\ (AllLive(c) => AllLive(c)')
      /\ log'[c] # <<>> /\ LastAttempt(c)'.outcome = kind
      /\ LastAttempt(c)'.model = candidate[c]
      /\ Tries(log'[c], Len(log'[c])) = tries
  BY <1>3, <1>4, <1>5, EndsChain
<1>7. policy \in Nat /\ tries \in Nat \ {0}
  BY <1>1, <1>3, LastFacts, ChainLength DEF CallType
<1> HIDE DEF policy, tries
<1>8. attempt[c] < Max1(policy) /\ shouldRetry(kind) <=> kind \in MayPass /\ tries < policy
  <2>1. attempt[c] < Max1(policy) <=> tries < policy
    BY <1>3, <1>7 DEF Max1
  <2>2. shouldRetry(kind) <=> kind \in MayPass
    BY DEF shouldRetry, MayPass
  <2> QED
    BY <2>1, <2>2
<1>10. Again(log'[c], Len(log'[c])) <=> kind \in MayPass /\ tries < policy
  BY <1>6 DEF Again, LastAttempt, policy
<1>11. pc \in [Callers -> Locations] /\ failure \in [Callers -> Kinds \cup {"none", "deadline"}]
  BY <1>1 DEF CallType
<1>12. StillLive(c)'
  <2>1. pc'[c] \in {"backoff", "failed"}
    BY <1>4, <1>11 DEF Goto, CandidateFails
  <2> QED
    BY <1>1, <1>2, <1>6, <2>1 DEF StillLive, CallInv
<1>13. CASE attempt[c] < Max1(policy) /\ shouldRetry(kind)
  <2>1. pc'[c] = "backoff"
    BY <1>4, <1>11, <1>13 DEF Goto
  <2>2. AttemptInv(c)'
    BY <1>2, <1>3, <1>6, <1>8, <1>10, <1>13, <2>1 DEF AttemptInv
  <2> QED
    BY <1>6, <1>12, <2>1, <2>2
       DEF CallInv, BeforeInv, Before, FailedInv, ReturnInv, IdleInv
<1>14. CASE ~(attempt[c] < Max1(policy) /\ shouldRetry(kind))
  <2>1. pc'[c] = "failed" /\ failure'[c] = kind
    BY <1>4, <1>11, <1>14 DEF Goto, CandidateFails
  <2>2. FailedInv(c)'
    BY <1>2, <1>5, <1>6, <1>8, <1>10, <1>14, <2>1 DEF FailedInv, Kinds
  <2> QED
    BY <1>6, <1>12, <2>1, <2>2
       DEF CallInv, BeforeInv, Before, AttemptInv, ReturnInv, IdleInv
<1> QED
  BY <1>13, <1>14

LEMMA AttemptSucceedsStep ==
  ASSUME ChainInv, NEW c \in Callers, AttemptSucceeds(c)
  PROVE  CallInv(c)'
<1>1. CallType /\ CallInv(c)
  BY DEF ChainInv
<1>2. /\ pc[c] = "attempt" /\ pc'[c] = "return" /\ UNCHANGED <<candidate, attempt, ctx>>
      /\ Ends(c, "ok")
  BY <1>1 DEF AttemptSucceeds, Goto, CallType
<1>3. log[c] # <<>>
  BY <1>1, <1>2 DEF CallInv, AttemptInv
<1>4. /\ Chained(c)' /\ Ordered(c)' /\ (AllLive(c) => AllLive(c)')
      /\ log'[c] # <<>> /\ LastAttempt(c)'.outcome = "ok"
  BY <1>2, <1>3, EndsChain
<1> QED
  BY <1>1, <1>2, <1>4
     DEF CallInv, StillLive, BeforeInv, Before, AttemptInv, FailedInv, ReturnInv, IdleInv, Fatal

LEMMA ReturnStep ==
  ASSUME ChainInv, NEW c \in Callers, Return(c)
  PROVE  CallInv(c)'
<1>1. pc'[c] = "idle" /\ ctx'[c] = "live" /\ log'[c] = <<>>
  BY DEF ChainInv, CallType, Return, Goto
<1>2. Chained(c)' /\ Ordered(c)' /\ AllLive(c)'
  BY <1>1 DEF Chained, Ordered, AllLive
<1> QED
  BY <1>1, <1>2
     DEF CallInv, StillLive, BeforeInv, Before, AttemptInv, FailedInv, ReturnInv, IdleInv

LEMMA ChainStep == ChainInv /\ [Next]_vars => ChainInv'
<1> SUFFICES ASSUME ChainInv, [Next]_vars PROVE ChainInv'
  OBVIOUS
<1>1. CallType'
  BY CallTypeStep
<1>2. ASSUME NEW c \in Callers, Begin(c) \/ ContextEnds(c) \/ Step(c),
             NEW d \in Callers
      PROVE  CallInv(d)'
  <2>1. CASE d = c
    BY <1>2, <2>1, QuietStep, StartStep, AttemptFailsStep, AttemptSucceedsStep, ReturnStep
       DEF Step
  <2>2. CASE d # c
    <3>1. CallType
      BY DEF ChainInv
    <3>2. /\ pc'[d] = pc[d] /\ candidate'[d] = candidate[d] /\ attempt'[d] = attempt[d]
          /\ ctx'[d] = ctx[d] /\ failure'[d] = failure[d] /\ log'[d] = log[d]
      BY <1>2, <2>2, <3>1
         DEF CallType, Step, Begin, ContextEnds, TryCandidate, Wait, WaitOver, WaitAborted,
             Check, Start, AttemptSucceeds, AttemptFails, BackoffOver, BackoffAborted,
             Fallback, Return, Goto, CandidateFails, Ends
    <3> QED
      BY <3>2, OtherCalls DEF ChainInv
  <2> QED
    BY <2>1, <2>2
<1>3. CASE Tick \/ UNCHANGED vars
  <2>1. UNCHANGED <<pc, candidate, attempt, ctx, log, failure>>
    BY <1>3 DEF Tick, vars, call
  <2> QED
    BY <1>1, <2>1, OtherCalls DEF ChainInv
<1> QED
  BY <1>1, <1>2, <1>3 DEF Next, ChainInv

LEMMA InitIInv == Init => IInv
<1> SUFFICES ASSUME Init PROVE IInv
  OBVIOUS
<1>1. BucketInv
  <2>1. BucketType /\ admitted = <<>>
    BY BucketSize DEF Init, BucketType
  <2>2. Conserved /\ Spaced /\ NoOversleeping
    BY <2>1 DEF Conserved, Spaced, NoOversleeping, Init
  <2> QED
    BY <2>1, <2>2 DEF BucketInv
<1>2. CallType
  BY ChainLength DEF Init, CallType, Locations
<1>3. ASSUME NEW c \in Callers PROVE CallInv(c)
  BY DEF Init, CallInv, Chained, Ordered, StillLive, AllLive, BeforeInv, Before, AttemptInv,
     FailedInv, ReturnInv, IdleInv
<1> QED
  BY <1>1, <1>2, <1>3 DEF IInv, ChainInv

(* The inductive invariant holds of every state of every run.              *)
THEOREM Invariance == Spec => []IInv
<1>1. IInv /\ [Next]_vars => IInv'
  BY BucketStep, ChainStep DEF IInv
<1> QED
  BY InitIInv, <1>1, PTL DEF Spec

-----------------------------------------------------------------------------
(* In every stretch of time the bucket admits at most its burst and what   *)
(* the rate allows: RateLimiter.Wait in src/model/ratelimit.go.            *)
THEOREM BurstRespectedHolds == Spec => []BurstRespected
<1>1. IInv => BurstRespected
  <2> SUFFICES ASSUME IInv PROVE BurstRespected
    OBVIOUS
  <2>1. tokens \in 0..Full /\ admitted \in Seq(Nat)
    BY DEF IInv, BucketInv, BucketType
  <2>2. ASSUME NEW i \in DOMAIN admitted, NEW j \in DOMAIN admitted, i <= j,
               admitted[i] < Horizon
        PROVE  (j - i + 1 - Burst) * Period <= admitted[i] - admitted[j]
    <3>1. /\ i \in Int /\ j \in Int /\ j - i + 1 \in Int
          /\ admitted[i] \in Nat /\ admitted[j] \in Nat
      BY <2>1
    <3>2. Cost(j - i + 1) <= Full + admitted[i] - admitted[j] /\ Cost(j - i + 1) \in Int
      BY <2>2, <3>1, CostProperties DEF IInv, BucketInv, Spaced
    <3>3. (j - i + 1 - Burst) * Period = Cost(j - i + 1) - Full
      <4>1. j - i + 1 - Burst \in Int
        BY <3>1, ResilienceAssumption
      <4> DEFINE k == j - i + 1
                 l == j - i + 1 - Burst
      <4>2. k \in Int /\ l \in Int /\ l = k - Burst
        <5>1. Burst \in Int
          BY ResilienceAssumption
        <5> QED
          BY <3>1, <4>1, <5>1
      <4> HIDE DEF k, l
      <4>3. l * Period = Cost(k) - Full
        BY <4>2, CostDifference
      <4> QED
        BY <4>3, Zenon DEF k, l
    <3>4. Full \in Int
      BY BucketSize
    <3> QED
      BY <3>1, <3>2, <3>3, <3>4
  <2> QED
    BY <2>1, <2>2 DEF BurstRespected
<1> QED
  BY Invariance, <1>1, PTL

(* A throttled call never sleeps beyond the moment a token is there, also  *)
(* when others were admitted while it slept: RateLimiter.Wait in           *)
(* src/model/ratelimit.go.                                                 *)
THEOREM NoOversleepingHolds == Spec => []NoOversleeping
<1>1. IInv => NoOversleeping
  BY DEF IInv, BucketInv
<1> QED
  BY Invariance, <1>1, PTL

(* The attempts of a call follow the rules of its chain, whatever its      *)
(* length and the policies of its candidates, and whatever an attempt can  *)
(* fail with: the loops of src/model/retry.go and src/model/fallback.go.   *)
THEOREM ChainFollowsRulesHolds == Spec => []ChainFollowsRules
<1>1. IInv => ChainFollowsRules
  <2> SUFFICES ASSUME IInv, NEW c \in Callers
               PROVE  /\ \A i \in 1 .. (Len(log[c]) - 1) :
                           /\ log[c][i].live /\ log[c][i].outcome \notin Fatal \cup {"ok"}
                           /\ log[c][i + 1].model = Following(log[c], i)
                      /\ log[c] # <<>> => /\ log[c][1].model = 1
                                          /\ LastAttempt(c).model \in DOMAIN Policies
                      /\ pc[c] = "return" =>
                           \/ ctx[c] # "live"
                           \/ /\ log[c] # <<>>
                              /\ \/ LastAttempt(c).outcome \in Fatal \cup {"ok"}
                                 \/ LastAttempt(c).model = Len(Policies)
    BY DEF ChainFollowsRules, LastAttempt, Following, Again
  <2>1. CallType /\ CallInv(c)
    BY DEF IInv, ChainInv
  <2>2. log[c] # <<>> => LastAttempt(c).model \in DOMAIN Policies
    BY <2>1, LastFacts, ChainLength DEF Attempts
  <2> QED
    BY <2>1, <2>2 DEF CallInv, Chained, Ordered, Passed, ReturnInv
<1> QED
  BY Invariance, <1>1, PTL
=============================================================================
