---------------------------- MODULE QuotesProofs ----------------------------
(***************************************************************************)
(* Proofs about Quotes, for any number of checkouts.                       *)
(*                                                                         *)
(* The rate: the bucket still holds all that was sent since any moment, but *)
(* for what has leaked in the ticks since (BucketRemembers).               *)
(*                                                                         *)
(* The time: a checkout waits at the limiter while the bucket is full.  Each *)
(* tick of it makes room that somebody else must take before the next, and *)
(* while the bucket is full that request has been sent already (Full); what *)
(* the checkout itself has put there has leaked during its attempt, or the *)
(* attempt has left a tick unused.                                         *)
(***************************************************************************)
EXTENDS Quotes, FiniteSetTheorems, TLAPS

BucketRemembers ==
    /\ level <= Len(sends)
    /\ \A i \in DOMAIN sends : Len(sends) - i + 1 <= level + now - sends[i]
    /\ level = RATE => \E i \in DOMAIN sends : sends[i] = now

\* The time a checkout has waited, and what its attempts allow it.
Waited(r) == now - begun[r]
Share == MaxAttempt + MAX_DELAY
Meanwhile(r) == Cardinality(SentSince(r))
Allowed(r) == attempts[r] * Share + Meanwhile(r) - attempts[r]
Full == IF level = RATE THEN 1 ELSE 0

TimeIsAllowed(r) ==
    /\ IF At(r, "start") THEN attempts[r] = 0 ELSE begun[r] <= now
    /\ At(r, "waiting") => attempts[r] < RETRY_COUNT /\ Waited(r) + Full <= Allowed(r)
    /\ At(r, "sending") =>
         /\ timer[r] <= MaxAttempt
         /\ Waited(r) + timer[r] <= Allowed(r) - MAX_DELAY
         /\ timer[r] < MaxAttempt => Waited(r) + timer[r] + Full <= Allowed(r) - MAX_DELAY
    /\ At(r, "delaying") =>
         attempts[r] < RETRY_COUNT /\ Waited(r) + timer[r] + Full <= Allowed(r)
    /\ At(r, "collecting") =>
         Waited(r) <= Allowed(r) - MAX_DELAY \/ Waited(r) <= QUOTE_BUDGET
    /\ protection[r] = "running" => pc[r] # "start" /\ Waited(r) + budget[r] = QUOTE_BUDGET

IInv == TypeOK /\ BucketRemembers /\ RateIsKept /\ \A r \in Calls : TimeIsAllowed(r)

\* The steps of one checkout, and what they leave alone.
CallStep(r) ==
    Begin(r) \/ calculate(r) \/ ProtectionEnds(r) \/ BudgetRunsOut(r) \/ CollectProtection(r)

Untouched(r) ==
    /\ pc'[r] = pc[r] /\ begun'[r] = begun[r] /\ attempts'[r] = attempts[r]
    /\ timer'[r] = timer[r] /\ protection'[r] = protection[r] /\ budget'[r] = budget[r]

Quiet == UNCHANGED limiter
Request == sends' = Append(sends, now) /\ level' = level + 1 /\ level < RATE

\* A delay is one of those up to the longest.
LEMMA DelaysAreBounded ==
    ASSUME NEW n, NEW d \in Delays(n)
    PROVE  d \in Nat /\ d <= MAX_DELAY
<1>1. d \in 0 .. MAX_DELAY
  BY Zenon DEF Delays
<1> QED
  BY <1>1, QuotesAssumption

\* Every step keeps the types.
LEMMA TypeStep == ASSUME IInv, Next PROVE TypeOK'
<1> USE QuotesAssumption DEF TypeOK, PCs, Waits, At, Goto, limiter, payment, task
<1>0. TypeOK /\ \A r \in Calls : TimeIsAllowed(r)
  BY DEF IInv
<1>1. ASSUME NEW r \in Calls, Begin(r) PROVE TypeOK'
  BY <1>0, <1>1 DEF Begin
<1>2. ASSUME NEW r \in Calls, Send(r) PROVE TypeOK'
  <2>1. attempts[r] < RETRY_COUNT
    BY <1>0, <1>2 DEF Send, TimeIsAllowed
  <2>2. level' \in 0 .. RATE
    BY <1>0, <1>2 DEF Send, HasCapacity
  <2>3. sends' \in Seq(Nat)
    BY <1>0, <1>2 DEF Send
  <2>4. attempts' \in [Calls -> 0 .. RETRY_COUNT]
    BY <1>0, <1>2, <2>1 DEF Send
  <2>5. pc' \in [Calls -> PCs] /\ timer' \in [Calls -> Nat]
    BY <1>0, <1>2 DEF Send
  <2> QED
    BY <1>0, <1>2, <2>2, <2>3, <2>4, <2>5 DEF Send
<1>3. ASSUME NEW r \in Calls, PaymentQuoted(r) PROVE TypeOK'
  BY <1>0, <1>3 DEF PaymentQuoted
<1>4. ASSUME NEW r \in Calls, PaymentFails(r) PROVE TypeOK'
  BY <1>0, <1>4 DEF PaymentFails
<1>5. ASSUME NEW r \in Calls, AttemptFails(r) PROVE TypeOK'
  <2>1. CASE IsLastAttempt(r)
    BY <1>4, <1>5, <2>1 DEF AttemptFails
  <2>2. CASE ~IsLastAttempt(r)
    <3>1. PICK delay \in Delays(attempts[r]) : timer' = [timer EXCEPT ![r] = delay]
      BY <1>5, <2>2 DEF AttemptFails
    <3>2. delay \in Nat
      BY DelaysAreBounded
    <3> QED
      BY <1>0, <1>5, <2>2, <3>1, <3>2 DEF AttemptFails
  <2> QED
    BY <2>1, <2>2
<1>6. ASSUME NEW r \in Calls, Retry(r) PROVE TypeOK'
  BY <1>0, <1>6 DEF Retry
<1>7. ASSUME NEW r \in Calls, ProtectionEnds(r) \/ BudgetRunsOut(r) \/ CollectProtection(r)
      PROVE  TypeOK'
  <2>1. CASE ProtectionEnds(r)
    BY <1>0, <2>1 DEF ProtectionEnds
  <2>2. CASE BudgetRunsOut(r) \/ CollectProtection(r)
    BY <1>0, <2>2 DEF BudgetRunsOut, CollectProtection
  <2> QED
    BY <1>7, <2>1, <2>2
<1>8. ASSUME Tick PROVE TypeOK'
  BY <1>0, <1>8 DEF Tick, Idle, Less, BudgetLeft
<1>9. ASSUME Rest PROVE TypeOK'
  BY <1>0, <1>9 DEF Rest, vars
<1> QED
  BY <1>1, <1>2, <1>3, <1>4, <1>5, <1>6, <1>7, <1>8, <1>9 DEF Next, calculate, PaymentRefused

\* A step of a checkout leaves the others alone, and calls the payment API at
\* most once, from the limiter.
LEMMA StepMovesOne ==
    ASSUME TypeOK, NEW r \in Calls, CallStep(r)
    PROVE  /\ now' = now
           /\ \A s \in Calls : s # r => Untouched(s)
           /\ Quiet \/ Request
<1> USE DEF TypeOK, Untouched, Quiet, Request, Goto, limiter, payment, task
<1>1. CASE Begin(r)
  BY <1>1 DEF Begin
<1>2. CASE Send(r)
  BY <1>2 DEF Send, HasCapacity
<1>3. CASE PaymentQuoted(r)
  BY <1>3 DEF PaymentQuoted
<1>4. CASE PaymentFails(r)
  BY <1>4 DEF PaymentFails
<1>5. CASE AttemptFails(r)
  BY <1>4, <1>5 DEF AttemptFails
<1>6. CASE Retry(r)
  BY <1>6 DEF Retry
<1>7. CASE ProtectionEnds(r) \/ BudgetRunsOut(r) \/ CollectProtection(r)
  BY <1>7 DEF ProtectionEnds, BudgetRunsOut, CollectProtection
<1> QED
  BY <1>1, <1>2, <1>3, <1>4, <1>5, <1>6, <1>7 DEF CallStep, calculate, PaymentRefused

\* The new request is in the bucket, and the bucket holds RATE at most.
LEMMA SentStep ==
    ASSUME TypeOK, BucketRemembers, RateIsKept, Request, now' = now
    PROVE  BucketRemembers' /\ RateIsKept'
<1> DEFINE n == Len(sends)
<1>1. /\ sends \in Seq(Nat) /\ n \in Nat /\ now \in Nat /\ level \in Nat /\ level + 1 <= RATE
      /\ RATE \in Nat
  BY QuotesAssumption DEF TypeOK, Request
<1>2. /\ Len(sends') = n + 1 /\ sends' \in Seq(Nat)
      /\ \A i \in 1 .. n : sends'[i] = sends[i]
      /\ sends'[n + 1] = now
  BY <1>1 DEF Request
<1>3. DOMAIN sends = 1 .. n /\ DOMAIN sends' = 1 .. (n + 1)
  BY <1>1, <1>2
<1>4. \A i \in 1 .. n : sends[i] \in Nat
  BY <1>1
<1>5. BucketRemembers'
  <2>1. level' <= Len(sends')
    BY <1>1, <1>2 DEF Request, BucketRemembers
  <2>2. ASSUME NEW i \in 1 .. (n + 1)
        PROVE  Len(sends') - i + 1 <= level' + now' - sends'[i]
    <3>1. CASE i = n + 1
      BY <1>1, <1>2, <3>1 DEF Request
    <3>2. CASE i \in 1 .. n
      <4>1. n - i + 1 <= level + now - sends[i]
        BY <1>3, <3>2 DEF BucketRemembers
      <4>2. Len(sends') = n + 1 /\ level' = level + 1 /\ sends'[i] = sends[i]
        BY <1>2, <3>2 DEF Request
      <4>3. /\ n \in Int /\ level \in Int /\ now \in Int /\ i \in Int /\ sends[i] \in Int
            /\ now' = now
        BY <1>1, <1>4, <3>2
      <4> HIDE DEF n
      <4> QED
        BY ONLY <4>1, <4>2, <4>3
    <3> QED
      BY <3>1, <3>2, <1>1
  <2>3. sends'[n + 1] = now' /\ n + 1 \in DOMAIN sends'
    BY <1>1, <1>2, <1>3
  <2> QED
    BY <1>3, <2>1, <2>2, <2>3 DEF BucketRemembers
<1>6. ASSUME NEW i \in 1 .. (n + 1), NEW j \in 1 .. (n + 1), i <= j
      PROVE  j - i + 1 <= RATE + sends'[j] - sends'[i]
  <2>1. CASE j \in 1 .. n
    <3>1. i \in 1 .. n
      BY <1>1, <1>6, <2>1
    <3> QED
      BY <1>2, <1>3, <1>6, <2>1, <3>1 DEF RateIsKept
  <2>2. CASE j = n + 1 /\ i \in 1 .. n
    <3>1. n - i + 1 <= level + now - sends[i]
      BY <1>3, <2>2 DEF BucketRemembers
    <3>2. sends'[j] = now /\ sends'[i] = sends[i] /\ sends[i] \in Nat
      BY <1>2, <1>4, <2>2
    <3>3. n \in Int /\ level + 1 <= RATE /\ level \in Int /\ RATE \in Int /\ now \in Int /\ i \in Int
      BY <1>1, <2>2
    <3> HIDE DEF n
    <3> QED
      BY ONLY <2>2, <3>1, <3>2, <3>3
  <2>3. CASE j = n + 1 /\ i = n + 1
    BY <1>1, <1>2, <2>3
  <2> QED
    BY <1>1, <2>1, <2>2, <2>3
<1> QED
  BY <1>3, <1>5, <1>6 DEF RateIsKept

\* The rate is kept, step by step.
LEMMA RateStep == ASSUME IInv, Next PROVE BucketRemembers' /\ RateIsKept'
<1>1. ASSUME UNCHANGED <<now, limiter>> PROVE BucketRemembers' /\ RateIsKept'
  BY <1>1 DEF IInv, limiter, BucketRemembers, RateIsKept
<1>2. ASSUME NEW r \in Calls, CallStep(r) PROVE BucketRemembers' /\ RateIsKept'
  BY <1>1, <1>2, StepMovesOne, SentStep DEF IInv, Quiet
<1>3. ASSUME Tick PROVE BucketRemembers' /\ RateIsKept'
  <2>1. /\ sends' = sends /\ now' = now + 1 /\ level' >= level - 1 /\ level' <= level
        /\ now \in Nat /\ level \in Nat /\ level' \in Nat /\ sends \in Seq(Nat)
    BY <1>3, QuotesAssumption DEF Tick, Less, IInv, TypeOK
  <2>7. level' # RATE
    BY <1>3, QuotesAssumption DEF Tick, Less, IInv, TypeOK
  <2>2. \A i \in DOMAIN sends : sends[i] \in Nat /\ i \in Nat
    BY <2>1
  <2>3. Len(sends) \in Nat
    BY <2>1
  <2>4. level' <= Len(sends')
    BY <2>1, <2>3 DEF IInv, BucketRemembers
  <2>5. ASSUME NEW i \in DOMAIN sends'
        PROVE  Len(sends') - i + 1 <= level' + now' - sends'[i]
    <3>1. Len(sends) - i + 1 <= level + now - sends[i] /\ sends[i] \in Nat /\ i \in Nat
      BY <2>1, <2>2 DEF IInv, BucketRemembers
    <3> QED
      BY ONLY <2>1, <2>3, <3>1
  <2>6. RateIsKept'
    BY <2>1 DEF IInv, RateIsKept
  <2> QED
    BY <2>4, <2>5, <2>6, <2>7 DEF BucketRemembers
<1> QED
  BY <1>1, <1>2, <1>3 DEF Next, CallStep, Rest, vars

\* The requests since a time are finitely many ...
LEMMA RequestsAreFinite ==
    ASSUME sends \in Seq(Nat), NEW t
    PROVE  LET S == {i \in DOMAIN sends : sends[i] >= t}
           IN  IsFiniteSet(S) /\ Cardinality(S) \in Nat
<1> DEFINE S == {i \in DOMAIN sends : sends[i] >= t}
<1>1. DOMAIN sends = 1 .. Len(sends) /\ Len(sends) \in Nat
  OBVIOUS
<1>2. IsFiniteSet(1 .. Len(sends))
  BY <1>1, FS_Interval
<1>3. S \subseteq 1 .. Len(sends)
  BY <1>1
<1> QED
  BY <1>2, <1>3, FS_Subset, FS_CardinalityType

\* ... which is what Meanwhile counts.
LEMMA MeanwhileIsNumber ==
    ASSUME sends \in Seq(Nat), NEW r \in Calls
    PROVE  IsFiniteSet(SentSince(r)) /\ Meanwhile(r) \in Nat
BY RequestsAreFinite DEF SentSince, Meanwhile

\* With each that is sent it counts one more.
LEMMA OneMoreRequest ==
    ASSUME TypeOK, NEW r \in Calls, begun[r] <= now, begun'[r] = begun[r],
           sends' = Append(sends, now)
    PROVE  Meanwhile(r)' = Meanwhile(r) + 1
<1> DEFINE n == Len(sends)
<1>1. /\ sends \in Seq(Nat) /\ n \in Nat /\ now \in Nat
      /\ DOMAIN sends = 1 .. n /\ DOMAIN sends' = 1 .. (n + 1)
      /\ \A i \in 1 .. n : sends'[i] = sends[i]
      /\ sends'[n + 1] = now
  BY DEF TypeOK
<1>2. SentSince(r)' = SentSince(r) \cup {n + 1}
  BY <1>1 DEF SentSince
<1>3. n + 1 \notin SentSince(r)
  BY <1>1 DEF SentSince
<1> QED
  BY <1>1, <1>2, <1>3, MeanwhileIsNumber, FS_AddElement DEF Meanwhile

\* A full bucket has been filled in this tick.
LEMMA FullIsOfNow ==
    ASSUME TypeOK, BucketRemembers, level = RATE
    PROVE  Cardinality({i \in DOMAIN sends : sends[i] >= now}) >= 1
<1> DEFINE S == {i \in DOMAIN sends : sends[i] >= now}
<1>1. PICK i \in DOMAIN sends : sends[i] = now
  BY DEF BucketRemembers
<1>2. i \in S
  BY <1>1 DEF TypeOK
<1>3. IsFiniteSet(S) /\ Cardinality(S) \in Nat
  BY RequestsAreFinite DEF TypeOK
<1>4. Cardinality(S) # 0
  BY <1>2, <1>3, FS_EmptySet
<1> QED
  BY <1>3, <1>4

\* The time of a checkout that has begun is not touched by others, whose requests add to it.
LEMMA OthersAddTime ==
    ASSUME TypeOK, NEW r \in Calls, TimeIsAllowed(r), Untouched(r), now' = now, Quiet \/ Request,
           ~At(r, "start")
    PROVE  TimeIsAllowed(r)'
<1>1. /\ now \in Nat /\ level \in Nat /\ sends \in Seq(Nat) /\ Meanwhile(r) \in Nat
      /\ begun[r] \in Nat /\ attempts[r] \in Nat /\ timer[r] \in Nat /\ budget[r] \in Nat
      /\ RATE \in Nat \ {0} /\ MaxAttempt \in Nat /\ MAX_DELAY \in Nat
      /\ RETRY_COUNT \in Nat /\ QUOTE_BUDGET \in Nat
  BY QuotesAssumption, MeanwhileIsNumber DEF TypeOK
<1>2. attempts[r] * Share \in Nat
  BY <1>1 DEF Share
<1>3. Allowed(r) \in Int /\ Allowed(r)' \in Int
      /\ Allowed(r) + Full' - Full <= Allowed(r)' /\ Allowed(r) <= Allowed(r)'
      /\ Full \in Int /\ Full' \in Int
  <2>1. CASE Quiet
    <3>1. Allowed(r)' = Allowed(r) /\ Full' = Full
      BY <2>1 DEF Quiet, limiter, Untouched, Allowed, Full, Share, Meanwhile, SentSince
    <3>2. Allowed(r) \in Int
      BY <1>1, <1>2 DEF Allowed
    <3>3. Full \in Int
      BY DEF Full
    <3> QED
      BY ONLY <3>1, <3>2, <3>3
  <2>2. CASE Request
    <3>1. Meanwhile(r)' = Meanwhile(r) + 1 /\ level' = level + 1 /\ level # RATE
      BY <1>1, <2>2, OneMoreRequest DEF Request, Untouched, TimeIsAllowed
    <3>2. attempts'[r] = attempts[r] /\ attempts[r] * Share' = attempts[r] * Share
      BY DEF Untouched, Share
    <3>3. Allowed(r)' = attempts[r] * Share + (Meanwhile(r) + 1) - attempts[r]
      BY <3>1, <3>2 DEF Allowed
    <3>4. Allowed(r)' = Allowed(r) + 1 /\ Allowed(r) \in Int
      <4>1. Allowed(r) = attempts[r] * Share + Meanwhile(r) - attempts[r]
        BY DEF Allowed
      <4>2. attempts[r] * Share \in Nat /\ Meanwhile(r) \in Nat /\ attempts[r] \in Nat
        BY <1>1, <1>2
      <4> QED
        BY ONLY <4>1, <4>2, <3>3
    <3>5. Full = 0 /\ Full' \in {0, 1}
      BY <3>1 DEF Full
    <3> QED
      BY <3>4, <3>5
  <2> QED
    BY <2>1, <2>2
<1>4. Waited(r)' = Waited(r) /\ Waited(r) \in Int
  BY <1>1 DEF Untouched, Waited
<1>5. /\ pc'[r] = pc[r] /\ timer'[r] = timer[r] /\ attempts'[r] = attempts[r]
      /\ begun'[r] = begun[r] /\ protection'[r] = protection[r] /\ budget'[r] = budget[r]
  BY DEF Untouched
<1>6. (IF At(r, "start") THEN attempts[r] = 0 ELSE begun[r] <= now)'
  BY <1>5 DEF TimeIsAllowed, At
<1>7. (At(r, "waiting") => attempts[r] < RETRY_COUNT /\ Waited(r) + Full <= Allowed(r))'
  BY <1>1, <1>3, <1>4, <1>5 DEF TimeIsAllowed, At
<1>8. (At(r, "sending") =>
         /\ timer[r] <= MaxAttempt
         /\ Waited(r) + timer[r] <= Allowed(r) - MAX_DELAY
         /\ timer[r] < MaxAttempt => Waited(r) + timer[r] + Full <= Allowed(r) - MAX_DELAY)'
  <2>1. CASE pc[r] = "sending"
    <3>1. /\ timer[r] <= MaxAttempt
          /\ Waited(r) + timer[r] <= Allowed(r) - MAX_DELAY
          /\ timer[r] < MaxAttempt => Waited(r) + timer[r] + Full <= Allowed(r) - MAX_DELAY
      BY <2>1 DEF TimeIsAllowed, At
    <3>2. Waited(r)' + timer'[r] <= Allowed(r)' - MAX_DELAY
      <4>1. timer[r] \in Int /\ MAX_DELAY \in Int
        BY <1>1
      <4> QED
        BY ONLY <4>1, <1>3, <1>4, <1>5, <3>1
    <3>3. ASSUME timer'[r] < MaxAttempt
          PROVE  Waited(r)' + timer'[r] + Full' <= Allowed(r)' - MAX_DELAY
      <4>1. Waited(r) + timer[r] + Full <= Allowed(r) - MAX_DELAY
        BY ONLY <1>5, <3>1, <3>3
      <4>2. Waited(r) \in Int /\ timer[r] \in Int /\ MAX_DELAY \in Int
        BY <1>1, <1>4
      <4> QED
        BY ONLY <4>1, <4>2, <1>3, <1>4, <1>5
    <3> QED
      BY <1>5, <3>1, <3>2, <3>3
  <2>2. CASE pc[r] # "sending"
    BY <1>5, <2>2 DEF At
  <2> QED
    BY <2>1, <2>2
<1>9. (At(r, "delaying") =>
         attempts[r] < RETRY_COUNT /\ Waited(r) + timer[r] + Full <= Allowed(r))'
  <2>1. CASE pc[r] = "delaying"
    <3>1. attempts[r] < RETRY_COUNT /\ Waited(r) + timer[r] + Full <= Allowed(r)
      BY <2>1 DEF TimeIsAllowed, At
    <3>2. timer[r] \in Int
      BY <1>1
    <3>3. Waited(r)' + timer'[r] + Full' <= Allowed(r)'
      BY ONLY <3>1, <3>2, <1>3, <1>4, <1>5
    <3> QED
      BY <1>5, <3>1, <3>3
  <2>2. CASE pc[r] # "delaying"
    BY <1>5, <2>2 DEF At
  <2> QED
    BY <2>1, <2>2
<1>10. (At(r, "collecting") =>
          Waited(r) <= Allowed(r) - MAX_DELAY \/ Waited(r) <= QUOTE_BUDGET)'
  BY <1>1, <1>3, <1>4, <1>5 DEF TimeIsAllowed, At
<1>11. (protection[r] = "running" => pc[r] # "start" /\ Waited(r) + budget[r] = QUOTE_BUDGET)'
  BY <1>1, <1>4, <1>5 DEF TimeIsAllowed
<1> QED
  BY <1>6, <1>7, <1>8, <1>9, <1>10, <1>11 DEF TimeIsAllowed

\* What the time of a checkout is counted in.
Counts(r) ==
    /\ now \in Nat /\ level \in Nat /\ Meanwhile(r) \in Nat /\ begun[r] \in Nat
    /\ attempts[r] \in Nat /\ timer[r] \in Nat /\ budget[r] \in Nat
    /\ RATE \in Nat \ {0} /\ RETRY_COUNT \in Nat \ {0} /\ QUOTE_BUDGET \in Nat
    /\ MaxAttempt \in Nat \ {0} /\ MAX_DELAY \in Nat
    /\ Waited(r) \in Int /\ Allowed(r) \in Int /\ Full \in {0, 1}

\* All of them are numbers.
LEMMA Numbers == ASSUME TypeOK, NEW r \in Calls PROVE Counts(r)
<1>1. /\ now \in Nat /\ level \in Nat /\ Meanwhile(r) \in Nat /\ begun[r] \in Nat
      /\ attempts[r] \in Nat /\ timer[r] \in Nat /\ budget[r] \in Nat
  BY QuotesAssumption, MeanwhileIsNumber DEF TypeOK
<1>2. Share \in Nat /\ Share = MaxAttempt + MAX_DELAY
  BY QuotesAssumption DEF Share
<1>3. attempts[r] * Share \in Nat
  BY <1>1, <1>2
<1>4. Waited(r) \in Int
  BY <1>1 DEF Waited
<1>5. Allowed(r) \in Int
  BY <1>1, <1>3 DEF Allowed
<1>6. Full \in {0, 1}
  BY DEF Full
<1> QED
  BY <1>1, <1>4, <1>5, <1>6, QuotesAssumption DEF Counts

\* While a checkout only moves on, its time and allowance stay.
LEMMA SameTime ==
    ASSUME TypeOK, NEW r \in Calls, now' = now, begun' = begun, attempts' = attempts,
           UNCHANGED limiter
    PROVE  Waited(r)' = Waited(r) /\ Allowed(r)' = Allowed(r) /\ Full' = Full
BY DEF Waited, Allowed, Full, Share, limiter, Meanwhile, SentSince

\* A checkout begins with no time spent; a bucket that is full has been filled.
LEMMA BeginTime ==
    ASSUME TypeOK, BucketRemembers, NEW r \in Calls, TimeIsAllowed(r), Begin(r)
    PROVE  TimeIsAllowed(r)'
<1>1. /\ pc'[r] = "waiting" /\ begun'[r] = now /\ now' = now /\ attempts'[r] = attempts[r]
      /\ level' = level /\ sends' = sends /\ budget'[r] = QUOTE_BUDGET /\ attempts[r] = 0
  BY DEF Begin, Goto, At, limiter, TypeOK, TimeIsAllowed
<1>0. Counts(r)
  BY Numbers
<1>2. Waited(r)' = 0
  BY <1>1, <1>0 DEF Counts, Waited
<1>3. Meanwhile(r)' = Cardinality({i \in DOMAIN sends : sends[i] >= now})
  BY <1>1 DEF Meanwhile, SentSince
<1>4. Meanwhile(r)' \in Nat /\ Full' = Full /\ Full <= Meanwhile(r)'
  <2>1. Meanwhile(r)' \in Nat
    BY <1>3, RequestsAreFinite DEF TypeOK
  <2>2. Full' = Full
    BY <1>1 DEF Full
  <2>3. CASE level = RATE
    <3>1. Meanwhile(r)' >= 1
      BY <1>3, <2>3, FullIsOfNow
    <3> QED
      BY <2>1, <2>2, <2>3, <3>1 DEF Full
  <2>4. CASE level # RATE
    BY <2>1, <2>2, <2>4 DEF Full
  <2> QED
    BY <2>3, <2>4
<1>5. Allowed(r)' = Meanwhile(r)'
  <2>1. 0 * Share = 0
    BY Numbers, QuotesAssumption DEF Share
  <2> QED
    BY <1>1, <1>4, <2>1, <1>0 DEF Counts, Allowed, Share
<1> QED
  BY <1>1, <1>2, <1>4, <1>5, <1>0 DEF Counts, TimeIsAllowed, At

\* Multiplication, for the solver.
LEMMA OneMoreShare ==
    ASSUME NEW a \in Nat, NEW k \in Nat, NEW n \in Nat
    PROVE  (a + 1) * k + (n + 1) - (a + 1) = (a * k + n - a) + k
OBVIOUS

\* Fewer attempts, fewer shares.
LEMMA Shares ==
    ASSUME NEW a \in Nat, NEW n \in Nat, NEW k \in Nat, a <= n
    PROVE  a * k <= n * k /\ (a < n => a * k <= n * k - k)
<1>1. n * k = a * k + (n - a) * k
  OBVIOUS
<1>2. (n - a) * k \in Nat /\ a * k \in Nat
  OBVIOUS
<1>3. ASSUME a < n PROVE k <= (n - a) * k
  <2>1. (n - a) * k = k + (n - a - 1) * k
    OBVIOUS
  <2>2. (n - a - 1) * k \in Nat
    BY <1>3
  <2> QED
    BY <2>1, <2>2
<1> QED
  BY <1>1, <1>2, <1>3

\* An attempt takes a share of its own, and is one more request.
LEMMA SendTime ==
    ASSUME TypeOK, NEW r \in Calls, TimeIsAllowed(r), Send(r)
    PROVE  TimeIsAllowed(r)'
<1>1. /\ pc[r] = "waiting" /\ pc'[r] = "sending" /\ now' = now /\ begun'[r] = begun[r]
      /\ attempts'[r] = attempts[r] + 1 /\ timer'[r] = MaxAttempt
      /\ protection'[r] = protection[r] /\ budget'[r] = budget[r]
      /\ sends' = Append(sends, now)
  BY DEF Send, Goto, At, TypeOK, task
<1>0. Counts(r)
  BY Numbers
<1>2. Meanwhile(r)' = Meanwhile(r) + 1
  BY <1>1, OneMoreRequest DEF TimeIsAllowed, At
<1>3. Waited(r)' = Waited(r)
  BY <1>1 DEF Waited
<1>4. Allowed(r)' = Allowed(r) + MaxAttempt + MAX_DELAY
  <2>1. Share \in Nat /\ attempts[r] \in Nat /\ Meanwhile(r) \in Nat
    BY <1>0, QuotesAssumption DEF Counts, Share
  <2>2. Allowed(r)' = (attempts[r] + 1) * Share + (Meanwhile(r) + 1) - (attempts[r] + 1)
    BY <1>1, <1>2 DEF Allowed, Share
  <2>3. Allowed(r)' = Allowed(r) + Share
    BY <2>1, <2>2, OneMoreShare DEF Allowed
  <2> QED
    BY <2>3, <1>0, QuotesAssumption DEF Counts, Share
<1>5. Waited(r) + Full <= Allowed(r) /\ begun[r] <= now
  BY <1>1 DEF TimeIsAllowed, At
<1>6. Waited(r)' + timer'[r] <= Allowed(r)' - MAX_DELAY
  BY <1>1, <1>3, <1>4, <1>5, <1>0 DEF Counts
<1> QED
  BY <1>1, <1>3, <1>5, <1>6, <1>0 DEF Counts, TimeIsAllowed, At

\* A delay takes the share of the attempt before it.
LEMMA AttemptFailsTime ==
    ASSUME TypeOK, NEW r \in Calls, TimeIsAllowed(r), AttemptFails(r), ~IsLastAttempt(r)
    PROVE  TimeIsAllowed(r)'
<1>0. Counts(r)
  BY Numbers
<1>1. PICK delay \in Delays(attempts[r]) : timer' = [timer EXCEPT ![r] = delay]
  BY DEF AttemptFails
<1>2. delay \in Nat /\ delay <= MAX_DELAY
  BY DelaysAreBounded
<1>3. /\ pc[r] = "sending" /\ pc'[r] = "delaying" /\ now' = now /\ begun' = begun
      /\ attempts' = attempts /\ UNCHANGED limiter /\ UNCHANGED task /\ timer'[r] = delay
      /\ attempts[r] < RETRY_COUNT
  BY <1>1, <1>0 DEF Counts, AttemptFails, IsLastAttempt, Goto, At, TypeOK
<1>4. Waited(r)' = Waited(r) /\ Allowed(r)' = Allowed(r) /\ Full' = Full
  BY <1>3, SameTime
<1>5. Waited(r) + delay + Full <= Allowed(r)
  <2>1. /\ Waited(r) + timer[r] <= Allowed(r) - MAX_DELAY
        /\ timer[r] <= MaxAttempt
        /\ timer[r] < MaxAttempt => Waited(r) + timer[r] + Full <= Allowed(r) - MAX_DELAY
    BY <1>3 DEF TimeIsAllowed, At
  <2>2. CASE timer[r] = MaxAttempt
    BY ONLY <1>0, <1>2, <2>1, <2>2 DEF Counts
  <2>3. CASE timer[r] < MaxAttempt
    BY ONLY <1>0, <1>2, <2>1, <2>3 DEF Counts
  <2> QED
    BY ONLY <1>0, <2>1, <2>2, <2>3 DEF Counts
<1> QED
  BY <1>3, <1>4, <1>5 DEF TimeIsAllowed, At, task

\* The other steps of a checkout: what waits for it has been waited for.
LEMMA OtherTime ==
    ASSUME TypeOK, NEW r \in Calls, TimeIsAllowed(r),
           \/ PaymentQuoted(r) \/ (PaymentFails(r) /\ At(r, "sending")) \/ Retry(r)
           \/ ProtectionEnds(r) \/ BudgetRunsOut(r) \/ CollectProtection(r)
    PROVE  TimeIsAllowed(r)'
<1>0. Counts(r)
  BY Numbers
<1>1. now' = now /\ begun' = begun /\ attempts' = attempts /\ UNCHANGED limiter
  BY DEF PaymentQuoted, PaymentFails, Retry, ProtectionEnds, BudgetRunsOut, CollectProtection,
         payment, task
<1>2. Waited(r)' = Waited(r) /\ Allowed(r)' = Allowed(r) /\ Full' = Full
  BY <1>1, SameTime
<1>3. \/ pc'[r] = pc[r] /\ timer' = timer /\ protection'[r] # "running"
      \/ pc[r] = "sending" /\ pc'[r] = "collecting" /\ UNCHANGED task
      \/ pc[r] = "sending" /\ pc'[r] = "failed" /\ protection'[r] # "running"
      \/ pc[r] = "delaying" /\ pc'[r] = "waiting" /\ timer[r] = 0 /\ UNCHANGED <<timer, task>>
      \/ pc[r] = "collecting" /\ pc'[r] = "quoted" /\ UNCHANGED task
  BY DEF PaymentQuoted, PaymentFails, Retry, ProtectionEnds, BudgetRunsOut, CollectProtection,
         payment, task, Goto, At, TypeOK
<1>4. CASE pc'[r] = pc[r] /\ timer' = timer /\ protection'[r] # "running"
  BY <1>1, <1>2, <1>4 DEF TimeIsAllowed, At
<1>5. CASE pc[r] = "sending" /\ pc'[r] = "collecting" /\ UNCHANGED task
  BY <1>1, <1>2, <1>5, <1>0 DEF Counts, TimeIsAllowed, At, task
<1>6. CASE pc[r] = "sending" /\ pc'[r] = "failed" /\ protection'[r] # "running"
  BY <1>1, <1>2, <1>6 DEF TimeIsAllowed, At
<1>7. CASE pc[r] = "delaying" /\ pc'[r] = "waiting" /\ timer[r] = 0 /\ UNCHANGED <<timer, task>>
  BY <1>1, <1>2, <1>7, <1>0 DEF Counts, TimeIsAllowed, At, task
<1>8. CASE pc[r] = "collecting" /\ pc'[r] = "quoted" /\ UNCHANGED task
  BY <1>1, <1>2, <1>8 DEF TimeIsAllowed, At, task
<1> QED
  BY <1>3, <1>4, <1>5, <1>6, <1>7, <1>8

\* Every step of a checkout keeps its time.
LEMMA OwnTime ==
    ASSUME TypeOK, BucketRemembers, NEW r \in Calls, TimeIsAllowed(r), CallStep(r)
    PROVE  TimeIsAllowed(r)'
<1>1. CASE Begin(r)
  BY <1>1, BeginTime
<1>2. CASE Send(r)
  BY <1>2, SendTime
<1>3. CASE AttemptFails(r)
  BY <1>3, AttemptFailsTime, OtherTime DEF AttemptFails
<1>4. CASE PaymentRefused(r)
  BY <1>4, OtherTime DEF PaymentRefused
<1>5. CASE PaymentQuoted(r)
  BY <1>5, OtherTime
<1>6. CASE Retry(r)
  BY <1>6, OtherTime
<1>7. CASE ProtectionEnds(r)
  BY <1>7, OtherTime
<1>8. CASE BudgetRunsOut(r)
  BY <1>8, OtherTime
<1>9. CASE CollectProtection(r)
  BY <1>9, OtherTime
<1> QED
  BY <1>1, <1>2, <1>3, <1>4, <1>5, <1>6, <1>7, <1>8, <1>9 DEF CallStep, calculate

\* A tick that a checkout waits at the limiter empties a place in a full bucket.
LEMMA TickTime ==
    ASSUME TypeOK, NEW r \in Calls, TimeIsAllowed(r), Tick
    PROVE  TimeIsAllowed(r)'
<1>0. Counts(r)
  BY Numbers
<1>1. /\ now' = now + 1 /\ pc'[r] = pc[r] /\ begun'[r] = begun[r] /\ attempts'[r] = attempts[r]
      /\ timer'[r] = (IF timer[r] = 0 THEN 0 ELSE timer[r] - 1)
      /\ protection'[r] = protection[r] /\ sends' = sends
      /\ budget'[r] = (IF budget[r] = 0 THEN 0 ELSE budget[r] - 1)
  BY DEF Tick, BudgetLeft, Less
<1>2. Waited(r)' = Waited(r) + 1
  BY <1>0, <1>1 DEF Counts, Waited
<1>3. Allowed(r)' = Allowed(r)
  BY <1>1 DEF Allowed, Share, Meanwhile, SentSince
<1>4. Full' = 0
  BY <1>0, QuotesAssumption DEF Counts, Tick, Less, Full, TypeOK
<1>5. /\ pc[r] \in {"sending", "delaying"} => timer[r] > 0
      /\ pc[r] = "waiting" => Full = 1
      /\ protection[r] = "running" => budget[r] > 0
      /\ pc[r] = "collecting" => protection[r] = "running"
  BY <1>0 DEF Counts, Tick, Idle, HasCapacity, Full, At, TypeOK
<1>10. /\ (IF At(r, "start") THEN attempts[r] = 0 ELSE begun[r] <= now)'
       /\ (protection[r] = "running" => pc[r] # "start" /\ Waited(r) + budget[r] = QUOTE_BUDGET)'
  <2>1. (IF At(r, "start") THEN attempts[r] = 0 ELSE begun[r] <= now)'
    BY <1>0, <1>1 DEF Counts, TimeIsAllowed, At
  <2>2. ASSUME protection[r] = "running"
        PROVE  pc[r] # "start" /\ Waited(r)' + budget'[r] = QUOTE_BUDGET
    <3>1. pc[r] # "start" /\ Waited(r) + budget[r] = QUOTE_BUDGET
      BY <2>2 DEF TimeIsAllowed
    <3>2. budget'[r] = budget[r] - 1
      BY <1>1, <1>5, <2>2
    <3>3. Waited(r) \in Int /\ budget[r] \in Int
      BY <1>0 DEF Counts
    <3>4. Waited(r)' + budget'[r] = Waited(r) + budget[r]
      BY ONLY <1>2, <3>2, <3>3
    <3> QED
      BY <3>1, <3>4
  <2> QED
    BY <1>1, <2>1, <2>2
<1>6. CASE pc[r] = "waiting"
  <2>1. attempts[r] < RETRY_COUNT /\ Waited(r) + Full <= Allowed(r)
    BY <1>6 DEF TimeIsAllowed, At
  <2>2. Waited(r)' + Full' <= Allowed(r)'
    BY ONLY <1>0, <1>2, <1>3, <1>4, <1>5, <1>6, <2>1 DEF Counts
  <2> QED
    BY <1>1, <1>6, <1>10, <2>1, <2>2 DEF TimeIsAllowed, At
<1>7. CASE pc[r] = "sending"
  <2>1. /\ timer[r] <= MaxAttempt
        /\ Waited(r) + timer[r] <= Allowed(r) - MAX_DELAY
    BY <1>7 DEF TimeIsAllowed, At
  <2>2. timer'[r] <= MaxAttempt /\ Waited(r)' + timer'[r] <= Allowed(r)' - MAX_DELAY
    <3>1. timer'[r] = timer[r] - 1
      BY <1>1, <1>5, <1>7
    <3>2. /\ timer[r] \in Int /\ MaxAttempt \in Int /\ Waited(r) \in Int /\ Allowed(r) \in Int
          /\ MAX_DELAY \in Int
      BY <1>0 DEF Counts
    <3> QED
      BY ONLY <1>2, <1>3, <2>1, <3>1, <3>2
  <2>3. Waited(r)' + timer'[r] + Full' <= Allowed(r)' - MAX_DELAY
    BY ONLY <1>0, <1>1, <1>2, <1>3, <1>4, <1>5, <1>7, <2>1 DEF Counts
  <2> QED
    BY <1>1, <1>7, <1>10, <2>2, <2>3 DEF TimeIsAllowed, At
<1>8. CASE pc[r] = "delaying"
  <2>1. attempts[r] < RETRY_COUNT /\ Waited(r) + timer[r] + Full <= Allowed(r)
    BY <1>8 DEF TimeIsAllowed, At
  <2>2. Waited(r)' + timer'[r] + Full' <= Allowed(r)'
    BY ONLY <1>0, <1>1, <1>2, <1>3, <1>4, <1>5, <1>8, <2>1 DEF Counts
  <2> QED
    BY <1>1, <1>8, <1>10, <2>1, <2>2 DEF TimeIsAllowed, At
<1>9. CASE pc[r] \notin {"waiting", "sending", "delaying"}
  <2>1. ASSUME pc[r] = "collecting" PROVE Waited(r)' <= QUOTE_BUDGET
    <3>1. protection[r] = "running" /\ budget[r] > 0
      BY <1>5, <2>1
    <3>2. Waited(r) + budget[r] = QUOTE_BUDGET
      BY <3>1 DEF TimeIsAllowed
    <3>3. Waited(r) \in Int /\ budget[r] \in Int /\ QUOTE_BUDGET \in Int
      BY <1>0 DEF Counts
    <3> QED
      BY ONLY <1>2, <3>1, <3>2, <3>3
  <2> QED
    BY <1>1, <1>9, <1>10, <2>1 DEF TimeIsAllowed, At
<1> QED
  BY <1>6, <1>7, <1>8, <1>9

\* Nothing has been sent or begun at first.
LEMMA InitInvariant == Init => IInv
<1> SUFFICES ASSUME Init PROVE IInv
  OBVIOUS
<1>1. TypeOK
  BY QuotesAssumption DEF Init, TypeOK, PCs
<1>2. BucketRemembers /\ RateIsKept
  <2>1. Len(sends) = 0 /\ DOMAIN sends = {}
    BY DEF Init
  <2> QED
    BY <2>1, QuotesAssumption DEF Init, BucketRemembers, RateIsKept
<1>3. \A r \in Calls : TimeIsAllowed(r)
  BY DEF Init, TimeIsAllowed, At
<1> QED
  BY <1>1, <1>2, <1>3 DEF IInv

\* Every step keeps the invariant.
LEMMA StepInvariant == IInv /\ [Next]_vars => IInv'
<1> SUFFICES ASSUME IInv, [Next]_vars PROVE IInv'
  OBVIOUS
<1>1. ASSUME UNCHANGED vars PROVE IInv'
  BY <1>1 DEF IInv, vars, limiter, payment, task, TypeOK, BucketRemembers, RateIsKept,
              TimeIsAllowed, At, Waited, Allowed, Full, Meanwhile, SentSince
<1>2. ASSUME Next PROVE \A r \in Calls : TimeIsAllowed(r)'
  <2>1. SUFFICES ASSUME NEW r \in Calls PROVE TimeIsAllowed(r)'
    OBVIOUS
  <2>2. TypeOK /\ BucketRemembers /\ TimeIsAllowed(r)
    BY DEF IInv
  <2>3. ASSUME NEW s \in Calls, CallStep(s) PROVE TimeIsAllowed(r)'
    <3>1. CASE s = r
      BY <2>2, <2>3, <3>1, OwnTime
    <3>2. CASE s # r /\ At(r, "start")
      BY <2>2, <2>3, <3>2, StepMovesOne DEF TimeIsAllowed, Untouched, At
    <3>3. CASE s # r /\ ~At(r, "start")
      BY <2>2, <2>3, <3>3, OthersAddTime, StepMovesOne
    <3> QED
      BY <3>1, <3>2, <3>3
  <2>4. CASE Tick
    BY <2>2, <2>4, TickTime
  <2>5. CASE Rest
    BY <1>1, <2>5 DEF Rest, IInv
  <2> QED
    BY <1>2, <2>3, <2>4, <2>5 DEF Next, CallStep
<1>3. ASSUME Next PROVE IInv'
  BY <1>2, <1>3, TypeStep, RateStep DEF IInv
<1> QED
  BY <1>1, <1>3

\* The bucket holds what was sent and has not leaked; every tick that a checkout
\* has waited is one of its own, or stands for the request of another.
THEOREM QuotesInvariant == Spec => []IInv
BY InitInvariant, StepInvariant, PTL DEF Spec

\* Type correctness of the model of the quotes.
THEOREM QuotesTypeCorrect == Spec => []TypeOK
<1>1. IInv => TypeOK
  BY DEF IInv
<1> QED
  BY <1>1, QuotesInvariant, PTL

\* Whatever number of checkouts start and retry together, the payment API is not
\* called more often than the limiter around each attempt says (_send).
THEOREM TheRateIsKept == Spec => []RateIsKept
<1>1. IInv => RateIsKept
  BY DEF IInv
<1> QED
  BY <1>1, QuotesInvariant, PTL

\* n attempts allow no more than all attempts do.
LEMMA AllowedIsBounded ==
    ASSUME TypeOK, NEW r \in Calls
    PROVE  /\ Allowed(r) - MAX_DELAY <= PaymentBound(r)
           /\ attempts[r] < RETRY_COUNT => Allowed(r) <= PaymentBound(r)
<1>1. Counts(r) /\ attempts[r] <= RETRY_COUNT
  BY Numbers, QuotesAssumption DEF TypeOK
<1>2. Share \in Nat /\ Share = MaxAttempt + MAX_DELAY
  BY QuotesAssumption DEF Share
<1>3. RETRY_COUNT * Share = RETRY_COUNT * MaxAttempt + (RETRY_COUNT - 1) * MAX_DELAY + MAX_DELAY
  BY ONLY <1>1, <1>2 DEF Counts
<1>4. /\ attempts[r] * Share <= RETRY_COUNT * Share
      /\ attempts[r] < RETRY_COUNT => attempts[r] * Share <= RETRY_COUNT * Share - Share
  BY ONLY <1>1, <1>2, Shares DEF Counts
<1>6. /\ attempts[r] * Share \in Int /\ RETRY_COUNT * Share \in Int
      /\ RETRY_COUNT * MaxAttempt + (RETRY_COUNT - 1) * MAX_DELAY \in Int
  BY ONLY <1>1, <1>2 DEF Counts
<1>7. PaymentBound(r) =
        RETRY_COUNT * MaxAttempt + (RETRY_COUNT - 1) * MAX_DELAY + (Meanwhile(r) - attempts[r])
  BY DEF PaymentBound, OthersSent, Meanwhile
<1>8. PaymentBound(r) = RETRY_COUNT * Share - MAX_DELAY + Meanwhile(r) - attempts[r]
  BY ONLY <1>1, <1>3, <1>6, <1>7 DEF Counts
<1>9. Allowed(r) = attempts[r] * Share + Meanwhile(r) - attempts[r]
  BY DEF Allowed
<1>10. Allowed(r) - MAX_DELAY <= PaymentBound(r)
  <2>1. attempts[r] * Share <= RETRY_COUNT * Share
    BY ONLY <1>4
  <2>2. /\ Meanwhile(r) \in Int /\ attempts[r] \in Int /\ MAX_DELAY \in Int
        /\ attempts[r] * Share \in Int /\ RETRY_COUNT * Share \in Int
    BY ONLY <1>1, <1>6 DEF Counts
  <2> QED
    BY ONLY <2>1, <2>2, <1>8, <1>9
<1>11. ASSUME attempts[r] < RETRY_COUNT PROVE Allowed(r) <= PaymentBound(r)
  <2>1. attempts[r] * Share <= RETRY_COUNT * Share - Share
    BY ONLY <1>4, <1>11
  <2>2. Share >= MAX_DELAY /\ Share \in Int
    BY ONLY <1>1, <1>2 DEF Counts
  <2>3. /\ Meanwhile(r) \in Int /\ attempts[r] \in Int /\ MAX_DELAY \in Int
        /\ attempts[r] * Share \in Int /\ RETRY_COUNT * Share \in Int
    BY ONLY <1>1, <1>6 DEF Counts
  <2> QED
    BY ONLY <2>1, <2>2, <2>3, <1>8, <1>9
<1> QED
  BY <1>10, <1>11

\* However many checkouts share the limiter, and whatever the services do, one
\* waits no longer for its quotes than its attempts, their delays and a tick for
\* each request of another take, or than the budget of protection.
THEOREM TheQuotesAreInTime == Spec => []QuotesAreInTime
<1>1. ASSUME IInv PROVE QuotesAreInTime
  <2>1. SUFFICES ASSUME NEW r \in Calls
                 PROVE  /\ pc[r] \in Waits => Waited(r) <= PaymentBound(r)
                        /\ protection[r] = "running" => Waited(r) <= QUOTE_BUDGET
                        /\ At(r, "collecting") =>
                             Waited(r) <= PaymentBound(r) \/ Waited(r) <= QUOTE_BUDGET
    BY DEF QuotesAreInTime, Waited
  <2>2. Counts(r) /\ TimeIsAllowed(r)
    BY <1>1, Numbers DEF IInv
  <2>3. /\ Allowed(r) - MAX_DELAY <= PaymentBound(r)
        /\ attempts[r] < RETRY_COUNT => Allowed(r) <= PaymentBound(r)
    BY <1>1, AllowedIsBounded DEF IInv
  <2>4. PaymentBound(r) \in Int
    BY <2>2 DEF Counts, PaymentBound, OthersSent, Meanwhile
  <2>5. /\ Waited(r) \in Int /\ Allowed(r) \in Int /\ Full \in Int /\ Full >= 0
        /\ timer[r] \in Int /\ timer[r] >= 0 /\ budget[r] \in Int /\ budget[r] >= 0
        /\ MAX_DELAY \in Int /\ QUOTE_BUDGET \in Int
    BY <2>2 DEF Counts
  <2>6. pc[r] = "waiting" => Waited(r) <= PaymentBound(r)
    <3>1. pc[r] = "waiting" => attempts[r] < RETRY_COUNT /\ Waited(r) + Full <= Allowed(r)
      BY <2>2 DEF TimeIsAllowed, At
    <3> QED
      BY ONLY <3>1, <2>3, <2>4, <2>5
  <2>7. pc[r] = "sending" => Waited(r) <= PaymentBound(r)
    <3>1. pc[r] = "sending" => Waited(r) + timer[r] <= Allowed(r) - MAX_DELAY
      BY <2>2 DEF TimeIsAllowed, At
    <3> QED
      BY ONLY <3>1, <2>3, <2>4, <2>5
  <2>8. pc[r] = "delaying" => Waited(r) <= PaymentBound(r)
    <3>1. pc[r] = "delaying" =>
            attempts[r] < RETRY_COUNT /\ Waited(r) + timer[r] + Full <= Allowed(r)
      BY <2>2 DEF TimeIsAllowed, At
    <3> QED
      BY ONLY <3>1, <2>3, <2>4, <2>5
  <2>9. pc[r] = "collecting" => Waited(r) <= PaymentBound(r) \/ Waited(r) <= QUOTE_BUDGET
    <3>1. pc[r] = "collecting" =>
            Waited(r) <= Allowed(r) - MAX_DELAY \/ Waited(r) <= QUOTE_BUDGET
      BY <2>2 DEF TimeIsAllowed, At
    <3> QED
      BY ONLY <3>1, <2>3, <2>4, <2>5
  <2>10. protection[r] = "running" => Waited(r) <= QUOTE_BUDGET
    <3>1. protection[r] = "running" => Waited(r) + budget[r] = QUOTE_BUDGET
      BY <2>2 DEF TimeIsAllowed
    <3> QED
      BY ONLY <3>1, <2>5
  <2> QED
    BY <2>6, <2>7, <2>8, <2>9, <2>10 DEF Waits, At
<1> QED
  BY <1>1, QuotesInvariant, PTL
=============================================================================
