------------------------------- MODULE Quotes -------------------------------
(***************************************************************************)
(* The quotes of payment and protection that a checkout asks for while its *)
(* seats are reserved: PaymentClient with its retries behind a rate limiter *)
(* that all checkouts of the process share, ProtectionClient with its time *)
(* budget, and the checkout that waits for both.  Checkout has what the    *)
(* outcomes do to the tables.                                              *)
(***************************************************************************)
EXTENDS QuoteSettings, Sequences, FiniteSets

CONSTANTS
    Calls,                \* the checkouts of the process that ask for quotes
    MaxTime               \* the bound of the clock

VARIABLES
    now,                  \* the time
    level,                \* the requests in the bucket of the limiter
    sends,                \* when the payment API was called
    pc,                   \* where each checkout stands
    begun,                \* when it asked for its quotes
    attempts,             \* its calls to the payment API
    timer,                \* ticks left to its attempt or its delay
    protection,           \* its protection task
    budget                \* ticks left to that task

limiter == <<level, sends>>
payment == <<pc, attempts, timer>>
task == <<protection, budget>>
vars == <<now, limiter, payment, begun, task>>

Waits == {"waiting", "sending", "delaying"}
PCs == {"start", "collecting", "quoted", "failed"} \cup Waits

At(r, place) == pc[r] = place
Goto(r, place) == pc' = [pc EXCEPT ![r] = place]

Init ==
    /\ now = 0
    /\ level = 0
    /\ sends = <<>>
    /\ pc = [r \in Calls |-> "start"]
    /\ begun = [r \in Calls |-> 0]
    /\ attempts = [r \in Calls |-> 0]
    /\ timer = [r \in Calls |-> 0]
    /\ protection = [r \in Calls |-> "none"]
    /\ budget = [r \in Calls |-> 0]

\* The seats are reserved: the task for protection starts, then the payment call.
Begin(r) ==
    /\ At(r, "start")
    /\ Goto(r, "waiting")
    /\ begun' = [begun EXCEPT ![r] = now]
    /\ protection' = [protection EXCEPT ![r] = "running"]
    /\ budget' = [budget EXCEPT ![r] = QUOTE_BUDGET]
    /\ UNCHANGED <<now, limiter, attempts, timer>>

-----------------------------------------------------------------------------
\* Mutant: the limiter around the whole call and not around each attempt.
HasCapacity_FirstAttempt(r) == level < RATE \/ attempts[r] > 0

\* AsyncLimiter lets in whoever looks while there is room, in any order.
HasCapacity(r) == level < RATE

\* _send: past the limiter the request goes out.
Send(r) ==
    /\ At(r, "waiting")
    /\ HasCapacity(r)
    /\ level' = level + 1
    /\ sends' = Append(sends, now)
    /\ Goto(r, "sending")
    /\ attempts' = [attempts EXCEPT ![r] = @ + 1]
    /\ timer' = [timer EXCEPT ![r] = MaxAttempt]
    /\ UNCHANGED <<now, begun, task>>

\* A response with a quote.
PaymentQuoted(r) ==
    /\ At(r, "sending")
    /\ Goto(r, "collecting")
    /\ timer' = [timer EXCEPT ![r] = 0]
    /\ UNCHANGED <<now, limiter, begun, attempts, task>>

\* except Exception: the task is cancelled and awaited, then the seats released.
PaymentFails(r) ==
    /\ Goto(r, "failed")
    /\ timer' = [timer EXCEPT ![r] = 0]
    /\ protection' = [protection EXCEPT ![r] = IF @ = "running" THEN "cancelled" ELSE @]
    /\ budget' = [budget EXCEPT ![r] = 0]
    /\ UNCHANGED <<now, limiter, begun, attempts>>

\* Any other status, a body that is no quote or an error that is not retryable.
PaymentRefused(r) == At(r, "sending") /\ PaymentFails(r)

\* wait_random_exponential, in ticks, rounded up.
Delays(n) == {d \in 0 .. MAX_DELAY : d <= BASE_DELAY * 2 ^ (n - 1)}

\* stop_after_attempt.
IsLastAttempt(r) == attempts[r] >= RETRY_COUNT

\* A TransportError, a time-out too, or a retryable status: after the last
\* attempt a RetryError, else a delay.
AttemptFails(r) ==
    /\ At(r, "sending")
    /\ IF IsLastAttempt(r) THEN PaymentFails(r)
       ELSE /\ Goto(r, "delaying")
            /\ \E delay \in Delays(attempts[r]) : timer' = [timer EXCEPT ![r] = delay]
            /\ UNCHANGED <<now, limiter, begun, attempts, task>>

Retry(r) ==
    /\ At(r, "delaying")
    /\ timer[r] = 0
    /\ Goto(r, "waiting")
    /\ UNCHANGED <<now, limiter, begun, attempts, timer, task>>

-----------------------------------------------------------------------------
\* The task ends with a quote, with None for an error it expects, or with an
\* error that _collect_protection_quote turns into None.
ProtectionEnds(r) ==
    /\ protection[r] = "running"
    /\ \E quote \in {"quote", "none"} : protection' = [protection EXCEPT ![r] = quote]
    /\ budget' = [budget EXCEPT ![r] = 0]
    /\ UNCHANGED <<now, limiter, payment, begun>>

\* asyncio.timeout: TimeoutError, None.
BudgetRunsOut(r) ==
    /\ protection[r] = "running"
    /\ budget[r] = 0
    /\ protection' = [protection EXCEPT ![r] = "none"]
    /\ UNCHANGED <<now, limiter, payment, begun, budget>>

\* The payment quote is there: the task is awaited.
CollectProtection(r) ==
    /\ At(r, "collecting")
    /\ protection[r] # "running"
    /\ Goto(r, "quoted")
    /\ UNCHANGED <<now, limiter, attempts, timer, begun, task>>

-----------------------------------------------------------------------------
\* The event loop is idle: nothing that could run is left for later.
Idle(r) ==
    /\ pc[r] \in {"sending", "delaying"} => timer[r] > 0
    /\ At(r, "waiting") => ~HasCapacity(r)
    /\ protection[r] = "running" => budget[r] > 0
    /\ At(r, "collecting") => protection[r] = "running"

\* A tick less, where one is left.
Less(n) == IF n = 0 THEN 0 ELSE n - 1

\* Mutant: the budget around the await of the task and not in the task.
BudgetLeft_WhileAwaited(r) ==
    IF At(r, "collecting") /\ protection[r] = "running" THEN budget[r] - 1 ELSE budget[r]

BudgetLeft(r) == Less(budget[r])

Tick ==
    /\ now < MaxTime
    /\ \A r \in Calls : Idle(r)
    /\ now' = now + 1
    /\ level' = Less(level)
    /\ timer' = [r \in Calls |-> Less(timer[r])]
    /\ budget' = [r \in Calls |-> BudgetLeft(r)]
    /\ UNCHANGED <<sends, pc, begun, attempts, protection>>

calculate(r) == Send(r) \/ PaymentQuoted(r) \/ PaymentRefused(r) \/ AttemptFails(r) \/ Retry(r)

Finished(r) == pc[r] \in {"quoted", "failed"}

\* Every call is over, or the bound of the clock is reached.
Rest == (now = MaxTime \/ \A r \in Calls : Finished(r)) /\ UNCHANGED vars

Next ==
    \/ \E r \in Calls : Begin(r) \/ calculate(r)
    \/ \E r \in Calls : ProtectionEnds(r) \/ BudgetRunsOut(r) \/ CollectProtection(r)
    \/ Tick
    \/ Rest

Spec == Init /\ [][Next]_vars

-----------------------------------------------------------------------------
TypeOK ==
    /\ now \in Nat
    /\ level \in 0 .. RATE
    /\ sends \in Seq(Nat)
    /\ pc \in [Calls -> PCs]
    /\ begun \in [Calls -> Nat]
    /\ attempts \in [Calls -> 0 .. RETRY_COUNT]
    /\ timer \in [Calls -> Nat]
    /\ protection \in [Calls -> {"none", "running", "quote", "cancelled"}]
    /\ budget \in [Calls -> Nat]

\* The payment API is called RATE times, and once more for each tick that
\* passes, whatever checkouts start together and retry together.
RateIsKept ==
    \A i, j \in DOMAIN sends : i <= j => j - i + 1 <= RATE + sends[j] - sends[i]

\* The requests that are sent while r has its quotes fetched, and those of them
\* that are not its own.
SentSince(r) == {i \in DOMAIN sends : sends[i] >= begun[r]}
OthersSent(r) == Cardinality(SentSince(r)) - attempts[r]

\* All attempts with the delays between them, and a tick for each request that
\* other checkouts send in the meantime.
PaymentBound(r) ==
    RETRY_COUNT * MaxAttempt + (RETRY_COUNT - 1) * MAX_DELAY + OthersSent(r)

\* A checkout holds its seats without an answer no longer than that, or than
\* the budget of protection: the two run side by side, and overtaking at the
\* limiter costs no more than the requests of those who overtake.
QuotesAreInTime ==
    \A r \in Calls :
        /\ pc[r] \in Waits => now - begun[r] <= PaymentBound(r)
        /\ protection[r] = "running" => now - begun[r] <= QUOTE_BUDGET
        /\ At(r, "collecting") =>
             now - begun[r] <= PaymentBound(r) \/ now - begun[r] <= QUOTE_BUDGET
=============================================================================
