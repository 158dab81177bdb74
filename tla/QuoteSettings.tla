---------------------------- MODULE QuoteSettings ----------------------------
(***************************************************************************)
(* The settings of PaymentClient and ProtectionClient.  A tick is          *)
(* rate_limit_interval / rate_limit_requests: in it one request leaks out  *)
(* of the bucket of AsyncLimiter.                                          *)
(***************************************************************************)
EXTENDS Integers

CONSTANTS
    RATE,                 \* rate_limit_requests
    RETRY_COUNT,          \* retry_count: attempts, the first included
    BASE_DELAY,           \* retry_base_delay, in ticks
    MAX_DELAY,            \* retry_max_delay, in ticks
    QUOTE_BUDGET,         \* QUOTE_BUDGET_SECONDS, in ticks
    MaxAttempt            \* the bound of one attempt: httpx times out each of its operations

ASSUME QuotesAssumption ==
    /\ RATE \in Nat \ {0}
    /\ RETRY_COUNT \in Nat \ {0}
    /\ BASE_DELAY \in Nat
    /\ MAX_DELAY \in Nat
    /\ QUOTE_BUDGET \in Nat
    /\ MaxAttempt \in Nat \ {0}
=============================================================================
