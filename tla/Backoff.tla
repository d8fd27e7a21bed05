-------------------------------- MODULE Backoff --------------------------------
(* The retry arithmetic of device/components/sample-azure-iot/backoff_algorithm.c *)
(* and the random numbers that device/config/app_config.h feeds it.  A context    *)
(* is the record BackoffAlgorithmContext_t; GetNextBackoff, which updates it and   *)
(* an out parameter, is split into the value it returns and the context it leaves. *)
EXTENDS Integers

CONSTANTS RETRY_BACKOFF_BASE_MS,       \* azure_iot_cloud.c:62
          RETRY_MAX_BACKOFF_DELAY_MS,  \* azure_iot_cloud.c:56
          RETRY_MAX_ATTEMPTS,          \* azure_iot_cloud.c:50
          RAND_MAX,                    \* the C library's largest rand()
          UINT16                       \* 2^16: the width of uint16_t

BACKOFF_ALGORITHM_RETRY_FOREVER == 0

ASSUME BackoffAssumption ==
  /\ UINT16 \in Nat \ {0}
  /\ RETRY_BACKOFF_BASE_MS \in Nat
  /\ RETRY_MAX_BACKOFF_DELAY_MS \in RETRY_BACKOFF_BASE_MS .. (UINT16 - 1)
  /\ RETRY_MAX_ATTEMPTS \in Nat \ {BACKOFF_ALGORITHM_RETRY_FOREVER}
  /\ RAND_MAX \in Nat \ {0}

Contexts == [nextJitterMax    : 0 .. RETRY_MAX_BACKOFF_DELAY_MS,
             maxBackoffDelay  : {RETRY_MAX_BACKOFF_DELAY_MS},
             maxRetryAttempts : {RETRY_MAX_ATTEMPTS},
             attemptsDone     : 0 .. RETRY_MAX_ATTEMPTS]

InitializeParams(backOffBase, maxBackOff, maxAttempts) ==
  [nextJitterMax    |-> backOffBase,
   maxBackoffDelay  |-> maxBackOff,
   maxRetryAttempts |-> maxAttempts,
   attemptsDone     |-> 0]

\* Mutant: one retry too many.
RetriesLeft_OffByOne(c) ==
  \/ c.attemptsDone <= c.maxRetryAttempts
  \/ c.maxRetryAttempts = BACKOFF_ALGORITHM_RETRY_FOREVER

RetriesLeft(c) ==
  \/ c.attemptsDone < c.maxRetryAttempts
  \/ c.maxRetryAttempts = BACKOFF_ALGORITHM_RETRY_FOREVER

\* *pNextBackOff: the draw reduced to 0..nextJitterMax, then cast to uint16_t.
NextBackOff(c, randomValue) == (randomValue % (c.nextJitterMax + 1)) % UINT16

\* Mutant: the jitter is doubled whatever the maximum.
AfterBackoff_Unbounded(c) ==
  [c EXCEPT !.attemptsDone = @ + 1, !.nextJitterMax = (@ + @) % UINT16]

\* The context after a draw: one attempt more, and the jitter doubled while that
\* stays below the maximum, at the maximum from then on (uint16_t arithmetic).
AfterBackoff(c) ==
  [c EXCEPT !.attemptsDone  = @ + 1,
            !.nextJitterMax = IF @ < c.maxBackoffDelay \div 2
                              THEN (@ + @) % UINT16
                              ELSE c.maxBackoffDelay]

\* configRAND32() is rand() / RAND_MAX, an integer division.
configRAND32 == {r \div RAND_MAX : r \in 0 .. RAND_MAX}

================================================================================
