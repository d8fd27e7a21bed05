------------------------------ MODULE BackoffProofs ------------------------------
(* What the retry arithmetic of Backoff returns, for every base, maximum, number   *)
(* of attempts and random number.                                                   *)
EXTENDS Backoff, TLAPS

\* A context as BackoffAlgorithm_InitializeParams leaves it is well formed
\* (backoff_algorithm.c:93-98).
LEMMA FreshContext ==
  InitializeParams(RETRY_BACKOFF_BASE_MS, RETRY_MAX_BACKOFF_DELAY_MS, RETRY_MAX_ATTEMPTS)
    \in Contexts
BY BackoffAssumption DEF InitializeParams, Contexts

\* The wait drawn lies between 0 and the current jitter, whatever the random number:
\* the cast to uint16_t loses nothing (backoff_algorithm.c:55).
LEMMA WaitBounded ==
  ASSUME NEW c \in Contexts, NEW r \in Nat
  PROVE  NextBackOff(c, r) \in 0 .. c.nextJitterMax
<1>1. c.nextJitterMax \in 0 .. RETRY_MAX_BACKOFF_DELAY_MS
  BY DEF Contexts
<1>2. UINT16 \in Nat \ {0} /\ RETRY_MAX_BACKOFF_DELAY_MS \in 0 .. (UINT16 - 1)
  BY BackoffAssumption
<1>3. r % (c.nextJitterMax + 1) \in 0 .. c.nextJitterMax
  BY <1>1, <1>2
<1>4. (r % (c.nextJitterMax + 1)) % UINT16 = r % (c.nextJitterMax + 1)
  BY <1>1, <1>2, <1>3
<1> QED
  BY <1>3, <1>4 DEF NextBackOff

\* Counting a retry that is allowed leaves a well-formed context, one attempt
\* further and with a jitter that has not shrunk; the sum in uint16_t never wraps
\* (backoff_algorithm.c:58-69).
LEMMA RetryCounted ==
  ASSUME NEW c \in Contexts, RetriesLeft(c)
  PROVE  /\ AfterBackoff(c) \in Contexts
         /\ AfterBackoff(c).attemptsDone = c.attemptsDone + 1
         /\ AfterBackoff(c).nextJitterMax >= c.nextJitterMax
<1> DEFINE j == IF c.nextJitterMax < c.maxBackoffDelay \div 2
                THEN (c.nextJitterMax + c.nextJitterMax) % UINT16
                ELSE c.maxBackoffDelay
<1>1. /\ c.nextJitterMax \in 0 .. RETRY_MAX_BACKOFF_DELAY_MS
      /\ c.maxBackoffDelay = RETRY_MAX_BACKOFF_DELAY_MS
      /\ c.attemptsDone \in 0 .. RETRY_MAX_ATTEMPTS
      /\ c.maxRetryAttempts = RETRY_MAX_ATTEMPTS
  BY DEF Contexts
<1>2. UINT16 \in Nat \ {0} /\ RETRY_MAX_BACKOFF_DELAY_MS \in 0 .. (UINT16 - 1)
  BY BackoffAssumption
<1>3. c.attemptsDone + 1 \in 0 .. RETRY_MAX_ATTEMPTS
  BY <1>1, BackoffAssumption DEF RetriesLeft, BACKOFF_ALGORITHM_RETRY_FOREVER
<1>4. j \in c.nextJitterMax .. RETRY_MAX_BACKOFF_DELAY_MS
  BY <1>1, <1>2
<1>5. AfterBackoff(c) = [c EXCEPT !.attemptsDone = c.attemptsDone + 1, !.nextJitterMax = j]
  BY DEF AfterBackoff
<1> HIDE DEF j
<1>6. AfterBackoff(c) = [nextJitterMax    |-> j,
                         maxBackoffDelay  |-> RETRY_MAX_BACKOFF_DELAY_MS,
                         maxRetryAttempts |-> RETRY_MAX_ATTEMPTS,
                         attemptsDone     |-> c.attemptsDone + 1]
  BY <1>1, <1>5 DEF Contexts
<1>7. AfterBackoff(c) \in Contexts
  BY <1>1, <1>2, <1>3, <1>4, <1>6 DEF Contexts
<1> QED
  BY <1>1, <1>4, <1>6, <1>7

\* configRAND32 draws from {0, 1} only (app_config.h:250).
THEOREM RandomIsBinary == configRAND32 = {0, 1}
<1>1. RAND_MAX \in Nat \ {0}
  BY BackoffAssumption
<1>2. ASSUME NEW r \in 0 .. RAND_MAX
      PROVE  r \div RAND_MAX \in {0, 1}
  BY <1>1
<1>3. 0 \div RAND_MAX = 0 /\ RAND_MAX \div RAND_MAX = 1
  BY <1>1
<1>4. 0 \in 0 .. RAND_MAX /\ RAND_MAX \in 0 .. RAND_MAX
  BY <1>1
<1> QED
  BY <1>2, <1>3, <1>4 DEF configRAND32

================================================================================
