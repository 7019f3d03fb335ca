------------------------------ MODULE Backoff ------------------------------
(***************************************************************************)
(* Exponential backoff of src/lib/backoff.ts: how long a failed outbox     *)
(* delivery waits, and when it is given up.  Time is in an abstract unit   *)
(* (a second in the run over the default configuration, a tick elsewhere); *)
(* the uniform jitter is the set of delays it may produce.                 *)
(***************************************************************************)
EXTENDS Integers

CONSTANTS
  BaseDelay,    \* BackoffConfig.baseMs
  Factor,       \* BackoffConfig.factor
  MaxDelay,     \* BackoffConfig.maxMs
  JitterPct,    \* BackoffConfig.jitterRatio, in percent
  MaxAttempts   \* BackoffConfig.maxAttempts

ASSUME BackoffAssumption ==
  /\ BaseDelay \in Nat \ {0}
  /\ Factor \in Nat \ {0}
  /\ MaxDelay \in Nat \ {0}
  /\ JitterPct \in 0..99
  /\ MaxAttempts \in Nat \ {0}

\* Math.pow(factor, n).
Power[n \in Nat] == IF n = 0 THEN 1 ELSE Factor * Power[n - 1]

\* Mutation: forgets that attempts already counts the failed try.
RawDelay_OffByOne(attempts) ==
  LET uncapped == BaseDelay * Power[attempts]
  IN  IF uncapped <= MaxDelay THEN uncapped ELSE MaxDelay

\* The delay before jitter.  `attempts` already counts the failed try, so the
\* first failure (attempts = 1) waits about BaseDelay.
RawDelay(attempts) ==
  LET power   == IF attempts >= 1 THEN attempts - 1 ELSE 0
      uncapped == BaseDelay * Power[power]
  IN  IF uncapped <= MaxDelay THEN uncapped ELSE MaxDelay

\* Half the width of the jitter band; the cap is applied before the jitter.
Band(attempts) == (RawDelay(attempts) * JitterPct) \div 100

\* Mutation: the textbook "full jitter", anything up to the raw delay.
NextDelays_Full(attempts) == 0 .. RawDelay(attempts)

\* Every delay nextDelayMs may return; the lower bound is clamped at zero.
NextDelays(attempts) ==
  { d \in (RawDelay(attempts) - Band(attempts)) .. (RawDelay(attempts) + Band(attempts)) :
      d >= 0 }

\* attempts is the value after claimBatch's bump.
ShouldMarkDead(attempts) == attempts >= MaxAttempts

=============================================================================
