--------------------------- MODULE RetrySchedule ---------------------------
(***************************************************************************)
(* One event that fails every delivery, seen on the clock: how long the    *)
(* worker keeps trying before it dead-letters the event.  The run gives    *)
(* Backoff the default configuration of the source, in seconds, and every  *)
(* jitter of a whole number of seconds.  A dispatch takes no time here.    *)
(***************************************************************************)
EXTENDS Backoff

VARIABLES
  attempts,  \* claims so far, each of which failed
  elapsed,   \* time since the first failure
  wait,      \* the last delay scheduled, 0 before the first
  isDead     \* dead_at is set

vars == << attempts, elapsed, wait, isDead >>

Init ==
  /\ attempts = 0
  /\ elapsed = 0
  /\ wait = 0
  /\ isDead = FALSE

\* The event comes due, is claimed (attempts + 1) and fails; runOnce schedules
\* the next retry with the bumped value.
Retry ==
  /\ ~isDead
  /\ ~ShouldMarkDead(attempts + 1)
  /\ attempts' = attempts + 1
  /\ wait' \in NextDelays(attempts + 1)
  /\ elapsed' = elapsed + wait'
  /\ UNCHANGED isDead

\* The last failure.
GiveUp ==
  /\ ~isDead
  /\ ShouldMarkDead(attempts + 1)
  /\ attempts' = attempts + 1
  /\ isDead' = TRUE
  /\ UNCHANGED << elapsed, wait >>

Next == Retry \/ GiveUp

Spec == Init /\ [][Next]_vars

-----------------------------------------------------------------------------
(* Properties *)

\* Below the cap each retry waits longer than the one before, whatever the
\* jitter drew: the bands of nextDelayMs do not overlap.
WaitsGrow == [][attempts' > attempts /\ ~isDead' => wait' > wait]_vars

\* The whole budget, where no wait reaches the cap: BaseDelay (1 + Factor + Factor^2 ...),
\* give or take the jitter ratio.  Under the default configuration nine waits of 1, 2, 4 ...
\* 256 seconds and 20%, hence 409 to 613 seconds.  (The comment on DEFAULT_BACKOFF speaks
\* of about 85 minutes.)
BudgetInBand ==
  isDead => LET sum == BaseDelay * (Power[MaxAttempts - 1] - 1)
            IN  100 * (Factor - 1) * elapsed \in (100 - JitterPct) * sum .. (100 + JitterPct) * sum

=============================================================================
