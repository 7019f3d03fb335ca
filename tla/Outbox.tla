------------------------------- MODULE Outbox -------------------------------
(***************************************************************************)
(* The transactional outbox: the outbox_events table, the worker processes *)
(* that drain it, and the operators who revive or purge dead letters.      *)
(*                                                                         *)
(* One action is one SQL statement (or one transaction) against the table, *)
(* or one step of a worker between two of them: OutboxWorker.runOnce       *)
(* awaits at each, and other workers, the API and the operators interleave *)
(* there.  The claim is a single autocommitted statement: its row locks    *)
(* are gone before the first event of the batch is dispatched.             *)
(*                                                                         *)
(* What an event does when it is dispatched is left to module GrantSync;   *)
(* here a dispatch returns or throws.                                      *)
(***************************************************************************)
EXTENDS Backoff, FiniteSets

CONSTANTS
  Events,         \* ids that newId() may hand to outbox rows
  NoEvent,        \* "no event": a worker that is not dispatching one
  Workers,        \* worker processes (Helm: worker.replicaCount)
  BatchSize,      \* OutboxWorkerDeps.batchSize
  BulkCap,        \* BULK_CAP of the dead-letter service
  DbFaults,       \* may a statement of a worker throw?
  MaxInterrupts,  \* bound: crashes, signals and aborted batches in a behaviour
  MaxRevives      \* bound: revive calls in a behaviour

ASSUME OutboxAssumption ==
  /\ NoEvent \notin Events
  /\ BatchSize \in Nat \ {0}
  /\ BulkCap \in Nat \ {0}
  /\ DbFaults \in BOOLEAN
  /\ MaxInterrupts \in Nat
  /\ MaxRevives \in Nat

VARIABLES
  now,        \* the database clock
  issued,     \* ids of every row ever inserted
  rows,       \* rows that exist
  processed,  \* rows with processed_at set
  dead,       \* rows with dead_at set
  attempts,   \* column attempts
  retryAt,    \* column next_retry_at
  audit,      \* audit_log entries of the dead-letter service: <<action, id>>
  wpc,        \* where each worker stands in run / runOnce
  batch,      \* what is left of the batch the worker claimed
  seen,       \* evt.attempts in the worker's copy of each claimed row
  cur,        \* the event the worker is dispatching or settling
  aborting,   \* the worker's AbortSignal
  delivered,  \* history: events some dispatch of which returned normally
  failures,   \* history: dispatches that threw, since insert or last revive
  interrupts, \* history: crashes, signals, and batches aborted by a throw
  revives     \* bound: revive calls so far

tableVars   == << issued, rows, processed, dead, attempts, retryAt, audit >>
workerVars  == << wpc, batch, seen, cur, aborting >>
historyVars == << delivered, failures, interrupts, revives >>
vars        == << now, tableVars, workerVars, historyVars >>

\* A worker between two events of its batch is in "loop"; in the others it has one.
Settling == {"handling", "acking", "failing"}
WorkerPc == {"idle", "loop", "down"} \union Settling

-----------------------------------------------------------------------------
(* The table *)

\* A row that still awaits delivery: processed_at IS NULL AND dead_at IS NULL.
Pending == rows \ (processed \union dead)

\* Mutations: claims dead rows; skips rows that have no attempts left.
Claimable_Dead == { e \in rows \ processed : retryAt[e] <= now }
Claimable_Exhausted == { e \in Pending : retryAt[e] <= now /\ attempts[e] < MaxAttempts }

\* The WHERE clause of claimBatch.
Claimable == { e \in Pending : retryAt[e] <= now }

\* Mutation: the bulk statements without "dead_at IS NOT NULL".
Touched_AnyRow(ids) == ids \intersect rows

\* The rows a bulk mutation touches: ids that do not name a dead row fall out.
Touched(ids) == ids \intersect rows \intersect dead

Init ==
  /\ now = 0
  /\ issued = {} /\ rows = {} /\ processed = {} /\ dead = {} /\ audit = {}
  /\ attempts = [e \in Events |-> 0]
  /\ retryAt = [e \in Events |-> 0]
  /\ wpc = [w \in Workers |-> "idle"]
  /\ batch = [w \in Workers |-> {}]
  /\ seen = [w \in Workers |-> [e \in Events |-> 0]]
  /\ cur = [w \in Workers |-> NoEvent]
  /\ aborting = [w \in Workers |-> FALSE]
  /\ delivered = {}
  /\ failures = [e \in Events |-> 0]
  /\ interrupts = 0
  /\ revives = 0

\* A business transaction commits with the rows it enqueued: several at once
\* for addScopes and revokeAllBindings.  A rolled-back one leaves no trace.
Enqueue(new) ==
  /\ new # {}
  /\ new \intersect issued = {}
  /\ issued' = issued \union new
  /\ rows' = rows \union new
  /\ retryAt' = [e \in Events |-> IF e \in new THEN now ELSE retryAt[e]]
  /\ UNCHANGED << now, processed, dead, attempts, audit, workerVars, historyVars >>

\* Time passes.  Only a row that waits for its next_retry_at can tell.
Tick ==
  /\ \E e \in Pending : retryAt[e] > now
  /\ now' = now + 1
  /\ UNCHANGED << tableVars, workerVars, historyVars >>

-----------------------------------------------------------------------------
(* The worker *)

\* Rows a concurrent statement of another worker may hold when w claims; SKIP
\* LOCKED passes over them.  Rows of a claim that has committed are unlocked
\* and may be claimed again.
MaybeLocked(w) == UNION { batch[v] : v \in Workers \ {w} }

\* What one claim may return: at most BatchSize claimable rows, a row left
\* behind only for an older one, for the LIMIT, or because it is locked.
ClaimResults(w) ==
  { chosen \in SUBSET Claimable :
      /\ chosen # {}
      /\ Cardinality(chosen) <= BatchSize
      /\ \A e \in Claimable \ chosen :
           \/ e \in MaybeLocked(w)
           \/ /\ Cardinality(chosen) = BatchSize
              /\ \A c \in chosen : retryAt[c] <= retryAt[e] }

Bump(chosen) ==
  attempts' = [e \in Events |-> attempts[e] + (IF e \in chosen THEN 1 ELSE 0)]

ClaimBatch(w) ==
  /\ wpc[w] = "idle"
  /\ ~aborting[w]
  /\ \E chosen \in ClaimResults(w) :
       /\ Bump(chosen)
       /\ batch' = [batch EXCEPT ![w] = chosen]
       /\ seen' = [seen EXCEPT ![w] =
                     [e \in Events |-> IF e \in chosen THEN attempts[e] + 1 ELSE 0]]
  /\ wpc' = [wpc EXCEPT ![w] = "loop"]
  /\ UNCHANGED << now, issued, rows, processed, dead, retryAt, audit, cur,
                  aborting, historyVars >>

\* claimBatch throws.  When the statement had committed, its rows were bumped
\* for a batch nobody holds; run() logs and polls again.
ClaimThrows(w) ==
  /\ DbFaults
  /\ wpc[w] = "idle"
  /\ ~aborting[w]
  /\ interrupts < MaxInterrupts
  /\ interrupts' = interrupts + 1
  /\ \E chosen \in ClaimResults(w) : Bump(chosen)
  /\ UNCHANGED << now, issued, rows, processed, dead, retryAt, audit, workerVars,
                  delivered, failures, revives >>

\* The next event of the loop; RETURNING promises no order.
Dispatch(w) ==
  /\ wpc[w] = "loop"
  /\ \E e \in batch[w] : cur' = [cur EXCEPT ![w] = e]
  /\ wpc' = [wpc EXCEPT ![w] = "handling"]
  /\ UNCHANGED << now, tableVars, batch, seen, aborting, historyVars >>

HandleOk(w) ==
  /\ wpc[w] = "handling"
  /\ wpc' = [wpc EXCEPT ![w] = "acking"]
  /\ delivered' = delivered \union {cur[w]}
  /\ UNCHANGED << now, tableVars, batch, seen, cur, aborting, failures,
                  interrupts, revives >>

\* Mutation: a dispatch error is swallowed, and the event acknowledged.
HandleFail_Swallowed(w) ==
  /\ wpc[w] = "handling"
  /\ wpc' = [wpc EXCEPT ![w] = "acking"]
  /\ failures' = [failures EXCEPT ![cur[w]] = @ + 1]
  /\ UNCHANGED << now, tableVars, batch, seen, cur, aborting, delivered,
                  interrupts, revives >>

HandleFail(w) ==
  /\ wpc[w] = "handling"
  /\ wpc' = [wpc EXCEPT ![w] = "failing"]
  /\ failures' = [failures EXCEPT ![cur[w]] = @ + 1]
  /\ UNCHANGED << now, tableVars, batch, seen, cur, aborting, delivered,
                  interrupts, revives >>

\* The tail of the loop body: go on with the batch, end it, or leave the rest
\* of it when a shutdown was requested.
FinishEvent(w) ==
  LET rest == IF aborting[w] THEN {} ELSE batch[w] \ {cur[w]}
  IN  /\ batch' = [batch EXCEPT ![w] = rest]
      /\ seen' = [seen EXCEPT ![w] = [e \in Events |-> IF e \in rest THEN @[e] ELSE 0]]
      /\ cur' = [cur EXCEPT ![w] = NoEvent]
      /\ wpc' = [wpc EXCEPT ![w] = IF rest = {} THEN "idle" ELSE "loop"]
      /\ UNCHANGED aborting

\* Mutation: the event being dispatched survives the loss of the batch.
DropBatch_KeepsCur(w) ==
  /\ batch' = [batch EXCEPT ![w] = {}]
  /\ seen' = [seen EXCEPT ![w] = [e \in Events |-> 0]]
  /\ UNCHANGED cur

\* Everything a worker holds in memory is gone.
DropBatch(w) ==
  /\ batch' = [batch EXCEPT ![w] = {}]
  /\ seen' = [seen EXCEPT ![w] = [e \in Events |-> 0]]
  /\ cur' = [cur EXCEPT ![w] = NoEvent]

\* The updates below are by id alone, whatever the row has become since; on a
\* purged row they change nothing.
SetProcessed(w) == processed' = processed \union ({cur[w]} \intersect rows)

SetDead(w) ==
  /\ dead' = dead \union ({cur[w]} \intersect rows)
  /\ UNCHANGED retryAt

SetRetry(w) ==
  /\ \E d \in NextDelays(seen[w][cur[w]]) :
       retryAt' = IF cur[w] \in rows THEN [retryAt EXCEPT ![cur[w]] = now + d]
                                     ELSE retryAt
  /\ UNCHANGED dead

\* Mutation: bumps attempts once more before comparing.
Settle_Bumped(w) ==
  IF ShouldMarkDead(seen[w][cur[w]] + 1) THEN SetDead(w) ELSE SetRetry(w)

\* markDead or recordFailure, by the attempts in the worker's copy of the row.
Settle(w) == IF ShouldMarkDead(seen[w][cur[w]]) THEN SetDead(w) ELSE SetRetry(w)

Ack(w) ==
  /\ wpc[w] = "acking"
  /\ SetProcessed(w)
  /\ FinishEvent(w)
  /\ UNCHANGED << now, issued, rows, dead, attempts, retryAt, audit, historyVars >>

\* Mutation: recordFailure counts the attempt again.
RecordOutcome_Recounts(w) ==
  /\ wpc[w] = "failing"
  /\ Settle(w)
  /\ FinishEvent(w)
  /\ Bump({cur[w]})
  /\ UNCHANGED << now, issued, rows, processed, audit, historyVars >>

RecordOutcome(w) ==
  /\ wpc[w] = "failing"
  /\ Settle(w)
  /\ FinishEvent(w)
  /\ UNCHANGED << now, issued, rows, processed, attempts, audit, historyVars >>

\* ackProcessed throws inside the try: the update may have been applied all the
\* same, and the event is treated as failed.
AckThrows(w) ==
  /\ DbFaults
  /\ wpc[w] = "acking"
  /\ interrupts < MaxInterrupts
  /\ interrupts' = interrupts + 1
  /\ SetProcessed(w) \/ UNCHANGED processed
  /\ wpc' = [wpc EXCEPT ![w] = "failing"]
  /\ UNCHANGED << now, issued, rows, dead, attempts, retryAt, audit, batch, seen,
                  cur, aborting, delivered, failures, revives >>

\* markDead or recordFailure throws: runOnce throws with it, run() logs, and
\* the rest of the batch is forgotten.
OutcomeThrows(w) ==
  /\ DbFaults
  /\ wpc[w] = "failing"
  /\ interrupts < MaxInterrupts
  /\ interrupts' = interrupts + 1
  /\ Settle(w) \/ UNCHANGED << dead, retryAt >>
  /\ DropBatch(w)
  /\ wpc' = [wpc EXCEPT ![w] = "idle"]
  /\ UNCHANGED << now, issued, rows, processed, attempts, audit, aborting,
                  delivered, failures, revives >>

\* SIGTERM or SIGINT: controller.abort().
Signal(w) ==
  /\ wpc[w] # "down"
  /\ ~aborting[w]
  /\ interrupts < MaxInterrupts
  /\ interrupts' = interrupts + 1
  /\ aborting' = [aborting EXCEPT ![w] = TRUE]
  /\ UNCHANGED << now, tableVars, wpc, batch, seen, cur, delivered, failures, revives >>

\* run() sees the aborted signal and the drained process ends.
Stop(w) ==
  /\ wpc[w] = "idle"
  /\ aborting[w]
  /\ wpc' = [wpc EXCEPT ![w] = "down"]
  /\ UNCHANGED << now, tableVars, batch, seen, cur, aborting, historyVars >>

\* SIGKILL, or the shutdown watchdog's process.exit(1).
Crash(w) ==
  /\ wpc[w] # "down"
  /\ interrupts < MaxInterrupts
  /\ interrupts' = interrupts + 1
  /\ DropBatch(w)
  /\ wpc' = [wpc EXCEPT ![w] = "down"]
  /\ UNCHANGED << now, tableVars, aborting, delivered, failures, revives >>

\* The orchestrator starts the process again.
Restart(w) ==
  /\ wpc[w] = "down"
  /\ wpc' = [wpc EXCEPT ![w] = "idle"]
  /\ aborting' = [aborting EXCEPT ![w] = FALSE]
  /\ UNCHANGED << now, tableVars, batch, seen, cur, historyVars >>

-----------------------------------------------------------------------------
(* Operators: POST .../revive, DELETE, and their bulk forms *)

Revive(ids) ==
  /\ revives < MaxRevives
  /\ Cardinality(ids) <= BulkCap
  /\ Touched(ids) # {}
  /\ dead' = dead \ Touched(ids)
  /\ attempts' = [e \in Events |-> IF e \in Touched(ids) THEN 0 ELSE attempts[e]]
  /\ retryAt' = [e \in Events |-> IF e \in Touched(ids) THEN now ELSE retryAt[e]]
  /\ failures' = [e \in Events |-> IF e \in Touched(ids) THEN 0 ELSE failures[e]]
  /\ audit' = audit \union ({"outbox.revive"} \X Touched(ids))
  /\ revives' = revives + 1
  /\ UNCHANGED << now, issued, rows, processed, workerVars, delivered, interrupts >>

Purge(ids) ==
  /\ Cardinality(ids) <= BulkCap
  /\ Touched(ids) # {}
  /\ rows' = rows \ Touched(ids)
  /\ processed' = processed \ Touched(ids)
  /\ dead' = dead \ Touched(ids)
  /\ audit' = audit \union ({"outbox.purge"} \X Touched(ids))
  /\ UNCHANGED << now, issued, attempts, retryAt, workerVars, historyVars >>

-----------------------------------------------------------------------------
(* Specification *)

WorkerStep(w) ==
  \/ ClaimBatch(w) \/ Dispatch(w) \/ HandleOk(w) \/ HandleFail(w)
  \/ Ack(w) \/ RecordOutcome(w) \/ Stop(w) \/ Restart(w)

Fault(w) == ClaimThrows(w) \/ AckThrows(w) \/ OutcomeThrows(w) \/ Signal(w) \/ Crash(w)

Next ==
  \/ \E new \in SUBSET Events : Enqueue(new)
  \/ Tick
  \/ \E w \in Workers : WorkerStep(w) \/ Fault(w)
  \/ \E ids \in SUBSET Events : Revive(ids) \/ Purge(ids)

Spec == Init /\ [][Next]_vars

\* A live worker keeps taking steps: run() never leaves its loop on an error, a
\* dispatch returns or throws, and a stopped process is restarted.  Nothing is
\* assumed of the API, of the operators or of faults.
Fairness == WF_vars(Tick) /\ \A w \in Workers : WF_vars(WorkerStep(w))

FairSpec == Spec /\ Fairness

-----------------------------------------------------------------------------
(* Type *)

\* The type of every variable; a worker has a current event exactly while it
\* dispatches or settles one, taken from its batch, and keeps no batch when idle.
TypeOK ==
  /\ now \in Nat
  /\ issued \in SUBSET Events
  /\ rows \in SUBSET issued
  /\ processed \in SUBSET rows
  /\ dead \in SUBSET rows
  /\ attempts \in [Events -> Nat]
  /\ retryAt \in [Events -> Nat]
  /\ audit \in SUBSET ({"outbox.revive", "outbox.purge"} \X Events)
  /\ wpc \in [Workers -> WorkerPc]
  /\ batch \in [Workers -> SUBSET Events]
  /\ seen \in [Workers -> [Events -> Nat]]
  /\ cur \in [Workers -> Events \union {NoEvent}]
  /\ \A w \in Workers :
       /\ IF wpc[w] \in Settling THEN cur[w] \in batch[w] ELSE cur[w] = NoEvent
       /\ wpc[w] \in {"idle", "down"} => batch[w] = {}
  /\ aborting \in [Workers -> BOOLEAN]
  /\ delivered \in SUBSET Events
  /\ failures \in [Events -> Nat]
  /\ interrupts \in Nat
  /\ revives \in Nat

-----------------------------------------------------------------------------
(* Properties *)

\* A row is acknowledged (processed_at) only after some dispatch of it returned
\* normally: nothing a crash, a shutdown, a lost answer or a second worker does
\* between handle() and ackProcessed() can mark an undelivered event as done.
ProcessedWasDelivered == processed \subseteq delivered

\* attempts counts claims, not failures.  For an event never delivered the
\* surplus is what live workers hold in their batches plus at most one claim
\* per interruption (crash, signal, throw), so only interruptions and
\* revives move an event towards dead-letter without a failed dispatch.
Holding(e) == { w \in Workers : e \in batch[w] /\ ~(wpc[w] = "failing" /\ cur[w] = e) }

AttemptsAccounted ==
  \A e \in Events \ delivered :
    attempts[e] <= failures[e] + Cardinality(Holding(e)) + interrupts

\* A row leaves the table only while it is a dead letter, and an audit entry
\* of the purge commits with it: no pending event is lost by retries, crashes,
\* or a bulk call that names its id by mistake.
NoSilentLoss ==
  [][\A e \in rows \ rows' : e \in dead /\ << "outbox.purge", e >> \in audit']_vars

\* With one worker, every event of its batch is still pending while it is
\* being dispatched or waits for it: nobody else can have settled, retired or
\* purged a row under the worker's feet.
HandledIsPending == \A w \in Workers : batch[w] \subseteq Pending

\* With one worker and no lost answers, dead letters have used up their
\* attempts and were never acknowledged: a revive always starts from a row
\* that the budget of attempts, and nothing else, retired.
DeadExhausted ==
  /\ dead \intersect processed = {}
  /\ \A e \in dead : attempts[e] >= MaxAttempts

-----------------------------------------------------------------------------
(* Refinement *)

StatusOf(e) ==
  IF e \notin issued   THEN "none"
  ELSE IF e \notin rows THEN "purged"
  ELSE IF e \in dead   THEN "dead"
  ELSE IF e \in processed THEN "done" ELSE "pending"

Promise == INSTANCE Delivery WITH status <- [e \in Events |-> StatusOf(e)]

\* With one worker and no lost answers the outbox implements the at-least-once
\* contract of module Delivery: done only after a delivery, done for good, and
\* out of dead-letter only by an operator.
KeepsPromise == Promise!Spec

\* The same with its liveness: every pending event is eventually acknowledged or
\* dead-lettered, whatever (finitely many) crashes and signals burn its attempts.
KeepsPromiseEventually == Promise!FairSpec

-----------------------------------------------------------------------------
(* Statements of the documentation that the code does not keep *)

\* "Uses FOR UPDATE SKIP LOCKED so multiple workers can run safely": with several
\* workers, and none of them failing, a delivered and acknowledged event is not
\* dead-lettered as well.
SafeWithManyWorkers == dead \intersect processed = {}

=============================================================================
