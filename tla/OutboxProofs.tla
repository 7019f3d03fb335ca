---------------------------- MODULE OutboxProofs ----------------------------
(***************************************************************************)
(* Theorems about module Outbox, for any number of events and workers.     *)
(***************************************************************************)
EXTENDS Outbox, FiniteSetTheorems, TLAPS

-----------------------------------------------------------------------------
(* Lemmas about the operators *)

\* A delay is a natural number, whatever the configuration: nextDelayMs clamps.
LEMMA DelayType == \A a : NextDelays(a) \subseteq Nat
BY DEF NextDelays

\* A claim returns a set of pending rows.
LEMMA ClaimedArePending ==
  ASSUME NEW w, NEW chosen \in ClaimResults(w)
  PROVE  chosen \subseteq Pending
BY DEF ClaimResults, Claimable

-----------------------------------------------------------------------------
(* Type correctness *)

\* Finishing an event keeps the worker's share of the type invariant: it has a
\* current event exactly while settling one, and no batch when idle.
LEMMA FinishEventType ==
  ASSUME TypeOK, NEW w \in Workers, FinishEvent(w)
  PROVE  /\ wpc' \in [Workers -> WorkerPc]
         /\ batch' \in [Workers -> SUBSET Events]
         /\ seen' \in [Workers -> [Events -> Nat]]
         /\ cur' \in [Workers -> Events \union {NoEvent}]
         /\ \A v \in Workers :
              /\ IF wpc'[v] \in Settling THEN cur'[v] \in batch'[v] ELSE cur'[v] = NoEvent
              /\ wpc'[v] \in {"idle", "down"} => batch'[v] = {}
         /\ aborting' \in [Workers -> BOOLEAN]
<1> DEFINE rest == IF aborting[w] THEN {} ELSE batch[w] \ {cur[w]}
<1>1. rest \in SUBSET Events
  BY DEF TypeOK
<1>2. /\ batch' = [batch EXCEPT ![w] = rest]
      /\ seen' = [seen EXCEPT ![w] = [e \in Events |-> IF e \in rest THEN @[e] ELSE 0]]
      /\ cur' = [cur EXCEPT ![w] = NoEvent]
      /\ wpc' = [wpc EXCEPT ![w] = IF rest = {} THEN "idle" ELSE "loop"]
      /\ aborting' = aborting
  BY DEF FinishEvent
<1> HIDE DEF rest
<1>3. [e \in Events |-> IF e \in rest THEN seen[w][e] ELSE 0] \in [Events -> Nat]
  BY DEF TypeOK
<1> QED
  BY <1>1, <1>2, <1>3 DEF TypeOK, WorkerPc, Settling

\* The type invariant is inductive.
LEMMA TypeStep == TypeOK /\ [Next]_vars => TypeOK'
<1> SUFFICES ASSUME TypeOK, [Next]_vars PROVE TypeOK'
  OBVIOUS
<1>1. ASSUME NEW new \in SUBSET Events, Enqueue(new) PROVE TypeOK'
  BY <1>1 DEF TypeOK, Enqueue, workerVars, historyVars
<1>2. CASE Tick
  BY <1>2 DEF TypeOK, Tick, tableVars, workerVars, historyVars
<1>3. ASSUME NEW w \in Workers, ClaimBatch(w) PROVE TypeOK'
  <2>1. PICK chosen \in ClaimResults(w) :
          /\ Bump(chosen)
          /\ batch' = [batch EXCEPT ![w] = chosen]
          /\ seen' = [seen EXCEPT ![w] =
                        [e \in Events |-> IF e \in chosen THEN attempts[e] + 1 ELSE 0]]
    BY <1>3 DEF ClaimBatch
  <2>2. chosen \in SUBSET Events
    BY ClaimedArePending DEF TypeOK, Pending
  <2>3. attempts' \in [Events -> Nat]
    BY <2>1 DEF TypeOK, Bump
  <2>4. [e \in Events |-> IF e \in chosen THEN attempts[e] + 1 ELSE 0] \in [Events -> Nat]
    BY DEF TypeOK
  <2> QED
    BY <1>3, <2>1, <2>2, <2>3, <2>4
    DEF TypeOK, ClaimBatch, historyVars, WorkerPc, Settling
<1>4. ASSUME NEW w \in Workers, Dispatch(w) PROVE TypeOK'
  BY <1>4 DEF TypeOK, Dispatch, tableVars, historyVars, WorkerPc, Settling
<1>5. ASSUME NEW w \in Workers, HandleOk(w) PROVE TypeOK'
  BY <1>5 DEF TypeOK, HandleOk, tableVars, WorkerPc, Settling
<1>6. ASSUME NEW w \in Workers, HandleFail(w) PROVE TypeOK'
  BY <1>6 DEF TypeOK, HandleFail, tableVars, WorkerPc, Settling
<1>7. ASSUME NEW w \in Workers, Ack(w) PROVE TypeOK'
  <2>1. processed' \in SUBSET rows'
    BY <1>7 DEF TypeOK, Ack, SetProcessed
  <2> QED
    BY <1>7, <2>1, FinishEventType DEF TypeOK, Ack, historyVars
<1>8. ASSUME NEW w \in Workers, wpc[w] = "failing", Settle(w)
      PROVE  /\ dead' \in SUBSET rows
             /\ retryAt' \in [Events -> Nat]
  <2>1. CASE SetDead(w)
    BY <2>1 DEF TypeOK, SetDead
  <2>2. CASE SetRetry(w)
    BY <2>2, DelayType DEF TypeOK, SetRetry
  <2> QED
    BY <1>8, <2>1, <2>2 DEF Settle
<1>9. ASSUME NEW w \in Workers, RecordOutcome(w) PROVE TypeOK'
  BY <1>8, <1>9, FinishEventType DEF TypeOK, RecordOutcome, historyVars
<1>10. ASSUME NEW w \in Workers, Stop(w) \/ Restart(w) \/ Signal(w) PROVE TypeOK'
  <2>1. CASE Stop(w)
    BY <2>1 DEF TypeOK, Stop, tableVars, historyVars, WorkerPc, Settling
  <2>2. CASE Restart(w)
    BY <2>2 DEF TypeOK, Restart, tableVars, historyVars, WorkerPc, Settling
  <2>3. CASE Signal(w)
    BY <2>3 DEF TypeOK, Signal, tableVars
  <2> QED
    BY <1>10, <2>1, <2>2, <2>3
<1>11. ASSUME NEW w \in Workers, ClaimThrows(w) PROVE TypeOK'
  <2>1. attempts' \in [Events -> Nat]
    BY <1>11 DEF TypeOK, ClaimThrows, Bump
  <2> QED
    BY <1>11, <2>1 DEF TypeOK, ClaimThrows, workerVars
<1>12. ASSUME NEW w \in Workers, AckThrows(w) PROVE TypeOK'
  <2>1. processed' \in SUBSET rows
    BY <1>12 DEF TypeOK, AckThrows, SetProcessed
  <2> QED
    BY <1>12, <2>1 DEF TypeOK, AckThrows, WorkerPc, Settling
<1>13. ASSUME NEW w \in Workers, OutcomeThrows(w) PROVE TypeOK'
  <2>1. /\ dead' \in SUBSET rows
        /\ retryAt' \in [Events -> Nat]
    BY <1>8, <1>13 DEF TypeOK, OutcomeThrows
  <2> QED
    BY <1>13, <2>1 DEF TypeOK, OutcomeThrows, DropBatch, WorkerPc, Settling
<1>14. ASSUME NEW w \in Workers, Crash(w) PROVE TypeOK'
  BY <1>14 DEF TypeOK, Crash, DropBatch, tableVars, WorkerPc, Settling
<1>15. ASSUME NEW ids \in SUBSET Events, Revive(ids) PROVE TypeOK'
  <2>1. Touched(ids) \subseteq Events
    BY DEF Touched
  <2> QED
    BY <1>15, <2>1 DEF TypeOK, Revive, workerVars
<1>16. ASSUME NEW ids \in SUBSET Events, Purge(ids) PROVE TypeOK'
  <2>1. Touched(ids) \subseteq Events
    BY DEF Touched
  <2> QED
    BY <1>16, <2>1 DEF TypeOK, Purge, workerVars, historyVars
<1>17. CASE UNCHANGED vars
  BY <1>17 DEF TypeOK, vars, tableVars, workerVars, historyVars
<1> QED
  BY <1>1, <1>2, <1>3, <1>4, <1>5, <1>6, <1>7, <1>9, <1>10, <1>11, <1>12, <1>13,
     <1>14, <1>15, <1>16, <1>17
  DEF Next, WorkerStep, Fault

\* Every variable keeps its type, and a worker's current event comes from its batch.
THEOREM TypeCorrect == Spec => []TypeOK
<1>1. Init => TypeOK
  BY DEF Init, TypeOK, WorkerPc, Settling
<1> QED
  BY <1>1, TypeStep, PTL DEF Spec

-----------------------------------------------------------------------------
(* Processed means delivered, for any number of workers and any faults *)

\* The strengthening: a worker that is about to acknowledge has delivered.
DeliveredInv ==
  /\ ProcessedWasDelivered
  /\ \A w \in Workers : wpc[w] = "acking" => cur[w] \in delivered

LEMMA DeliveredStep == TypeOK /\ DeliveredInv /\ [Next]_vars => DeliveredInv'
<1> SUFFICES ASSUME TypeOK, DeliveredInv, [Next]_vars PROVE DeliveredInv'
  OBVIOUS
<1> USE DEF DeliveredInv, ProcessedWasDelivered
<1>1. ASSUME NEW new \in SUBSET Events, Enqueue(new) PROVE DeliveredInv'
  BY <1>1 DEF Enqueue, workerVars, historyVars
<1>2. CASE Tick
  BY <1>2 DEF Tick, tableVars, workerVars, historyVars
<1>3. ASSUME NEW w \in Workers, ClaimBatch(w) PROVE DeliveredInv'
  BY <1>3 DEF TypeOK, ClaimBatch, historyVars
<1>4. ASSUME NEW w \in Workers, Dispatch(w) PROVE DeliveredInv'
  BY <1>4 DEF TypeOK, Dispatch, tableVars, historyVars
<1>5. ASSUME NEW w \in Workers, HandleOk(w) PROVE DeliveredInv'
  BY <1>5 DEF TypeOK, HandleOk, tableVars
<1>6. ASSUME NEW w \in Workers, HandleFail(w) PROVE DeliveredInv'
  BY <1>6 DEF TypeOK, HandleFail, tableVars
<1>7. ASSUME NEW w \in Workers, FinishEvent(w) PROVE \A v \in Workers :
         wpc'[v] = "acking" => v # w /\ wpc[v] = "acking" /\ cur'[v] = cur[v]
  BY <1>7 DEF TypeOK, FinishEvent
<1>8. ASSUME NEW w \in Workers, Ack(w) PROVE DeliveredInv'
  BY <1>7, <1>8 DEF Ack, SetProcessed, historyVars
<1>9. ASSUME NEW w \in Workers, RecordOutcome(w) PROVE DeliveredInv'
  BY <1>7, <1>9 DEF RecordOutcome, historyVars
<1>10. ASSUME NEW w \in Workers, Stop(w) \/ Restart(w) \/ Signal(w) PROVE DeliveredInv'
  BY <1>10 DEF TypeOK, Stop, Restart, Signal, tableVars, historyVars
<1>11. ASSUME NEW w \in Workers, ClaimThrows(w) PROVE DeliveredInv'
  BY <1>11 DEF ClaimThrows, workerVars
<1>12. ASSUME NEW w \in Workers, AckThrows(w) PROVE DeliveredInv'
  BY <1>12 DEF TypeOK, AckThrows, SetProcessed
<1>13. ASSUME NEW w \in Workers, OutcomeThrows(w) \/ Crash(w) PROVE DeliveredInv'
  BY <1>13 DEF TypeOK, OutcomeThrows, Crash, DropBatch, tableVars
<1>14. ASSUME NEW ids \in SUBSET Events, Revive(ids) \/ Purge(ids) PROVE DeliveredInv'
  BY <1>14 DEF Revive, Purge, workerVars, historyVars
<1>15. CASE UNCHANGED vars
  BY <1>15 DEF vars, tableVars, workerVars, historyVars
<1> QED
  BY <1>1, <1>2, <1>3, <1>4, <1>5, <1>6, <1>8, <1>9, <1>10, <1>11, <1>12, <1>13,
     <1>14, <1>15
  DEF Next, WorkerStep, Fault

\* No crash, shutdown, lost answer or second worker lets an event be marked as
\* processed that no dispatch has delivered.
THEOREM AcknowledgedIsDelivered == Spec => []ProcessedWasDelivered
<1>1. Init => DeliveredInv
  BY DEF Init, DeliveredInv, ProcessedWasDelivered
<1>2. DeliveredInv => ProcessedWasDelivered
  BY DEF DeliveredInv
<1> QED
  BY <1>1, <1>2, DeliveredStep, TypeCorrect, PTL DEF Spec

-----------------------------------------------------------------------------
(* Only a purge of a dead letter removes a row *)

\* Rows leave the table through an audited purge of a dead letter, and in no other
\* way, whatever ids an operator names.
THEOREM RowsAreNotLost == Spec => NoSilentLoss
<1> DEFINE Kept == \A e \in rows \ rows' : e \in dead /\ << "outbox.purge", e >> \in audit'
<1>1. ASSUME [Next]_vars PROVE Kept
  <2>1. ASSUME NEW ids \in SUBSET Events, Purge(ids) PROVE Kept
    BY <2>1 DEF Purge, Touched
  <2>2. CASE rows \subseteq rows'
    BY <2>2
  <2>3. rows \subseteq rows' \/ \E ids \in SUBSET Events : Purge(ids)
    BY <1>1
    DEF Next, vars, tableVars, WorkerStep, Fault, Enqueue, Tick, ClaimBatch, Dispatch,
        HandleOk, HandleFail, Ack, RecordOutcome, Stop, Restart, ClaimThrows, AckThrows,
        OutcomeThrows, Signal, Crash, Revive
  <2> QED
    BY <2>1, <2>2, <2>3
<1>2. [Next]_vars => [Kept]_vars
  BY <1>1
<1> QED
  BY <1>2, PTL DEF Spec, NoSilentLoss

-----------------------------------------------------------------------------
(* One worker, no lost answers *)

\* The deployment the chart ships (worker.replicaCount: 1), its statements
\* returning what they did.
Solo == (\A v, w \in Workers : v = w) /\ ~DbFaults

\* The inductive invariant: what the worker holds is pending and its copies of
\* attempts are current, so what it settles it settles by the row's own count.
SoloInv ==
  /\ HandledIsPending
  /\ DeadExhausted
  /\ \A w \in Workers : \A e \in batch[w] : seen[w][e] = attempts[e]

LEMMA FinishEventKeeps ==
  ASSUME Solo, TypeOK, SoloInv, NEW w \in Workers, FinishEvent(w), UNCHANGED attempts
  PROVE  /\ \A v \in Workers : batch'[v] \subseteq batch[v] \ {cur[w]}
         /\ \A v \in Workers : \A e \in batch'[v] : seen'[v][e] = attempts'[e]
<1> DEFINE rest == IF aborting[w] THEN {} ELSE batch[w] \ {cur[w]}
<1>1. /\ batch' = [batch EXCEPT ![w] = rest]
      /\ seen' = [seen EXCEPT ![w] = [e \in Events |-> IF e \in rest THEN @[e] ELSE 0]]
  BY DEF FinishEvent
<1>2. rest \subseteq batch[w] \ {cur[w]} /\ rest \subseteq Events
  BY DEF TypeOK
<1> HIDE DEF rest
<1>3. batch'[w] = rest /\ seen'[w] = [e \in Events |-> IF e \in rest THEN seen[w][e] ELSE 0]
  BY <1>1 DEF TypeOK
<1>4. \A v \in Workers : v = w
  BY DEF Solo
<1> QED
  BY <1>2, <1>3, <1>4 DEF SoloInv

LEMMA SoloStep == Solo /\ TypeOK /\ SoloInv /\ [Next]_vars => SoloInv'
<1> SUFFICES ASSUME Solo, TypeOK, SoloInv, [Next]_vars PROVE SoloInv'
  OBVIOUS
<1> USE DEF SoloInv, HandledIsPending, DeadExhausted
<1>1. ASSUME NEW new \in SUBSET Events, Enqueue(new) PROVE SoloInv'
  BY <1>1 DEF TypeOK, Enqueue, Pending, workerVars, historyVars
<1>2. CASE Tick
  BY <1>2 DEF Tick, Pending, tableVars, workerVars, historyVars
<1>3. ASSUME NEW w \in Workers, ClaimBatch(w) PROVE SoloInv'
  <2>1. PICK chosen \in ClaimResults(w) :
          /\ Bump(chosen)
          /\ batch' = [batch EXCEPT ![w] = chosen]
          /\ seen' = [seen EXCEPT ![w] =
                        [e \in Events |-> IF e \in chosen THEN attempts[e] + 1 ELSE 0]]
    BY <1>3 DEF ClaimBatch
  <2>2. chosen \subseteq Pending /\ chosen \subseteq Events
    BY ClaimedArePending DEF TypeOK, Pending
  <2>3. \A e \in Events : attempts'[e] = IF e \in chosen THEN attempts[e] + 1 ELSE attempts[e]
    BY <2>1 DEF TypeOK, Bump
  <2>4. /\ batch'[w] = chosen
        /\ \A e \in chosen : seen'[w][e] = attempts[e] + 1
    BY <2>1, <2>2 DEF TypeOK
  <2>5. Pending' = Pending /\ dead' = dead /\ processed' = processed
    BY <1>3 DEF ClaimBatch, Pending
  <2>6. \A e \in dead : e \in Events /\ e \notin chosen
    BY <2>2 DEF TypeOK, Pending
  <2> QED
    BY <2>2, <2>3, <2>4, <2>5, <2>6 DEF Solo
<1>4. ASSUME NEW w \in Workers, Dispatch(w) \/ HandleOk(w) \/ HandleFail(w) PROVE SoloInv'
  BY <1>4 DEF Dispatch, HandleOk, HandleFail, Pending, tableVars, historyVars
<1>5. ASSUME NEW w \in Workers, Ack(w) PROVE SoloInv'
  <2>1. /\ UNCHANGED << rows, dead, attempts >>
        /\ processed' = processed \union ({cur[w]} \intersect rows)
        /\ FinishEvent(w)
    BY <1>5 DEF Ack, SetProcessed
  <2>2. cur[w] \in Pending
    BY <1>5 DEF TypeOK, Ack, Settling
  <2> QED
    BY <2>1, <2>2, FinishEventKeeps DEF Pending
<1>6. ASSUME NEW w \in Workers, RecordOutcome(w) PROVE SoloInv'
  <2>1. UNCHANGED << rows, processed, attempts >> /\ FinishEvent(w)
    BY <1>6 DEF RecordOutcome
  <2>2. cur[w] \in Pending /\ seen[w][cur[w]] = attempts[cur[w]]
    BY <1>6 DEF TypeOK, RecordOutcome, Settling
  <2>3. \/ dead' = dead
        \/ dead' = dead \union {cur[w]} /\ attempts[cur[w]] >= MaxAttempts
    BY <1>6, <2>2 DEF RecordOutcome, Settle, SetDead, SetRetry, ShouldMarkDead, Pending
  <2> QED
    BY <2>1, <2>2, <2>3, FinishEventKeeps DEF Pending
<1>7. ASSUME NEW w \in Workers, Stop(w) \/ Restart(w) \/ Signal(w) PROVE SoloInv'
  BY <1>7 DEF Stop, Restart, Signal, Pending, tableVars, historyVars
<1>8. ASSUME NEW w \in Workers, ClaimThrows(w) \/ AckThrows(w) \/ OutcomeThrows(w)
      PROVE  FALSE
  BY <1>8 DEF Solo, ClaimThrows, AckThrows, OutcomeThrows
<1>9. ASSUME NEW w \in Workers, Crash(w) PROVE SoloInv'
  <2>1. UNCHANGED << rows, processed, dead, attempts >> /\ \A v \in Workers : batch'[v] = {}
    BY <1>9 DEF TypeOK, Solo, Crash, DropBatch, tableVars
  <2> QED
    BY <2>1 DEF Pending
<1>10. ASSUME NEW ids \in SUBSET Events, Revive(ids) PROVE SoloInv'
  <2>1. Touched(ids) \subseteq dead
    BY DEF Touched
  <2>2. /\ UNCHANGED << rows, processed, batch, seen >>
        /\ dead' = dead \ Touched(ids)
        /\ \A e \in Events \ Touched(ids) : attempts'[e] = attempts[e]
    BY <1>10 DEF Revive, workerVars
  <2> QED
    BY <2>1, <2>2 DEF TypeOK, Pending
<1>11. ASSUME NEW ids \in SUBSET Events, Purge(ids) PROVE SoloInv'
  <2>1. Touched(ids) \subseteq dead
    BY DEF Touched
  <2>2. /\ UNCHANGED << attempts, batch, seen >>
        /\ rows' = rows \ Touched(ids)
        /\ processed' = processed \ Touched(ids)
        /\ dead' = dead \ Touched(ids)
    BY <1>11 DEF Purge, workerVars
  <2> QED
    BY <2>1, <2>2 DEF Pending
<1>12. CASE UNCHANGED vars
  BY <1>12 DEF vars, tableVars, workerVars, historyVars, Pending
<1> QED
  BY <1>1, <1>2, <1>3, <1>4, <1>5, <1>6, <1>7, <1>8, <1>9, <1>10, <1>11, <1>12
  DEF Next, WorkerStep, Fault

LEMMA SoloInvariant == ASSUME Solo PROVE Spec => []SoloInv
<1>1. Init => SoloInv
  BY DEF Init, SoloInv, HandledIsPending, DeadExhausted
<1>2. TypeOK /\ SoloInv /\ [Next]_vars => SoloInv'
  BY SoloStep
<1> QED
  BY <1>1, <1>2, TypeCorrect, PTL DEF Spec

\* One worker never has a row settled, retired or purged under its feet.
THEOREM OneWorkerOwnsItsBatch == ASSUME Solo PROVE Spec => []HandledIsPending
<1>1. SoloInv => HandledIsPending
  BY DEF SoloInv
<1> QED
  BY <1>1, SoloInvariant, PTL

\* One worker retires an event only when its attempts are used up, and never one
\* that was acknowledged.
THEOREM OneWorkerRetiresExhausted == ASSUME Solo PROVE Spec => []DeadExhausted
<1>1. SoloInv => DeadExhausted
  BY DEF SoloInv
<1> QED
  BY <1>1, SoloInvariant, PTL

-----------------------------------------------------------------------------
(* One worker implements the contract of module Delivery *)

\* A step that leaves every event's status and the deliveries alone stutters; one
\* that changes the status of the events in S does so to one and the same status.
LEMMA Stutters ==
  ASSUME UNCHANGED << issued, rows, processed, dead, delivered >>
  PROVE  UNCHANGED Promise!vars
BY DEF Promise!vars, StatusOf

LEMMA BecomesStatus ==
  ASSUME NEW S, NEW s,
         \A e \in Events : StatusOf(e)' = IF e \in S THEN s ELSE StatusOf(e)
  PROVE  Promise!Become(S, s)
BY DEF Promise!Become

\* The status of a row in terms of the columns.
LEMMA StatusOfRow ==
  ASSUME TypeOK, DeadExhausted, NEW e \in Events
  PROVE  /\ e \in Pending => StatusOf(e) = "pending"
         /\ e \in dead => StatusOf(e) = "dead"
         /\ e \in processed => StatusOf(e) = "done"
         /\ e \notin issued => StatusOf(e) = "none"
BY DEF TypeOK, DeadExhausted, Pending, StatusOf

LEMMA PromiseStep ==
  Solo /\ TypeOK /\ DeliveredInv /\ SoloInv /\ SoloInv' /\ TypeOK' /\ [Next]_vars
    => [Promise!Next]_(Promise!vars)
<1> SUFFICES ASSUME Solo, TypeOK, DeliveredInv, SoloInv, SoloInv', TypeOK', [Next]_vars
             PROVE  Promise!Next \/ UNCHANGED Promise!vars
  OBVIOUS
<1>1. ASSUME NEW new \in SUBSET Events, Enqueue(new) PROVE Promise!Next
  <2>1. \A e \in Events : StatusOf(e)' = IF e \in new THEN "pending" ELSE StatusOf(e)
    BY <1>1 DEF TypeOK, Enqueue, StatusOf
  <2>2. \A e \in new : StatusOf(e) = "none"
    BY <1>1 DEF Enqueue, StatusOf
  <2>3. Promise!Submit(new)
    BY <1>1, <2>1, <2>2, BecomesStatus DEF Promise!Submit, Enqueue, historyVars
  <2> QED
    BY <2>3 DEF Promise!Next
<1>2. ASSUME NEW w \in Workers, HandleOk(w) PROVE Promise!Next
  <2>1. cur[w] \in Pending /\ cur[w] \in Events
    BY <1>2 DEF TypeOK, SoloInv, HandledIsPending, HandleOk, Settling
  <2>2. StatusOf(cur[w]) = "pending"
    BY <2>1, StatusOfRow DEF SoloInv
  <2>3. \A e \in Events : StatusOf(e)' = StatusOf(e)
    BY <1>2 DEF HandleOk, tableVars, StatusOf
  <2>4. Promise!Deliver(cur[w])
    BY <1>2, <2>1, <2>2, <2>3 DEF Promise!Deliver, HandleOk
  <2> QED
    BY <2>1, <2>4 DEF Promise!Next
<1>3. ASSUME NEW w \in Workers, Ack(w) PROVE Promise!Next
  <2>1. cur[w] \in Pending /\ cur[w] \in Events /\ cur[w] \in delivered
    BY <1>3 DEF TypeOK, SoloInv, HandledIsPending, DeliveredInv, Ack, Settling
  <2>2. StatusOf(cur[w]) = "pending"
    BY <2>1, StatusOfRow DEF SoloInv
  <2>3. /\ UNCHANGED << issued, rows, dead, delivered >>
        /\ processed' = processed \union {cur[w]}
    BY <1>3, <2>1 DEF Ack, SetProcessed, historyVars, Pending
  <2>4. \A e \in Events : StatusOf(e)' = IF e \in {cur[w]} THEN "done" ELSE StatusOf(e)
    BY <2>1, <2>3 DEF TypeOK, Pending, StatusOf
  <2>5. Promise!Complete(cur[w])
    BY <2>1, <2>2, <2>3, <2>4, BecomesStatus DEF Promise!Complete
  <2> QED
    BY <2>1, <2>5 DEF Promise!Next, Promise!Settle
<1>4. ASSUME NEW w \in Workers, RecordOutcome(w)
      PROVE  Promise!Next \/ UNCHANGED Promise!vars
  <2>1. cur[w] \in Pending /\ cur[w] \in Events
    BY <1>4 DEF TypeOK, SoloInv, HandledIsPending, RecordOutcome, Settling
  <2>2. StatusOf(cur[w]) = "pending"
    BY <2>1, StatusOfRow DEF SoloInv
  <2>3. UNCHANGED << issued, rows, processed, delivered >>
    BY <1>4 DEF RecordOutcome, historyVars
  <2>4. CASE dead' = dead
    BY <2>3, <2>4, Stutters
  <2>5. CASE dead' = dead \union {cur[w]}
    <3>1. \A e \in Events : StatusOf(e)' = IF e \in {cur[w]} THEN "dead" ELSE StatusOf(e)
      BY <2>1, <2>3, <2>5 DEF TypeOK, Pending, StatusOf
    <3>2. Promise!Retire(cur[w])
      BY <2>2, <2>1, <2>3, <3>1, BecomesStatus DEF Promise!Retire
    <3> QED
      BY <2>1, <3>2 DEF Promise!Next, Promise!Settle
  <2>6. dead' = dead \/ dead' = dead \union {cur[w]}
    BY <1>4, <2>1 DEF RecordOutcome, Settle, SetDead, SetRetry, Pending
  <2> QED
    BY <2>4, <2>5, <2>6
<1>5. ASSUME NEW ids \in SUBSET Events, Revive(ids) PROVE Promise!Next
  <2> DEFINE S == Touched(ids)
  <2>1. S \subseteq dead /\ S \subseteq rows /\ S \in SUBSET Events
    BY DEF Touched
  <2>2. \A e \in S : StatusOf(e) = "dead"
    BY <2>1, StatusOfRow DEF SoloInv
  <2>3. UNCHANGED << issued, rows, processed, delivered >> /\ dead' = dead \ S
    BY <1>5 DEF Revive
  <2>4. \A e \in Events : StatusOf(e)' = IF e \in S THEN "pending" ELSE StatusOf(e)
    BY <2>1, <2>3 DEF TypeOK, SoloInv, DeadExhausted, StatusOf
  <2> HIDE DEF S
  <2>5. Promise!Revive(S)
    BY <2>1, <2>2, <2>3, <2>4, BecomesStatus DEF Promise!Revive
  <2> QED
    BY <2>1, <2>5 DEF Promise!Next
<1>6. ASSUME NEW ids \in SUBSET Events, Purge(ids) PROVE Promise!Next
  <2> DEFINE S == Touched(ids)
  <2>1. S \subseteq dead /\ S \subseteq rows /\ S \in SUBSET Events
    BY DEF Touched
  <2>2. \A e \in S : StatusOf(e) = "dead"
    BY <2>1, StatusOfRow DEF SoloInv
  <2>3. /\ UNCHANGED << issued, delivered >>
        /\ rows' = rows \ S
        /\ processed' = processed \ S
        /\ dead' = dead \ S
    BY <1>6 DEF Purge, historyVars
  <2>4. \A e \in Events : StatusOf(e)' = IF e \in S THEN "purged" ELSE StatusOf(e)
    BY <2>1, <2>3 DEF TypeOK, StatusOf
  <2> HIDE DEF S
  <2>5. Promise!Purge(S)
    BY <2>1, <2>2, <2>3, <2>4, BecomesStatus DEF Promise!Purge
  <2> QED
    BY <2>1, <2>5 DEF Promise!Next
<1>7. ASSUME NEW w \in Workers,
             \/ ClaimBatch(w) \/ Dispatch(w) \/ HandleFail(w)
             \/ Stop(w) \/ Restart(w) \/ Signal(w) \/ Crash(w)
      PROVE  UNCHANGED Promise!vars
  BY <1>7, Stutters
  DEF ClaimBatch, Dispatch, HandleFail, Stop, Restart, Signal, Crash, tableVars, historyVars
<1>8. ASSUME NEW w \in Workers, ClaimThrows(w) \/ AckThrows(w) \/ OutcomeThrows(w)
      PROVE  FALSE
  BY <1>8 DEF Solo, ClaimThrows, AckThrows, OutcomeThrows
<1>9. CASE Tick \/ UNCHANGED vars
  BY <1>9, Stutters DEF Tick, vars, tableVars, historyVars
<1> QED
  BY <1>1, <1>2, <1>3, <1>4, <1>5, <1>6, <1>7, <1>8, <1>9 DEF Next, WorkerStep, Fault

\* With one worker, every behaviour of the outbox is one of the contract: an event
\* is delivered before it is done, is done for good, and comes back from the dead
\* letters only through an operator.
THEOREM OneWorkerKeepsPromise == ASSUME Solo PROVE Spec => KeepsPromise
<1>1. Init => Promise!Init
  BY DEF Init, Promise!Init, StatusOf
<1>2. TypeOK /\ TypeOK' /\ DeliveredInv /\ SoloInv /\ SoloInv' /\ [Next]_vars
        => [Promise!Next]_(Promise!vars)
  BY PromiseStep
<1>3. Init => DeliveredInv
  BY DEF Init, DeliveredInv, ProcessedWasDelivered
<1>4. Spec => []DeliveredInv
  BY <1>3, DeliveredStep, TypeCorrect, PTL DEF Spec
<1> QED
  BY <1>1, <1>2, <1>4, TypeCorrect, SoloInvariant, PTL DEF Spec, KeepsPromise, Promise!Spec

-----------------------------------------------------------------------------
(* What attempts counts, for any finite number of workers and any faults *)

\* The workers that will yet report on e: an aborting one may leave its batch behind,
\* and its signal has been counted among the interruptions.
Reporting(e) == { w \in Holding(e) : ~aborting[w] }

\* The strengthening of AttemptsAccounted.
AttemptsInv ==
  \A e \in Events \ delivered :
    attempts[e] <= failures[e] + Cardinality(Reporting(e)) + interrupts

\* Sets of workers are counted by natural numbers; losing a member costs one.
LEMMA Counting ==
  ASSUME IsFiniteSet(Workers), NEW S \in SUBSET Workers, NEW T \in SUBSET Workers
  PROVE  /\ Cardinality(S) \in Nat /\ Cardinality(T) \in Nat
         /\ S \subseteq T => Cardinality(S) <= Cardinality(T)
         /\ \A w : S \ {w} \subseteq T => Cardinality(S) <= Cardinality(T) + 1
         /\ \A w : w \notin S /\ S \union {w} \subseteq T => Cardinality(S) + 1 <= Cardinality(T)
<1>1. IsFiniteSet(S) /\ IsFiniteSet(T)
  BY FS_Subset
<1>2. Cardinality(S) \in Nat /\ Cardinality(T) \in Nat
  BY <1>1, FS_CardinalityType
<1>3. S \subseteq T => Cardinality(S) <= Cardinality(T)
  BY <1>1, FS_Subset
<1>4. ASSUME NEW w, S \ {w} \subseteq T PROVE Cardinality(S) <= Cardinality(T) + 1
  <2>1. /\ Cardinality(S \ {w}) = IF w \in S THEN Cardinality(S) - 1 ELSE Cardinality(S)
    BY <1>1, FS_RemoveElement
  <2>2. Cardinality(S \ {w}) <= Cardinality(T)
    BY <1>1, <1>4, FS_Subset
  <2> QED
    BY <1>2, <2>1, <2>2
<1>5. ASSUME NEW w, w \notin S, S \union {w} \subseteq T
      PROVE  Cardinality(S) + 1 <= Cardinality(T)
  <2>1. Cardinality(S \union {w}) = Cardinality(S) + 1
    BY <1>1, <1>5, FS_AddElement
  <2>2. Cardinality(S \union {w}) <= Cardinality(T)
    BY <1>1, <1>5, FS_Subset
  <2> QED
    BY <2>1, <2>2
<1> QED
  BY <1>2, <1>3, <1>4, <1>5

\* A step keeps the account of an event that it does not deliver when no reporter is
\* lost, or the one that is lost is paid for by a failure or an interruption.
LEMMA AccountKeeps ==
  ASSUME IsFiniteSet(Workers), TypeOK, TypeOK', AttemptsInv, NEW e \in Events \ delivered',
         e \notin delivered, attempts'[e] <= attempts[e],
         failures'[e] >= failures[e], interrupts' >= interrupts,
         \/ Reporting(e) \subseteq Reporting(e)'
         \/ /\ \E w : Reporting(e) \ {w} \subseteq Reporting(e)'
            /\ failures'[e] + interrupts' > failures[e] + interrupts
  PROVE  attempts'[e] <= failures'[e] + Cardinality(Reporting(e)') + interrupts'
<1>1. Reporting(e) \in SUBSET Workers /\ Reporting(e)' \in SUBSET Workers
  BY DEF Reporting, Holding
<1>2. /\ Cardinality(Reporting(e)) \in Nat /\ Cardinality(Reporting(e)') \in Nat
      /\ \/ Cardinality(Reporting(e)) <= Cardinality(Reporting(e)')
         \/ /\ Cardinality(Reporting(e)) <= Cardinality(Reporting(e)') + 1
            /\ failures'[e] + interrupts' > failures[e] + interrupts
  BY <1>1, Counting
<1>3. attempts[e] <= failures[e] + Cardinality(Reporting(e)) + interrupts
  BY DEF AttemptsInv
<1>4. /\ attempts[e] \in Nat /\ failures[e] \in Nat /\ interrupts \in Nat
      /\ attempts'[e] \in Nat /\ failures'[e] \in Nat /\ interrupts' \in Nat
  BY DEF TypeOK
<1> QED
  BY <1>2, <1>3, <1>4

\* Finishing an event takes nothing but that event from a worker that goes on.
LEMMA FinishEventReports ==
  ASSUME TypeOK, NEW w \in Workers, FinishEvent(w), NEW e \in Events,
         wpc[w] = "failing" \/ e # cur[w]
  PROVE  Reporting(e) \subseteq Reporting(e)'
<1> SUFFICES ASSUME NEW v \in Reporting(e) PROVE v \in Reporting(e)'
  OBVIOUS
<1> USE DEF Reporting, Holding
<1>1. CASE v # w
  BY <1>1 DEF FinishEvent, TypeOK
<1>2. CASE v = w
  <2>1. ~aborting[w] /\ e \in batch[w] /\ e # cur[w]
    BY <1>2
  <2>2. e \in batch'[w] /\ wpc'[w] \in {"idle", "loop"} /\ aborting'[w] = aborting[w]
    BY <2>1 DEF FinishEvent, TypeOK
  <2> QED
    BY <1>2, <2>1, <2>2
<1> QED
  BY <1>1, <1>2

LEMMA AttemptsStep ==
  ASSUME IsFiniteSet(Workers), TypeOK, TypeOK', DeliveredInv, AttemptsInv, [Next]_vars
  PROVE  AttemptsInv'
<1> SUFFICES ASSUME NEW e \in Events \ delivered'
             PROVE  attempts'[e] <= failures'[e] + Cardinality(Reporting(e)') + interrupts'
  BY DEF AttemptsInv
<1> DEFINE Goal == attempts'[e] <= failures'[e] + Cardinality(Reporting(e)') + interrupts'
<1>0. e \in Events /\ attempts[e] \in Nat /\ failures[e] \in Nat /\ interrupts \in Nat
  BY DEF TypeOK
<1>1. ASSUME NEW new \in SUBSET Events, Enqueue(new) PROVE Goal
  BY <1>0, <1>1, AccountKeeps DEF Enqueue, workerVars, historyVars, Reporting, Holding
<1>2. CASE Tick \/ UNCHANGED vars
  BY <1>0, <1>2, AccountKeeps
  DEF Tick, vars, tableVars, workerVars, historyVars, Reporting, Holding
<1>3. ASSUME NEW w \in Workers, ClaimBatch(w) PROVE Goal
  <2>1. PICK chosen \in ClaimResults(w) :
          /\ Bump(chosen)
          /\ batch' = [batch EXCEPT ![w] = chosen]
    BY <1>3 DEF ClaimBatch
  <2>2. /\ batch[w] = {} /\ wpc[w] = "idle" /\ ~aborting[w] /\ wpc'[w] = "loop"
        /\ \A v \in Workers \ {w} : wpc'[v] = wpc[v] /\ batch'[v] = batch[v]
        /\ batch'[w] = chosen
        /\ UNCHANGED << cur, aborting, delivered, failures, interrupts >>
    BY <1>3, <2>1 DEF ClaimBatch, TypeOK, historyVars
  <2>3. attempts'[e] = attempts[e] + (IF e \in chosen THEN 1 ELSE 0)
    BY <1>0, <2>1 DEF Bump
  <2>4. w \notin Reporting(e) /\ Reporting(e) \subseteq Reporting(e)'
    BY <2>2 DEF Reporting, Holding
  <2>5. CASE e \notin chosen
    BY <1>0, <2>2, <2>3, <2>4, <2>5, AccountKeeps
  <2>6. CASE e \in chosen
    <3>1. Reporting(e) \union {w} \subseteq Reporting(e)'
      BY <2>2, <2>4, <2>6 DEF Reporting, Holding
    <3>2. /\ Cardinality(Reporting(e)) \in Nat /\ Cardinality(Reporting(e)') \in Nat
          /\ Cardinality(Reporting(e)) + 1 <= Cardinality(Reporting(e)')
      <4>1. Reporting(e) \in SUBSET Workers /\ Reporting(e)' \in SUBSET Workers
        BY DEF Reporting, Holding
      <4> QED
        BY <2>4, <3>1, <4>1, Counting
    <3>3. attempts[e] <= failures[e] + Cardinality(Reporting(e)) + interrupts
      BY <2>2 DEF AttemptsInv
    <3> QED
      BY <1>0, <2>2, <2>3, <2>6, <3>2, <3>3
  <2> QED
    BY <2>5, <2>6
<1>4. ASSUME NEW w \in Workers, ClaimThrows(w) PROVE Goal
  <2>1. /\ Reporting(e)' = Reporting(e)
        /\ UNCHANGED << delivered, failures >> /\ interrupts' = interrupts + 1
    BY <1>4 DEF ClaimThrows, workerVars, Reporting, Holding
  <2>2. attempts'[e] <= attempts[e] + 1 /\ attempts'[e] \in Nat
    BY <1>0, <1>4 DEF ClaimThrows, Bump
  <2>3. attempts[e] <= failures[e] + Cardinality(Reporting(e)) + interrupts
    BY <2>1 DEF AttemptsInv
  <2>4. Cardinality(Reporting(e)) \in Nat
    <3>1. Reporting(e) \in SUBSET Workers
      BY DEF Reporting, Holding
    <3> QED
      BY <3>1, Counting
  <2> QED
    BY <1>0, <2>1, <2>2, <2>3, <2>4
<1>5. ASSUME NEW w \in Workers, Dispatch(w) \/ HandleOk(w) PROVE Goal
  <2>1. Reporting(e) \subseteq Reporting(e)'
    BY <1>5 DEF Dispatch, HandleOk, TypeOK, Reporting, Holding
  <2> QED
    BY <1>0, <1>5, <2>1, AccountKeeps DEF Dispatch, HandleOk, tableVars, historyVars
<1>6. ASSUME NEW w \in Workers, HandleFail(w) PROVE Goal
  <2>1. Reporting(e) \ {w} \subseteq Reporting(e)'
    BY <1>6 DEF HandleFail, TypeOK, Reporting, Holding
  <2>2. e # cur[w] => Reporting(e) \subseteq Reporting(e)'
    BY <1>6 DEF HandleFail, TypeOK, Reporting, Holding
  <2>3. /\ failures'[e] = IF e = cur[w] THEN failures[e] + 1 ELSE failures[e]
        /\ UNCHANGED << attempts, delivered, interrupts >>
    BY <1>0, <1>6 DEF HandleFail, TypeOK, tableVars
  <2> QED
    BY <1>0, <2>1, <2>2, <2>3, AccountKeeps
<1>7. ASSUME NEW w \in Workers, Ack(w) PROVE Goal
  <2>1. e # cur[w] /\ FinishEvent(w) /\ UNCHANGED << attempts, historyVars >>
    BY <1>7 DEF Ack, DeliveredInv, historyVars
  <2>2. Reporting(e) \subseteq Reporting(e)'
    BY <1>0, <2>1, FinishEventReports
  <2> QED
    BY <1>0, <2>1, <2>2, AccountKeeps DEF historyVars
<1>8. ASSUME NEW w \in Workers, RecordOutcome(w) PROVE Goal
  <2>1. Reporting(e) \subseteq Reporting(e)'
    BY <1>0, <1>8, FinishEventReports DEF RecordOutcome
  <2> QED
    BY <1>0, <1>8, <2>1, AccountKeeps DEF RecordOutcome, historyVars
<1>9. ASSUME NEW w \in Workers, AckThrows(w) \/ OutcomeThrows(w) \/ Signal(w) \/ Crash(w)
      PROVE  Goal
  <2>1. /\ UNCHANGED << attempts, delivered, failures >> /\ interrupts' = interrupts + 1
    BY <1>9 DEF AckThrows, OutcomeThrows, Signal, Crash, tableVars
  <2>2. Reporting(e) \ {w} \subseteq Reporting(e)'
    BY <1>9 DEF AckThrows, OutcomeThrows, Signal, Crash, DropBatch, TypeOK, Reporting, Holding
  <2> QED
    BY <1>0, <2>1, <2>2, AccountKeeps
<1>10. ASSUME NEW w \in Workers, Stop(w) \/ Restart(w) PROVE Goal
  <2>1. Reporting(e) \subseteq Reporting(e)'
    BY <1>10 DEF Stop, Restart, TypeOK, Reporting, Holding
  <2> QED
    BY <1>0, <1>10, <2>1, AccountKeeps DEF Stop, Restart, tableVars, historyVars
<1>11. ASSUME NEW ids \in SUBSET Events, Revive(ids) PROVE Goal
  <2>1. Reporting(e)' = Reporting(e) /\ UNCHANGED << delivered, interrupts >>
    BY <1>11 DEF Revive, workerVars, Reporting, Holding
  <2>2. IF e \in Touched(ids) THEN attempts'[e] = 0 /\ failures'[e] = 0
        ELSE attempts'[e] = attempts[e] /\ failures'[e] = failures[e]
    BY <1>0, <1>11 DEF Revive
  <2>3. attempts[e] <= failures[e] + Cardinality(Reporting(e)) + interrupts
    BY <2>1 DEF AttemptsInv
  <2>4. Cardinality(Reporting(e)) \in Nat
    <3>1. Reporting(e) \in SUBSET Workers
      BY DEF Reporting, Holding
    <3> QED
      BY <3>1, Counting
  <2> QED
    BY <1>0, <2>1, <2>2, <2>3, <2>4
<1>12. ASSUME NEW ids \in SUBSET Events, Purge(ids) PROVE Goal
  BY <1>0, <1>12, AccountKeeps DEF Purge, workerVars, historyVars, Reporting, Holding
<1> QED
  BY <1>1, <1>2, <1>3, <1>4, <1>5, <1>6, <1>7, <1>8, <1>9, <1>10, <1>11, <1>12
  DEF Next, WorkerStep, Fault

\* attempts never exceeds the failed dispatches, what the workers hold and the
\* interruptions together: no interleaving of workers, crashes, lost answers, revives
\* and purges spends an attempt that none of these accounts for.
THEOREM AttemptsAreAccounted ==
  ASSUME IsFiniteSet(Workers) PROVE Spec => []AttemptsAccounted
<1>1. ASSUME Init PROVE AttemptsInv
  <2>1. ASSUME NEW e \in Events
        PROVE  /\ attempts[e] = 0 /\ failures[e] = 0 /\ interrupts = 0
               /\ Cardinality(Reporting(e)) \in Nat
    <3>1. Reporting(e) \in SUBSET Workers
      BY DEF Reporting, Holding
    <3> QED
      BY <1>1, <3>1, Counting DEF Init
  <2> QED
    BY <2>1 DEF AttemptsInv
<1>2. ASSUME TypeOK, AttemptsInv PROVE AttemptsAccounted
  <2>1. ASSUME NEW e \in Events \ delivered
        PROVE  attempts[e] <= failures[e] + Cardinality(Holding(e)) + interrupts
    <3>1. Reporting(e) \in SUBSET Workers /\ Holding(e) \in SUBSET Workers
      BY DEF Reporting, Holding
    <3>2. /\ Cardinality(Reporting(e)) \in Nat /\ Cardinality(Holding(e)) \in Nat
          /\ Cardinality(Reporting(e)) <= Cardinality(Holding(e))
      <4>1. Reporting(e) \subseteq Holding(e)
        BY DEF Reporting
      <4> QED
        BY <3>1, <4>1, Counting
    <3>3. attempts[e] \in Nat /\ failures[e] \in Nat /\ interrupts \in Nat
      BY <1>2 DEF TypeOK
    <3> QED
      BY <1>2, <3>2, <3>3 DEF AttemptsInv
  <2> QED
    BY <2>1 DEF AttemptsAccounted
<1>3. Init => DeliveredInv
  BY DEF Init, DeliveredInv, ProcessedWasDelivered
<1>4. Spec => []DeliveredInv
  BY <1>3, DeliveredStep, TypeCorrect, PTL DEF Spec
<1>5. TypeOK /\ TypeOK' /\ DeliveredInv /\ AttemptsInv /\ [Next]_vars => AttemptsInv'
  BY AttemptsStep
<1> QED
  BY <1>1, <1>2, <1>4, <1>5, TypeCorrect, PTL DEF Spec
=============================================================================
