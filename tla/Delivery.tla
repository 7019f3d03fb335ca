------------------------------ MODULE Delivery ------------------------------
(***************************************************************************)
(* What the transactional outbox promises the services that enqueue into   *)
(* it: an event submitted with a business transaction is delivered at      *)
(* least once before it is called done, or it is retired to a place where  *)
(* an operator can see it and take it back; nothing else happens to it.    *)
(*                                                                         *)
(* Rows, claims, batches, clocks and worker processes do not appear here:  *)
(* module Outbox implements this specification (see MCOutbox and           *)
(* OutboxProofs).                                                          *)
(***************************************************************************)

CONSTANT Events

VARIABLES
  status,     \* where each event stands
  delivered   \* events that some delivery attempt has carried out

vars == << status, delivered >>

Status == {"none", "pending", "done", "dead", "purged"}

Init ==
  /\ status = [e \in Events |-> "none"]
  /\ delivered = {}

Become(S, s) == status' = [e \in Events |-> IF e \in S THEN s ELSE status[e]]

\* A business transaction commits its events, all or none.
Submit(S) ==
  /\ \A e \in S : status[e] = "none"
  /\ Become(S, "pending")
  /\ UNCHANGED delivered

\* An attempt succeeds; the event stays pending until that is recorded, so it
\* may be delivered again.
Deliver(e) ==
  /\ status[e] = "pending"
  /\ delivered' = delivered \union {e}
  /\ UNCHANGED status

Complete(e) ==
  /\ status[e] = "pending"
  /\ e \in delivered
  /\ Become({e}, "done")
  /\ UNCHANGED delivered

Retire(e) ==
  /\ status[e] = "pending"
  /\ Become({e}, "dead")
  /\ UNCHANGED delivered

\* An operator takes retired events back, or discards them for good.
Revive(S) ==
  /\ \A e \in S : status[e] = "dead"
  /\ Become(S, "pending")
  /\ UNCHANGED delivered

Purge(S) ==
  /\ \A e \in S : status[e] = "dead"
  /\ Become(S, "purged")
  /\ UNCHANGED delivered

Settle(e) == Complete(e) \/ Retire(e)

Next ==
  \/ \E S \in SUBSET Events : Submit(S) \/ Revive(S) \/ Purge(S)
  \/ \E e \in Events : Deliver(e) \/ Settle(e)

Spec == Init /\ [][Next]_vars

\* No event stays pending for ever.
FairSpec == Spec /\ \A e \in Events : WF_vars(Settle(e))

=============================================================================
