----------------------------- MODULE GrantSync -----------------------------
(***************************************************************************)
(* Keeping OpenFGA in step with the role bindings in PostgreSQL: the       *)
(* services that change bindings, roles and tenants, each in a transaction *)
(* that enqueues an outbox event, and GrantMaterializer, which re-reads    *)
(* the database when an event is dispatched and writes or deletes          *)
(* scope-grant tuples one at a time.                                       *)
(*                                                                         *)
(* A transaction of a service is one action.  A handler is one action per  *)
(* query or OpenFGA call it awaits, so transactions (and the handlers of   *)
(* other workers) fall between them.                                       *)
(*                                                                         *)
(* The outbox is reduced to what module Outbox shows of it: a pending      *)
(* event stays pending until a handler of it returns and it is             *)
(* acknowledged; a handler may fail at any await and the event be          *)
(* dispatched again; later events may overtake one that is backing off,    *)
(* and RETURNING promises no order within a batch, so any pending event    *)
(* may be next.                                                            *)
(***************************************************************************)
EXTENDS Tenancy, FiniteSets

CONSTANTS
  Master,      \* MASTER_TENANT_ID
  Principals,
  Roles,       \* roles of the master tenant, which is never deleted
  Scopes,      \* scopes of any tenant, which a role may hold wherever it is bound
  Crosses,     \* column crosses_boundary of each role
  Owner,       \* column tenant_id of each scope
  Workers,     \* outbox workers
  Nothing,     \* an unset field of a handler
  Operations,  \* the kinds of service call a run considers
  MaxTxns,     \* bound: transactions in a behaviour
  MaxFailures  \* bound: handlers that fail in a behaviour

AllOperations == { "bind", "revoke", "revokeAll", "expire", "addScopes", "removeScope",
                   "createTenant", "deleteTenant" }

ASSUME GrantSyncAssumption ==
  /\ Master \in Tenants
  /\ Crosses \in [Roles -> BOOLEAN]
  /\ Owner \in [Scopes -> Tenants]
  /\ Operations \subseteq AllOperations
  /\ MaxTxns \in Nat
  /\ MaxFailures \in Nat

VARIABLES
  tenants,     \* rows of tenants
  dropped,     \* ids of deleted tenants
  bindings,    \* rows of role_bindings, <<principal, role, tenant>>
  revoked,     \* bindings with revoked_at set
  expired,     \* bindings whose expires_at has passed
  roleScopes,  \* rows of role_scopes, <<role, scope>>
  removed,     \* history: pairs whose row of role_scopes was deleted at some time
  pending,     \* outbox rows not yet acknowledged
  fga,         \* tuples in the OpenFGA store, <<principal, scope, tenant>>
  handler,     \* what each worker is doing
  txns,        \* bound: transactions so far; numbers the events too
  failed,      \* bound: failed handlers so far
  overtaken    \* history: pairs missing from role_scopes when an addition of them was handled

dbVars == << tenants, dropped, bindings, revoked, expired, roleScopes, removed >>
vars   == << dbVars, pending, fga, handler, txns, failed, overtaken >>

\* The unique index on (principal, role, tenant) makes the triple a key.
Bindings == Principals \X Roles \X Tenants
Tuples   == Principals \X Scopes \X Tenants

\* Outbox rows: the transaction, the kind, and the argument a payload of it carries.
Events ==
  [txn : Nat, kind : {"role_binding.created", "role_binding.revoked"}, arg : Bindings]
    \union [txn : Nat, kind : {"tenant.created"}, arg : Tenants]
    \union [txn : Nat, kind : {"role.scope_added", "role.scope_removed"}, arg : Roles \X Scopes]

ASSUME NothingAssumption == Nothing \notin Events \union Bindings \union Tuples

Idle == [ stage |-> "idle", event |-> Nothing, above |-> {}, list |-> {},
          binding |-> Nothing, scopes |-> {}, todo |-> {}, tuple |-> Nothing ]

-----------------------------------------------------------------------------
(* What the database says *)

\* activePredicate(): neither revoked nor expired.
Active == bindings \ (revoked \union expired)

ScopesOf(role) == { s \in Scopes : << role, s >> \in roleScopes }

EffectiveDescendants(tenant, role) ==
  { t \in tenants : tenant \in tenants /\ Reaches(tenant, t, Crosses[role]) }

\* Binding b calls for tuple u: its principal, a scope of its role, a tenant it
\* reaches.
Justifies(b, u) ==
  /\ b[1] = u[1]
  /\ << b[2], u[2] >> \in roleScopes
  /\ u[3] \in EffectiveDescendants(b[3], b[2])

\* What the store should hold: a tuple for every grant of an active binding.
Desired == { u \in Tuples : \E b \in Active : Justifies(b, u) }

\* Mutation: the handler does not look for other bindings.
StillProvided_Never(u, other) == FALSE

\* isStillProvided and its variant after a scope removal: another active binding
\* of the principal grants u.  `other` is the revoked binding, or Nothing.  The
\* code reads the candidates first and their roles and tenants after; while u's
\* tenant exists that answers as of the first read, and once it is deleted as of
\* the last, so one instant stands for all of them.
StillProvided(u, other) ==
  \E b \in Active \ {other} : Justifies(b, u)

-----------------------------------------------------------------------------
(* The services *)

Init ==
  /\ tenants \in { T \in SUBSET Tenants :
                     Master \in T /\ \A t \in T : Ancestors[t] \subseteq T }
  /\ roleScopes \in SUBSET (Roles \X { s \in Scopes : Owner[s] \in tenants })
  /\ dropped = {} /\ bindings = {} /\ revoked = {} /\ expired = {}
  /\ pending = {} /\ fga = {}
  /\ handler = [w \in Workers |-> Idle]
  /\ txns = 0 /\ failed = 0
  /\ removed = {} /\ overtaken = {}

\* Transaction `op` commits and enqueues an event of this kind for each argument.
Commits(op, kind, args) ==
  /\ op \in Operations
  /\ txns < MaxTxns
  /\ txns' = txns + 1
  /\ pending' = pending \union { [txn |-> txns, kind |-> kind, arg |-> a] : a \in args }
  /\ UNCHANGED << fga, handler, failed, overtaken >>

Bind(b) ==
  /\ b[3] \in tenants
  /\ b \notin bindings
  /\ bindings' = bindings \union {b}
  /\ Commits("bind", "role_binding.created", {b})
  /\ UNCHANGED << tenants, dropped, revoked, expired, roleScopes, removed >>

\* revoke() looks for the row only: a second revoke sends a second event.
Revoke(b) ==
  /\ b \in bindings
  /\ revoked' = revoked \union {b}
  /\ Commits("revoke", "role_binding.revoked", {b})
  /\ UNCHANGED << tenants, dropped, bindings, expired, roleScopes, removed >>

RevokeAllBindings(p) ==
  LET active == { b \in Active : b[1] = p }
  IN  /\ active # {}
      /\ revoked' = revoked \union active
      /\ Commits("revokeAll", "role_binding.revoked", active)
      /\ UNCHANGED << tenants, dropped, bindings, expired, roleScopes, removed >>

\* expires_at passes.  No transaction, no event.
Expire(b) ==
  /\ "expire" \in Operations
  /\ b \in Active
  /\ expired' = expired \union {b}
  /\ UNCHANGED << tenants, dropped, bindings, revoked, roleScopes, removed, pending, fga,
                  handler, txns, failed, overtaken >>

\* ON CONFLICT DO NOTHING, but an event for every scope that was asked for.  The
\* scopes may be those of any tenant; only that they exist is checked, by the
\* foreign key.
AddScopes(r, S) ==
  /\ S # {}
  /\ \A s \in S : Owner[s] \in tenants
  /\ roleScopes' = roleScopes \union ({r} \X S)
  /\ Commits("addScopes", "role.scope_added", {r} \X S)
  /\ UNCHANGED << tenants, dropped, bindings, revoked, expired, removed >>

RemoveScope(r, s) ==
  /\ roleScopes' = roleScopes \ {<< r, s >>}
  /\ removed' = removed \union (roleScopes \ roleScopes')
  /\ Commits("removeScope", "role.scope_removed", {<< r, s >>})
  /\ UNCHANGED << tenants, dropped, bindings, revoked, expired >>

CreateTenant(t) ==
  /\ t \notin tenants \union dropped
  /\ Parent[t] \in tenants
  /\ tenants' = tenants \union {t}
  /\ Commits("createTenant", "tenant.created", {t})
  /\ UNCHANGED << dropped, bindings, revoked, expired, roleScopes, removed >>

\* Mutation: the cascades leave their rows behind.
DeleteTenant_NoCascade(t) ==
  /\ t \in tenants \ {Master}
  /\ \A c \in tenants : Parent[c] # t
  /\ \A b \in Active : b[3] # t
  /\ tenants' = tenants \ {t}
  /\ dropped' = dropped \union {t}
  /\ Commits("deleteTenant", "none", {})
  /\ UNCHANGED << bindings, revoked, expired, roleScopes, removed >>

\* The drain rule, then the cascades: to the inactive bindings, and by way of the
\* tenant's scopes to the rows of role_scopes, of roles bound elsewhere too.  No event.
DeleteTenant(t) ==
  /\ t \in tenants \ {Master}
  /\ \A c \in tenants : Parent[c] # t
  /\ \A b \in Active : b[3] # t
  /\ tenants' = tenants \ {t}
  /\ dropped' = dropped \union {t}
  /\ bindings' = { b \in bindings : b[3] # t }
  /\ revoked' = revoked \intersect bindings'
  /\ expired' = expired \intersect bindings'
  /\ roleScopes' = { p \in roleScopes : Owner[p[2]] # t }
  /\ removed' = removed \union (roleScopes \ roleScopes')
  /\ Commits("deleteTenant", "none", {})

-----------------------------------------------------------------------------
(* The materializer *)

\* Handlers of these kinds delete tuples; the others write them.
Deleting == { "role_binding.revoked", "role.scope_removed" }

\* Worker w's handler moves on to h.  The history takes the pair of an addition whose
\* handler is about to write for it, when the role does not have the scope any more.
Becomes(w, h) ==
  /\ handler' = [handler EXCEPT ![w] = h]
  /\ overtaken' = overtaken \union
       (IF handler[w].stage = "next" /\ h.stage = "tenants" /\ h.event.kind = "role.scope_added"
          THEN {h.event.arg} \ roleScopes ELSE {})
  /\ UNCHANGED << dbVars, txns >>

Start(w, ev) ==
  /\ handler[w].stage = "idle"
  /\ Becomes(w, [Idle EXCEPT !.stage = "row", !.event = ev])
  /\ UNCHANGED << pending, fga, failed >>

\* Mutation: a creation that was revoked meanwhile is still materialized.
BindingsOf_EvenRevoked(ev) ==
  CASE ev.kind \in {"role_binding.created", "role_binding.revoked"} -> {ev.arg} \intersect bindings
    [] ev.kind = "tenant.created"       -> {}
    [] OTHER                            -> { b \in Active : b[2] = ev.arg[1] }

\* The bindings a handler starts from: the row its event names (skipped when it
\* has vanished, or when a creation was revoked since), or the active bindings of
\* the role.  A tenant's are listed ancestor by ancestor.
BindingsOf(ev) ==
  CASE ev.kind = "role_binding.created" -> {ev.arg} \intersect (bindings \ revoked)
    [] ev.kind = "role_binding.revoked" -> {ev.arg} \intersect bindings
    [] ev.kind = "tenant.created"       -> {}
    [] OTHER                            -> { b \in Active : b[2] = ev.arg[1] }

\* Mutation: only the new tenant's own bindings are looked at.
AncestorsOf_Self(ev) ==
  IF ev.kind = "tenant.created" /\ ev.arg \in tenants THEN {ev.arg} ELSE {}

\* The tenants whose bindings may reach a new tenant, if it still exists.
AncestorsOf(ev) ==
  IF ev.kind = "tenant.created" /\ ev.arg \in tenants THEN Ancestors[ev.arg] ELSE {}

\* The first query of the handler.
ReadRow(w) ==
  LET h == handler[w]
  IN  /\ h.stage = "row"
      /\ Becomes(w, [h EXCEPT !.stage = "next", !.list = BindingsOf(h.event),
                              !.above = AncestorsOf(h.event)])
      /\ UNCHANGED << pending, fga, failed >>

\* listForTenant(ancestor, activeOnly), when the bindings of the one before are done.
ListAncestor(w) ==
  LET h == handler[w]
  IN  /\ h.stage = "next"
      /\ h.list = {}
      /\ \E a \in h.above :
           Becomes(w, [h EXCEPT !.above = @ \ {a}, !.list = { b \in Active : b[3] = a }])
      /\ UNCHANGED << pending, fga, failed >>

\* The next binding, with its role's scopes (getWithScopes), or the one scope of
\* a role event.
ReadScopes(w) ==
  LET h == handler[w]
  IN  /\ h.stage = "next"
      /\ \E b \in h.list :
           Becomes(w, [h EXCEPT !.stage = "tenants", !.binding = b, !.list = @ \ {b},
                                !.scopes = IF h.event.kind \in {"role.scope_added", "role.scope_removed"}
                                             THEN {h.event.arg[2]} ELSE ScopesOf(b[2])])
      /\ UNCHANGED << pending, fga, failed >>

\* getEffectiveDescendants, and the tuples that follow from it.
ReadTenants(w) ==
  LET h   == handler[w]
      eff == EffectiveDescendants(h.binding[3], h.binding[2])
      at  == IF h.event.kind = "tenant.created" THEN eff \intersect {h.event.arg} ELSE eff
  IN  /\ h.stage = "tenants"
      /\ Becomes(w, [h EXCEPT !.stage = "tuples", !.todo = {h.binding[1]} \X h.scopes \X at])
      /\ UNCHANGED << pending, fga, failed >>

\* writeOne; a tuple that is there already is no error.
WriteOne(w) ==
  LET h == handler[w]
  IN  /\ h.stage = "tuples"
      /\ h.event.kind \notin Deleting
      /\ \E u \in h.todo :
           /\ fga' = fga \union {u}
           /\ Becomes(w, [h EXCEPT !.todo = @ \ {u}])
      /\ UNCHANGED << pending, failed >>

\* The check that comes before a delete ...
CheckOne(w) ==
  LET h == handler[w]
      revokedOne == IF h.event.kind = "role_binding.revoked" THEN h.binding ELSE Nothing
  IN  /\ h.stage = "tuples"
      /\ h.event.kind \in Deleting
      /\ \E u \in h.todo :
           Becomes(w, IF StillProvided(u, revokedOne)
                        THEN [h EXCEPT !.todo = @ \ {u}]
                        ELSE [h EXCEPT !.stage = "delete", !.todo = @ \ {u}, !.tuple = u])
      /\ UNCHANGED << pending, fga, failed >>

\* ... and deleteOne, which tolerates a tuple that is not there.
DeleteOne(w) ==
  LET h == handler[w]
  IN  /\ h.stage = "delete"
      /\ fga' = fga \ {h.tuple}
      /\ Becomes(w, [h EXCEPT !.stage = "tuples", !.tuple = Nothing])
      /\ UNCHANGED << pending, failed >>

\* The loop over one binding's tuples ends.
NextBinding(w) ==
  LET h == handler[w]
  IN  /\ h.stage = "tuples"
      /\ h.todo = {}
      /\ Becomes(w, [h EXCEPT !.stage = "next", !.binding = Nothing, !.scopes = {}])
      /\ UNCHANGED << pending, fga, failed >>

\* handle() has returned; ackProcessed.
Ack(w) ==
  LET h == handler[w]
  IN  /\ h.stage = "next"
      /\ h.list = {} /\ h.above = {}
      /\ pending' = pending \ {h.event}
      /\ Becomes(w, Idle)
      /\ UNCHANGED << fga, failed >>

\* A query or an OpenFGA call throws, the worker crashes, or the acknowledgement
\* is lost: the event stays pending and will be dispatched again.
Fail(w) ==
  /\ handler[w].stage # "idle"
  /\ failed < MaxFailures
  /\ failed' = failed + 1
  /\ Becomes(w, Idle)
  /\ UNCHANGED << pending, fga >>

-----------------------------------------------------------------------------
(* Specification *)

ServiceCall ==
  \/ \E b \in Bindings : Bind(b) \/ Revoke(b) \/ Expire(b)
  \/ \E p \in Principals : RevokeAllBindings(p)
  \/ \E r \in Roles, S \in SUBSET Scopes : AddScopes(r, S)
  \/ \E r \in Roles, s \in Scopes : RemoveScope(r, s)
  \/ \E t \in Tenants : CreateTenant(t) \/ DeleteTenant(t)

WorkerStep(w) ==
  \/ \E ev \in pending : Start(w, ev)
  \/ ReadRow(w) \/ ListAncestor(w) \/ ReadScopes(w) \/ ReadTenants(w)
  \/ WriteOne(w) \/ CheckOne(w) \/ DeleteOne(w) \/ NextBinding(w) \/ Ack(w)

Next == ServiceCall \/ \E w \in Workers : WorkerStep(w) \/ Fail(w)

Spec == Init /\ [][Next]_vars

\* OutboxWorker.run keeps claiming and dispatching; nothing obliges a client to
\* call, and a handler fails finitely often (or the event is dead-lettered).
FairSpec == Spec /\ \A w \in Workers : WF_vars(WorkerStep(w))

-----------------------------------------------------------------------------
(* Properties *)

Stages == { "idle", "row", "next", "tenants", "tuples", "delete" }

HandlerRecords ==
  [ stage : Stages, event : Events \union {Nothing}, above : SUBSET Tenants,
    list : SUBSET Bindings, binding : Bindings \union {Nothing}, scopes : SUBSET Scopes,
    todo : SUBSET Tuples, tuple : Tuples \union {Nothing} ]

\* The type of every variable; the tree of tenants has no dangling link, a binding row
\* has its tenant, and a row of role_scopes the tenant of its scope (the foreign keys).
TypeOK ==
  /\ tenants \in SUBSET Tenants
  /\ \A t \in tenants : Ancestors[t] \subseteq tenants
  /\ dropped \in SUBSET (Tenants \ tenants)
  /\ bindings \in SUBSET (Principals \X Roles \X tenants)
  /\ revoked \in SUBSET bindings
  /\ expired \in SUBSET bindings
  /\ roleScopes \in SUBSET (Roles \X Scopes)
  /\ \A p \in roleScopes : Owner[p[2]] \in tenants
  /\ removed \in SUBSET (Roles \X Scopes)
  /\ pending \subseteq Events
  /\ fga \in SUBSET Tuples
  /\ handler \in [Workers -> HandlerRecords]
  /\ \A w \in Workers :
       LET h == handler[w]
       IN  /\ h.stage = "idle" <=> h.event = Nothing
           /\ h.stage \in { "tenants", "tuples", "delete" } => h.binding # Nothing
           /\ h.stage = "delete" <=> h.tuple # Nothing
  /\ \A ev \in pending \union { handler[w].event : w \in Workers } :
       ev # Nothing => ev.txn < txns
  /\ txns \in 0 .. MaxTxns
  /\ failed \in 0 .. MaxFailures
  /\ overtaken \in SUBSET (Roles \X Scopes)

\* An event whose handler, run from here, would write tuple u.
Announces(ev, u) ==
  \/ ev.kind = "role_binding.created" /\ ev.arg \in Active /\ Justifies(ev.arg, u)
  \/ ev.kind = "tenant.created" /\ ev.arg = u[3]
  \/ /\ ev.kind = "role.scope_added" /\ ev.arg[2] = u[2]
     /\ \E b \in Active : b[2] = ev.arg[1] /\ Justifies(b, u)

\* With one worker no grant is lost: a tuple that an active binding calls for is
\* in the store, or an event that will write it is still in the outbox.  Neither
\* the order of events, nor a retried or half-done handler, nor a transaction
\* that commits between a handler's check and its delete breaks this.
GrantsAnnounced ==
  \A u \in Desired \ fga : \E ev \in pending : Announces(ev, u)

\* Binding b reaches tuple u, with or without the scope.
Covers(b, u) == b[1] = u[1] /\ u[3] \in EffectiveDescendants(b[3], b[2])

\* An event whose handler, run from here, would delete tuple u, unless another binding
\* calls for it.
Retracts(ev, u) ==
  \/ ev.kind = "role_binding.revoked" /\ Justifies(ev.arg, u)
  \/ /\ ev.kind = "role.scope_removed" /\ ev.arg[2] = u[2]
     /\ \E b \in Active : b[2] = ev.arg[1] /\ Covers(b, u)

\* The ways in which a tuple that nothing calls for stays: its tenant was deleted; its
\* scope went with the tenant that owned it; its binding has expired, and nobody revoked
\* it; its scope was taken from the role while the binding ended too, and each handler
\* found the other thing gone; or the scope was taken away before its addition was handled.
Forgotten(u) ==
  \/ u[3] \in dropped
  \/ Owner[u[2]] \in dropped
  \/ \E b \in expired \ revoked : Justifies(b, u)
  \/ \E b \in bindings : Covers(b, u) /\ << b[2], u[2] >> \in
       IF b \in Active THEN overtaken ELSE removed

\* With one worker, whatever the services do, every tuple that no active binding calls for
\* is about to be deleted by an event in the outbox, or was left in one of the ways above.
\* Retries, reordering, half-done handlers and transactions that commit while a handler
\* runs leave nothing else behind.
LeaksExplained ==
  \A u \in fga \ Desired : (\E ev \in pending : Retracts(ev, u)) \/ Forgotten(u)

\* With one worker, and as long as no scope is taken from a role, no binding expires and
\* no tenant is deleted, the store converges: once the services stop, it comes to hold
\* the desired tuples and nothing else.
Converges == <>[](fga = Desired)

-----------------------------------------------------------------------------
(* Statements of the documentation that the code does not keep *)

\* "DB writes and OpenFGA tuple updates stay in sync via an outbox table + worker":
\* when the outbox is drained the store holds the desired tuples.  Removed scopes, expiry
\* and deleted tenants break it; as long as revokes alone end grants, it is kept.
InSyncWhenDrained == pending = {} => fga = Desired

=============================================================================
