--------------------------- MODULE GrantSyncProofs ---------------------------
(***************************************************************************)
(* Theorems about module GrantSync: for any tree of tenants, any roles,    *)
(* scopes and principals, and any number of transactions and failures, one *)
(* worker loses no grant; and none leaks, as long as nothing but a revoke  *)
(* takes a grant away.                                                     *)
(***************************************************************************)
EXTENDS GrantSync, TLAPS

-----------------------------------------------------------------------------
(* The inductive invariants *)

\* Event ev announces tuple u on behalf of binding b.  (Announces says so of some
\* binding: that is not inductive, for the binding may be revoked while another
\* calls for the tuple too.)
AnnouncesFor(ev, b, u) ==
  \/ ev.kind = "role_binding.created" /\ ev.arg = b
  \/ ev.kind = "tenant.created" /\ ev.arg = u[3]
  \/ ev.kind = "role.scope_added" /\ ev.arg = << b[2], u[2] >>

\* The pairs that the store owes: an active binding, and a tuple it calls for.
Owed(b, u) == b \in Active /\ u \in Tuples \ fga /\ Justifies(b, u)

AllCovered ==
  \A b \in Bindings, u \in Tuples :
    Owed(b, u) => \E ev \in pending : AnnouncesFor(ev, b, u)

\* A handler that has this much left to do will come to tuple u for binding b.
Ahead(h, b, u) ==
  \/ h.stage = "row"
  \/ b \in h.list
  \/ h.event.kind = "tenant.created" /\ b[3] \in h.above
  \/ h.stage = "tenants" /\ h.binding = b /\ u[2] \in h.scopes
  \/ h.stage = "tuples" /\ u \in h.todo

\* What the event of a writing handler announces is ahead of the handler, or another
\* event announces it as well.
WorkLeft(w) ==
  LET h == handler[w]
  IN  h.stage # "idle" /\ h.event.kind \notin Deleting =>
        \A b \in Bindings, u \in Tuples :
          Owed(b, u) /\ AnnouncesFor(h.event, b, u) =>
            Ahead(h, b, u) \/ \E ev \in pending \ {h.event} : AnnouncesFor(ev, b, u)

\* A tuple about to be deleted is called for only by what came after the check, and
\* that is announced.
DeleteIsSafe(w) ==
  LET h == handler[w]
  IN  h.stage = "delete" =>
        /\ h.event.kind \in Deleting
        /\ \A b \in Active : Justifies(b, h.tuple) => \E ev \in pending : AnnouncesFor(ev, b, h.tuple)

\* A binding that has been revoked does not come back: its row stays, or its tenant is
\* gone for good.
Retired(b) == b \in revoked \/ b[3] \in dropped

RevokesAreFinal(w) ==
  LET h == handler[w]
  IN  h.event # Nothing /\ h.event.kind = "role_binding.revoked" =>
        /\ Retired(h.event.arg)
        /\ h.list \subseteq {h.event.arg}
        /\ h.binding \in {h.event.arg, Nothing}
        /\ h.above = {}

GrantInv ==
  /\ TypeOK
  /\ AllCovered
  /\ \A ev \in pending : ev.kind = "role_binding.revoked" => Retired(ev.arg)
  /\ \A w \in Workers : WorkLeft(w) /\ DeleteIsSafe(w) /\ RevokesAreFinal(w)

\* The row of binding b still stands for something: it has not been revoked, or the event
\* of its revoke is to come.
Unretracted(b, but) ==
  b \notin revoked \/ \E ev \in pending \ {but} : ev.kind = "role_binding.revoked" /\ ev.arg = b

\* The removal of pair p is to come, or an addition of it was handled after it.
Unsettled(p, but) ==
  p \in overtaken \/ \E ev \in pending \ {but} : ev.kind = "role.scope_removed" /\ ev.arg = p

\* Binding b answers for tuple u, if event `but` does nothing about it.
Held(b, u, but) ==
  LET p == << b[2], u[2] >>
  IN  /\ b \in bindings /\ Covers(b, u)
      /\ \/ p \in roleScopes /\ Unretracted(b, but)
         \/ p \in removed /\ (b \notin Active \/ Unsettled(p, but))

\* The tenant of tuple u is gone, or its scope with the tenant that owned it.
Lost(u) == u[3] \in dropped \/ Owner[u[2]] \in dropped

Accounted(u, but) == Lost(u) \/ \E b \in bindings : Held(b, u, but)

\* What was added to a role is there or has been there.
Histories ==
  /\ overtaken \subseteq removed
  /\ \A ev \in pending : ev.kind = "role.scope_added" => ev.arg \in roleScopes \union removed

\* The event of a handler h waits for it to end, and tells which bindings it looks at.
EventWaits(h) ==
  h.stage # "idle" =>
    /\ h.event \in pending
    /\ h.event.kind # "tenant.created" => h.above = {}
    /\ h.event.kind \in { "role.scope_added", "role.scope_removed" } =>
         \A b \in h.list : b[2] = h.event.arg[1]

\* A deleting handler h has to delete tuple u on behalf of b, and will come to it.
WillDelete(h, b, u) ==
  /\ b \in bindings /\ Covers(b, u)
  /\ \/ h.event.kind = "role_binding.revoked" /\ h.event.arg = b /\ << b[2], u[2] >> \in roleScopes
     \/ /\ h.event.kind = "role.scope_removed" /\ h.event.arg = << b[2], u[2] >>
        /\ h.event.arg \in removed /\ (h.stage = "row" => b \in Active)
  /\ \/ h.stage = "row"
     \/ b \in h.list
     \/ h.stage = "tenants" /\ h.binding = b /\ u[2] \in h.scopes
     \/ h.stage \in { "tuples", "delete" } /\ u \in h.todo
     \/ h.stage = "delete" /\ u = h.tuple

\* A deleting handler has before it what only its own event would have deleted.
DeletesLeft(h) ==
  h.stage # "idle" /\ h.event.kind \in Deleting =>
    \A u \in fga : Accounted(u, h.event) \/ \E b \in bindings : WillDelete(h, b, u)

\* A binding that a writing handler works from, and a scope that it writes.
Standing(b) == b[3] \in dropped \/ (b \in bindings /\ Unretracted(b, Nothing))

Lawful(p) ==
  p \in roleScopes \/ (p \in removed /\ Unsettled(p, Nothing)) \/ Owner[p[2]] \in dropped

WritesAreBacked(h) ==
  h.stage # "idle" /\ h.event.kind \notin Deleting =>
    /\ \A b \in h.list : Standing(b)
    /\ h.stage = "tenants" => Standing(h.binding) /\ \A s \in h.scopes : Lawful(<< h.binding[2], s >>)
    /\ h.stage = "tuples" => \A u \in h.todo : Accounted(u, Nothing)

LeakInv ==
  /\ GrantInv
  /\ Histories
  /\ \A u \in fga : Accounted(u, Nothing)
  /\ \A w \in Workers :
       EventWaits(handler[w]) /\ DeletesLeft(handler[w]) /\ WritesAreBacked(handler[w])

-----------------------------------------------------------------------------
(* The tree *)

\* The recursion of Ancestors has a solution: the sets closed under Parent, intersected.
LEMMA AncestorsDef ==
  \A t \in Tenants :
    Ancestors[t] = {t} \union (IF Parent[t] = NoTenant THEN {} ELSE Ancestors[Parent[t]])
<1> DEFINE Closed(C) == \A c \in C : Parent[c] = NoTenant \/ Parent[c] \in C
           Up(t) == { u \in Tenants : \A C \in SUBSET Tenants : t \in C /\ Closed(C) => u \in C }
           f == [t \in Tenants |-> Up(t)]
           Rec(g) == [t \in Tenants |-> {t} \union (IF Parent[t] = NoTenant THEN {} ELSE g[Parent[t]])]
<1>1. ASSUME NEW t \in Tenants
      PROVE  Up(t) = {t} \union (IF Parent[t] = NoTenant THEN {} ELSE Up(Parent[t]))
  <2>1. t \in Up(t) /\ Closed(Up(t))
    BY TenancyAssumption
  <2>2. Parent[t] # NoTenant => Parent[t] \in Tenants /\ Up(Parent[t]) \subseteq Up(t)
    BY TenancyAssumption
  <2>3. CASE Parent[t] = NoTenant
    <3>1. {t} \in SUBSET Tenants /\ Closed({t})
      BY <2>3
    <3> QED
      BY <2>1, <2>3, <3>1
  <2>4. CASE Parent[t] # NoTenant
    <3> DEFINE C == {t} \union Up(Parent[t])
    <3>1. Parent[t] \in Up(Parent[t]) /\ Closed(Up(Parent[t]))
      BY <2>2, <2>4, TenancyAssumption
    <3>2. C \in SUBSET Tenants /\ Closed(C) /\ t \in C
      BY <3>1
    <3>3. Up(t) \subseteq C
      BY <3>2
    <3> QED
      BY <2>1, <2>2, <2>4, <3>3
  <2> QED
    BY <2>3, <2>4
<1>2. \A t \in Tenants : Parent[t] # NoTenant => Parent[t] \in Tenants
  BY TenancyAssumption
<1> HIDE DEF Up
<1>3. f = Rec(f)
  BY <1>1, <1>2
<1>4. Ancestors = CHOOSE g : g = Rec(g)
  BY DEF Ancestors
<1> HIDE DEF f, Rec
<1>5. Ancestors = Rec(Ancestors)
  BY <1>3, <1>4, Zenon
<1> QED
  BY <1>5 DEF Rec

\* Below a tenant there is a child of it on the way.
LEMMA ChildOnTheWay ==
  ASSUME NEW s \in Tenants, NEW t \in Ancestors[s], t # s
  PROVE  \E c \in Ancestors[s] : Parent[c] = t
<1> DEFINE Bad == { r \in Tenants : \E u \in Ancestors[r] : u # r /\ \A c \in Ancestors[r] : Parent[c] # u }
<1>1. SUFFICES Bad = {}
  OBVIOUS
<1>2. SUFFICES ASSUME Bad # {} PROVE FALSE
  OBVIOUS
<1>3. PICK r \in Bad : Parent[r] \notin Bad
  BY <1>2, TenancyAssumption
<1>4. PICK u \in Ancestors[r] : u # r /\ \A c \in Ancestors[r] : Parent[c] # u
  BY <1>3
<1>5. Parent[r] \in Tenants /\ Ancestors[r] = {r} \union Ancestors[Parent[r]]
  BY <1>3, <1>4, AncestorsDef, TenancyAssumption
<1>6. u \in Ancestors[Parent[r]] /\ u # Parent[r]
  BY <1>4, <1>5
<1> QED
  BY <1>3, <1>4, <1>5, <1>6

-----------------------------------------------------------------------------
(* Types *)

\* The part of TypeOK that a transaction may disturb, and the part that a worker may.
RowTypes ==
  /\ tenants \in SUBSET Tenants
  /\ \A t \in tenants : Ancestors[t] \subseteq tenants
  /\ dropped \in SUBSET (Tenants \ tenants)
  /\ bindings \in SUBSET (Principals \X Roles \X tenants)
  /\ revoked \in SUBSET bindings
  /\ expired \in SUBSET bindings
  /\ roleScopes \in SUBSET (Roles \X Scopes)
  /\ \A p \in roleScopes : Owner[p[2]] \in tenants
  /\ removed \in SUBSET (Roles \X Scopes)

HandlerType(h) ==
  /\ h \in HandlerRecords
  /\ h.stage = "idle" <=> h.event = Nothing
  /\ h.stage \in { "tenants", "tuples", "delete" } => h.binding # Nothing
  /\ h.stage = "delete" <=> h.tuple # Nothing
  /\ h.event # Nothing => h.event.txn < txns

QueueTypes ==
  /\ pending \subseteq Events
  /\ \A ev \in pending : ev.txn < txns
  /\ fga \in SUBSET Tuples
  /\ txns \in 0 .. MaxTxns
  /\ failed \in 0 .. MaxFailures
  /\ overtaken \in SUBSET (Roles \X Scopes)

HandlerTypes ==
  /\ handler \in [Workers -> HandlerRecords]
  /\ \A w \in Workers : HandlerType(handler[w])

\* An event is a record, so it is not the unset field; its argument fits its kind.
LEMMA EventIsSet ==
  /\ Nothing \notin Events /\ Nothing \notin Bindings /\ Nothing \notin Tuples
  /\ \A ev \in Events :
       /\ ev.txn \in Nat
       /\ ev.kind \in { "role_binding.created", "role_binding.revoked" } => ev.arg \in Bindings
       /\ ev.kind = "tenant.created" => ev.arg \in Tenants
       /\ ev.kind \in { "role.scope_added", "role.scope_removed" } => ev.arg \in Roles \X Scopes
       /\ ev.kind \in { "role_binding.created", "role_binding.revoked", "tenant.created",
                        "role.scope_added", "role.scope_removed" }
BY NothingAssumption DEF Events

LEMMA TypeParts ==
  /\ TypeOK <=> RowTypes /\ QueueTypes /\ HandlerTypes
  /\ (TypeOK <=> RowTypes /\ QueueTypes /\ HandlerTypes)'
<1>1. TypeOK <=> RowTypes /\ QueueTypes /\ HandlerTypes
  BY EventIsSet DEF TypeOK, RowTypes, QueueTypes, HandlerTypes, HandlerType, HandlerRecords
<1> QED
  BY <1>1, PTL

LEMMA ActiveTypes == RowTypes => Active \subseteq bindings /\ bindings \subseteq Bindings
BY DEF RowTypes, Active, Bindings

\* A transaction's events are new, and of their type.
LEMMA CommitTypes ==
  ASSUME QueueTypes, HandlerTypes, NEW op, NEW kind, NEW args, Commits(op, kind, args),
         \A a \in args : [txn |-> txns, kind |-> kind, arg |-> a] \in Events
  PROVE  QueueTypes' /\ HandlerTypes'
<1>1. /\ txns \in Nat /\ txns < MaxTxns /\ txns' = txns + 1
      /\ UNCHANGED << fga, handler, failed, overtaken >>
      /\ pending' = pending \union { [txn |-> txns, kind |-> kind, arg |-> a] : a \in args }
  BY DEF Commits, QueueTypes
<1>2. \A ev \in pending' : ev \in Events /\ ev.txn < txns'
  <2> SUFFICES ASSUME NEW ev \in pending' PROVE ev \in Events /\ ev.txn < txns'
    OBVIOUS
  <2>1. CASE ev \in pending
    BY <1>1, <2>1, EventIsSet DEF QueueTypes
  <2>2. CASE \E a \in args : ev = [txn |-> txns, kind |-> kind, arg |-> a]
    BY <1>1, <2>2
  <2> QED
    BY <1>1, <2>1, <2>2
<1>3. QueueTypes'
  BY <1>1, <1>2, GrantSyncAssumption DEF QueueTypes
<1>4. HandlerTypes'
  <2> SUFFICES ASSUME NEW w \in Workers PROVE HandlerType(handler[w])'
    BY <1>1 DEF HandlerTypes
  <2>1. handler[w].event # Nothing => handler[w].event.txn \in Nat
    BY EventIsSet DEF HandlerTypes, HandlerType, HandlerRecords
  <2> QED
    BY <1>1, <2>1 DEF HandlerTypes, HandlerType
<1> QED
  BY <1>3, <1>4

LEMMA ServiceTypes == ASSUME TypeOK, ServiceCall PROVE TypeOK'
<1>1. RowTypes /\ QueueTypes /\ HandlerTypes /\ txns \in Nat
  BY TypeParts DEF QueueTypes
<1>2. SUFFICES RowTypes' /\ QueueTypes' /\ HandlerTypes'
  BY TypeParts
<1>3. ASSUME NEW b \in Bindings, Bind(b) PROVE RowTypes' /\ QueueTypes' /\ HandlerTypes'
  <2>1. RowTypes'
    BY <1>1, <1>3 DEF Bind, RowTypes, Bindings
  <2>2. [txn |-> txns, kind |-> "role_binding.created", arg |-> b] \in Events
    BY <1>1 DEF Events
  <2> QED
    BY <1>1, <1>3, <2>1, <2>2, CommitTypes DEF Bind
<1>4. ASSUME NEW b \in Bindings, Revoke(b) PROVE RowTypes' /\ QueueTypes' /\ HandlerTypes'
  <2>1. RowTypes'
    BY <1>1, <1>4 DEF Revoke, RowTypes
  <2>2. [txn |-> txns, kind |-> "role_binding.revoked", arg |-> b] \in Events
    BY <1>1 DEF Events
  <2> QED
    BY <1>1, <1>4, <2>1, <2>2, CommitTypes DEF Revoke
<1>5. ASSUME NEW b \in Bindings, Expire(b) PROVE RowTypes' /\ QueueTypes' /\ HandlerTypes'
  BY <1>1, <1>5, ActiveTypes DEF Expire, RowTypes, QueueTypes, HandlerTypes, HandlerType
<1>6. ASSUME NEW p \in Principals, RevokeAllBindings(p)
      PROVE  RowTypes' /\ QueueTypes' /\ HandlerTypes'
  <2> DEFINE active == { b \in Active : b[1] = p }
  <2>1. active \subseteq bindings /\ active \subseteq Bindings
    BY <1>1, ActiveTypes
  <2>2. RowTypes'
    BY <1>1, <1>6, <2>1 DEF RevokeAllBindings, RowTypes
  <2>3. \A a \in active : [txn |-> txns, kind |-> "role_binding.revoked", arg |-> a] \in Events
    BY <1>1, <2>1 DEF Events
  <2> QED
    BY <1>1, <1>6, <2>2, <2>3, CommitTypes DEF RevokeAllBindings
<1>7. ASSUME NEW r \in Roles, NEW S \in SUBSET Scopes, AddScopes(r, S)
      PROVE  RowTypes' /\ QueueTypes' /\ HandlerTypes'
  <2>1. RowTypes'
    BY <1>1, <1>7 DEF AddScopes, RowTypes
  <2>2. \A a \in {r} \X S : [txn |-> txns, kind |-> "role.scope_added", arg |-> a] \in Events
    BY <1>1 DEF Events
  <2> QED
    BY <1>1, <1>7, <2>1, <2>2, CommitTypes DEF AddScopes
<1>8. ASSUME NEW r \in Roles, NEW s \in Scopes, RemoveScope(r, s)
      PROVE  RowTypes' /\ QueueTypes' /\ HandlerTypes'
  <2>1. RowTypes'
    BY <1>1, <1>8 DEF RemoveScope, RowTypes
  <2>2. \A a \in {<< r, s >>} : [txn |-> txns, kind |-> "role.scope_removed", arg |-> a] \in Events
    BY <1>1 DEF Events
  <2> QED
    BY <1>1, <1>8, <2>1, <2>2, CommitTypes DEF RemoveScope
<1>9. ASSUME NEW t \in Tenants, CreateTenant(t) PROVE RowTypes' /\ QueueTypes' /\ HandlerTypes'
  <2>1. Ancestors[t] = {t} \union Ancestors[Parent[t]] /\ Ancestors[Parent[t]] \subseteq tenants
    BY <1>1, <1>9, AncestorsDef, TenancyAssumption DEF CreateTenant, RowTypes
  <2>2. RowTypes'
    BY <1>1, <1>9, <2>1 DEF CreateTenant, RowTypes
  <2>3. [txn |-> txns, kind |-> "tenant.created", arg |-> t] \in Events
    BY <1>1 DEF Events
  <2> QED
    BY <1>1, <1>9, <2>2, <2>3, CommitTypes DEF CreateTenant
<1>10. ASSUME NEW t \in Tenants, DeleteTenant(t) PROVE RowTypes' /\ QueueTypes' /\ HandlerTypes'
  <2>1. \A s \in tenants \ {t} : t \notin Ancestors[s]
    BY <1>1, <1>10, ChildOnTheWay DEF DeleteTenant, RowTypes
  <2>2. /\ tenants' = tenants \ {t} /\ dropped' = dropped \union {t}
        /\ bindings' = { b \in bindings : b[3] # t }
        /\ revoked' = revoked \intersect bindings' /\ expired' = expired \intersect bindings'
        /\ roleScopes' = { p \in roleScopes : Owner[p[2]] # t }
        /\ removed' = removed \union (roleScopes \ roleScopes')
        /\ Commits("deleteTenant", "none", {})
    BY <1>10 DEF DeleteTenant
  <2>3. bindings' \in SUBSET (Principals \X Roles \X tenants')
    BY <1>1, <2>2 DEF RowTypes
  <2>4. RowTypes'
    BY <1>1, <2>1, <2>2, <2>3 DEF RowTypes
  <2> QED
    BY <1>1, <2>2, <2>4, CommitTypes
<1> QED
  BY <1>3, <1>4, <1>5, <1>6, <1>7, <1>8, <1>9, <1>10 DEF ServiceCall

\* A step of a worker sets its handler and touches no row of the services.
LEMMA BecomesTypes ==
  ASSUME TypeOK, NEW w \in Workers, NEW h, HandlerType(h), Becomes(w, h),
         pending' \subseteq pending, fga' \subseteq Tuples, failed' \in 0 .. MaxFailures
  PROVE  /\ TypeOK'
         /\ handler'[w] = h
         /\ \A v \in Workers \ {w} : handler'[v] = handler[v]
<1>1. RowTypes /\ QueueTypes /\ HandlerTypes
  BY TypeParts
<1>2. /\ handler' = [handler EXCEPT ![w] = h] /\ UNCHANGED txns
      /\ UNCHANGED << tenants, dropped, bindings, revoked, expired, roleScopes, removed >>
  BY DEF Becomes, dbVars
<1>3. /\ handler'[w] = h
      /\ \A v \in Workers \ {w} : handler'[v] = handler[v]
      /\ handler' \in [Workers -> HandlerRecords]
  BY <1>1, <1>2 DEF HandlerTypes, HandlerType
<1>4. HandlerTypes'
  BY <1>1, <1>2, <1>3 DEF HandlerTypes, HandlerType
<1>5. overtaken' \in SUBSET (Roles \X Scopes)
  <2>1. h.stage = "tenants" /\ h.event.kind = "role.scope_added" => h.event.arg \in Roles \X Scopes
    BY EventIsSet DEF HandlerType, HandlerRecords
  <2> QED
    BY <1>1, <2>1 DEF Becomes, QueueTypes
<1>6. RowTypes' /\ QueueTypes'
  BY <1>1, <1>2, <1>5 DEF RowTypes, QueueTypes
<1> QED
  BY <1>3, <1>4, <1>6, TypeParts

LEMMA IdleType == HandlerType(Idle)
BY EventIsSet DEF HandlerType, HandlerRecords, Stages, Idle

\* The handler that each step leaves has its type.
LEMMA StartType ==
  ASSUME TypeOK, NEW ev \in pending
  PROVE  HandlerType([Idle EXCEPT !.stage = "row", !.event = ev])
<1>1. ev \in Events /\ ev.txn < txns /\ ev # Nothing
  BY TypeParts, EventIsSet DEF QueueTypes
<1> QED
  BY <1>1, EventIsSet DEF HandlerType, HandlerRecords, Stages, Idle

LEMMA ReadRowType ==
  ASSUME TypeOK, NEW w \in Workers, handler[w].stage = "row"
  PROVE  /\ BindingsOf(handler[w].event) \subseteq Bindings
         /\ HandlerType([handler[w] EXCEPT !.stage = "next", !.list = BindingsOf(handler[w].event),
                                           !.above = AncestorsOf(handler[w].event)])
<1> DEFINE h == handler[w]
<1>1. HandlerType(h) /\ h.event \in Events /\ RowTypes
  BY TypeParts DEF HandlerTypes, HandlerType, HandlerRecords
<1>2. BindingsOf(h.event) \subseteq Bindings
  BY <1>1, ActiveTypes DEF BindingsOf
<1>3. AncestorsOf(h.event) \subseteq Tenants
  BY <1>1 DEF AncestorsOf, RowTypes
<1> QED
  BY <1>1, <1>2, <1>3 DEF HandlerType, HandlerRecords, Stages

LEMMA ListAncestorType ==
  ASSUME TypeOK, NEW w \in Workers, handler[w].stage = "next", NEW a \in handler[w].above
  PROVE  HandlerType([handler[w] EXCEPT !.above = @ \ {a}, !.list = { b \in Active : b[3] = a }])
<1>1. HandlerType(handler[w]) /\ { b \in Active : b[3] = a } \subseteq Bindings
  BY TypeParts, ActiveTypes DEF HandlerTypes
<1> QED
  BY <1>1 DEF HandlerType, HandlerRecords

LEMMA ReadScopesType ==
  ASSUME TypeOK, NEW w \in Workers, handler[w].stage = "next", NEW b \in handler[w].list,
         NEW S, S = IF handler[w].event.kind \in {"role.scope_added", "role.scope_removed"}
                      THEN {handler[w].event.arg[2]} ELSE ScopesOf(b[2])
  PROVE  /\ S \subseteq Scopes /\ b \in Bindings
         /\ HandlerType([handler[w] EXCEPT !.stage = "tenants", !.binding = b,
                                           !.list = @ \ {b}, !.scopes = S])
<1> DEFINE h == handler[w]
<1>1. HandlerType(h) /\ h.event \in Events /\ b \in Bindings
  BY TypeParts DEF HandlerTypes, HandlerType, HandlerRecords
<1>2. S \subseteq Scopes
  BY <1>1, EventIsSet DEF ScopesOf
<1> QED
  BY <1>1, <1>2, EventIsSet DEF HandlerType, HandlerRecords, Stages

LEMMA ReadTenantsType ==
  ASSUME TypeOK, NEW w \in Workers, handler[w].stage = "tenants", NEW at, at \subseteq tenants
  PROVE  HandlerType([handler[w] EXCEPT !.stage = "tuples",
                                        !.todo = {handler[w].binding[1]} \X handler[w].scopes \X at])
<1> DEFINE h == handler[w]
<1>1. HandlerType(h) /\ h.binding \in Bindings /\ at \subseteq Tenants
  BY TypeParts DEF HandlerTypes, HandlerType, HandlerRecords, RowTypes
<1>2. {h.binding[1]} \X h.scopes \X at \subseteq Tuples
  BY <1>1 DEF HandlerType, HandlerRecords, Tuples, Bindings
<1> QED
  BY <1>1, <1>2 DEF HandlerType, HandlerRecords, Stages

LEMMA TupleTypes ==
  ASSUME TypeOK, NEW w \in Workers, handler[w].stage = "tuples"
  PROVE  /\ handler[w].todo \subseteq Tuples
         /\ \A u \in handler[w].todo :
              /\ HandlerType([handler[w] EXCEPT !.todo = @ \ {u}])
              /\ HandlerType([handler[w] EXCEPT !.stage = "delete", !.todo = @ \ {u}, !.tuple = u])
         /\ HandlerType([handler[w] EXCEPT !.stage = "next", !.binding = Nothing, !.scopes = {}])
<1>1. HandlerType(handler[w])
  BY TypeParts DEF HandlerTypes
<1> QED
  BY <1>1, EventIsSet DEF HandlerType, HandlerRecords, Stages

LEMMA DeleteType ==
  ASSUME TypeOK, NEW w \in Workers, handler[w].stage = "delete"
  PROVE  HandlerType([handler[w] EXCEPT !.stage = "tuples", !.tuple = Nothing])
<1>1. HandlerType(handler[w])
  BY TypeParts DEF HandlerTypes
<1> QED
  BY <1>1, EventIsSet DEF HandlerType, HandlerRecords, Stages

LEMMA WorkerTypes == ASSUME TypeOK, NEW w \in Workers, WorkerStep(w) \/ Fail(w) PROVE TypeOK'
<1> DEFINE h == handler[w]
<1>1. /\ pending \subseteq pending /\ fga \subseteq Tuples /\ failed \in 0 .. MaxFailures
      /\ RowTypes /\ HandlerType(h) /\ MaxFailures \in Nat
  BY TypeParts, GrantSyncAssumption DEF QueueTypes, HandlerTypes
<1>2. ASSUME NEW ev \in pending, Start(w, ev) PROVE TypeOK'
  BY <1>1, <1>2, StartType, BecomesTypes DEF Start
<1>3. CASE ReadRow(w)
  BY <1>1, <1>3, ReadRowType, BecomesTypes DEF ReadRow
<1>4. CASE ListAncestor(w)
  BY <1>1, <1>4, ListAncestorType, BecomesTypes DEF ListAncestor
<1>5. CASE ReadScopes(w)
  <2>1. PICK b \in h.list :
          Becomes(w, [h EXCEPT !.stage = "tenants", !.binding = b, !.list = @ \ {b},
                               !.scopes = IF h.event.kind \in {"role.scope_added", "role.scope_removed"}
                                            THEN {h.event.arg[2]} ELSE ScopesOf(b[2])])
    BY <1>5 DEF ReadScopes
  <2>2. h.stage = "next" /\ UNCHANGED << pending, fga, failed >>
    BY <1>5 DEF ReadScopes
  <2> QED
    BY <1>1, <2>1, <2>2, ReadScopesType, BecomesTypes
<1>6. CASE ReadTenants(w)
  <2> DEFINE eff == EffectiveDescendants(h.binding[3], h.binding[2])
             at  == IF h.event.kind = "tenant.created" THEN eff \intersect {h.event.arg} ELSE eff
  <2>1. at \subseteq tenants
    BY DEF EffectiveDescendants
  <2>2. /\ h.stage = "tenants" /\ UNCHANGED << pending, fga, failed >>
        /\ Becomes(w, [h EXCEPT !.stage = "tuples", !.todo = {h.binding[1]} \X h.scopes \X at])
    BY <1>6 DEF ReadTenants
  <2> HIDE DEF at
  <2> QED
    BY <1>1, <2>1, <2>2, ReadTenantsType, BecomesTypes
<1>7. CASE WriteOne(w)
  <2>1. PICK u \in h.todo : fga' = fga \union {u} /\ Becomes(w, [h EXCEPT !.todo = @ \ {u}])
    BY <1>7 DEF WriteOne
  <2>2. h.stage = "tuples" /\ UNCHANGED << pending, failed >>
    BY <1>7 DEF WriteOne
  <2>3. fga' \subseteq Tuples /\ HandlerType([h EXCEPT !.todo = @ \ {u}])
    BY <1>1, <2>1, <2>2, TupleTypes
  <2> QED
    BY <1>1, <2>1, <2>2, <2>3, BecomesTypes
<1>8. CASE CheckOne(w)
  <2>1. PICK u \in h.todo :
          \/ Becomes(w, [h EXCEPT !.todo = @ \ {u}])
          \/ Becomes(w, [h EXCEPT !.stage = "delete", !.todo = @ \ {u}, !.tuple = u])
    BY <1>8 DEF CheckOne
  <2>2. h.stage = "tuples" /\ UNCHANGED << pending, fga, failed >>
    BY <1>8 DEF CheckOne
  <2> QED
    BY <1>1, <2>1, <2>2, TupleTypes, BecomesTypes
<1>9. CASE DeleteOne(w)
  BY <1>1, <1>9, DeleteType, BecomesTypes DEF DeleteOne
<1>10. CASE NextBinding(w)
  BY <1>1, <1>10, TupleTypes, BecomesTypes DEF NextBinding
<1>11. CASE Ack(w)
  BY <1>1, <1>11, IdleType, BecomesTypes DEF Ack
<1>12. CASE Fail(w)
  BY <1>1, <1>12, IdleType, BecomesTypes DEF Fail
<1> QED
  BY <1>2, <1>3, <1>4, <1>5, <1>6, <1>7, <1>8, <1>9, <1>10, <1>11, <1>12 DEF WorkerStep

LEMMA TypeInit == Init => TypeOK
<1> SUFFICES ASSUME Init PROVE TypeOK
  OBVIOUS
<1>1. RowTypes
  BY DEF Init, RowTypes
<1>2. QueueTypes
  BY GrantSyncAssumption DEF Init, QueueTypes
<1>3. HandlerTypes
  BY IdleType DEF Init, HandlerTypes, HandlerType
<1> QED
  BY <1>1, <1>2, <1>3, TypeParts

LEMMA TypeStep == TypeOK /\ [Next]_vars => TypeOK'
<1> SUFFICES ASSUME TypeOK, [Next]_vars PROVE TypeOK'
  OBVIOUS
<1>1. CASE UNCHANGED vars
  BY <1>1, TypeParts DEF vars, dbVars, RowTypes, QueueTypes, HandlerTypes, HandlerType
<1> QED
  BY <1>1, ServiceTypes, WorkerTypes DEF Next

\* Types, and the foreign keys: a binding has its tenant, a row of role_scopes the tenant
\* of its scope, and a tenant everything above it, whatever is created, bound, revoked and
\* deleted while handlers run.
THEOREM TypeCorrect == Spec => []TypeOK
BY TypeInit, TypeStep, PTL DEF Spec

-----------------------------------------------------------------------------
(* No grant is lost: the services *)

LEMMA RetiredIsInactive == ASSUME RowTypes, NEW b, Retired(b) PROVE b \notin Active
BY DEF RowTypes, Retired, Active

\* A transaction announces every new grant by an event that no handler is at, and
\* leaves the retired bindings retired.
LEMMA ServiceKeeps ==
  ASSUME GrantInv, TypeOK', handler' = handler, fga' = fga, pending \subseteq pending',
         \A b \in Bindings, u \in Tuples :
           b \in Active' /\ Justifies(b, u)' =>
             \/ b \in Active /\ Justifies(b, u)
             \/ \E ev \in pending' : ev.txn = txns /\ AnnouncesFor(ev, b, u),
         \A ev \in pending' \ pending : ev.kind = "role_binding.revoked" => Retired(ev.arg)',
         \A b : Retired(b) => Retired(b)'
  PROVE  GrantInv'
<1>1. RowTypes' /\ QueueTypes /\ HandlerTypes
  BY TypeParts DEF GrantInv
<1>2. \A b \in Bindings, u \in Tuples :
        Owed(b, u)' => Owed(b, u) \/ \E ev \in pending' : ev.txn = txns /\ AnnouncesFor(ev, b, u)
  BY DEF Owed
<1>3. AllCovered'
  BY <1>2 DEF GrantInv, AllCovered
<1>4. \A w \in Workers : handler[w].event # Nothing =>
        /\ handler[w].event \in Events
        /\ \A ev : ev.txn = txns => ev # handler[w].event
  BY <1>1, EventIsSet DEF HandlerTypes, HandlerType, HandlerRecords, QueueTypes
<1>5. ASSUME NEW w \in Workers PROVE WorkLeft(w)' /\ DeleteIsSafe(w)' /\ RevokesAreFinal(w)'
  <2> DEFINE h == handler[w]
  <2>1. HandlerType(h) /\ WorkLeft(w) /\ DeleteIsSafe(w) /\ RevokesAreFinal(w)
    BY <1>1, <1>5 DEF GrantInv, HandlerTypes
  <2>2. ASSUME h.stage # "idle", h.event.kind \notin Deleting,
               NEW b \in Bindings, NEW u \in Tuples, Owed(b, u)', AnnouncesFor(h.event, b, u)
        PROVE  Ahead(h, b, u) \/ \E ev \in pending' \ {h.event} : AnnouncesFor(ev, b, u)
    <3>1. CASE Owed(b, u)
      BY <2>1, <2>2, <3>1 DEF WorkLeft
    <3>2. CASE \E ev \in pending' : ev.txn = txns /\ AnnouncesFor(ev, b, u)
      BY <1>4, <1>5, <2>1, <2>2, <3>2 DEF HandlerType
    <3> QED
      BY <1>2, <2>2, <3>1, <3>2
  <2>3. WorkLeft(w)'
    BY <2>2 DEF WorkLeft, Ahead, AnnouncesFor
  <2>4. ASSUME h.stage = "delete", NEW b \in Active', Justifies(b, h.tuple)'
        PROVE  \E ev \in pending' : AnnouncesFor(ev, b, h.tuple)
    <3>1. b \in Bindings /\ h.tuple \in Tuples
      BY <1>1, <2>1, <2>4, ActiveTypes DEF RowTypes, Active, Bindings, HandlerType, HandlerRecords
    <3>2. CASE b \in Active /\ Justifies(b, h.tuple)
      BY <2>1, <2>4, <3>2 DEF DeleteIsSafe
    <3> QED
      BY <2>4, <3>1, <3>2
  <2>5. DeleteIsSafe(w)'
    BY <2>1, <2>4 DEF DeleteIsSafe
  <2>6. RevokesAreFinal(w)'
    BY <2>1 DEF RevokesAreFinal
  <2> QED
    BY <2>3, <2>5, <2>6
<1> QED
  BY <1>3, <1>5 DEF GrantInv


\* The events of a transaction, one for each argument.
LEMMA Committed ==
  ASSUME NEW op, NEW kind, NEW args, Commits(op, kind, args)
  PROVE  /\ op \in Operations
         /\ UNCHANGED << fga, handler, failed >>
         /\ pending \subseteq pending'
         /\ \A a \in args : \E ev \in pending' : ev.txn = txns /\ ev.kind = kind /\ ev.arg = a
         /\ \A ev \in pending' \ pending : ev.txn = txns /\ ev.kind = kind /\ ev.arg \in args
<1>1. pending' = pending \union { [txn |-> txns, kind |-> kind, arg |-> a] : a \in args }
  BY DEF Commits
<1>2. ASSUME NEW a \in args
      PROVE  \E ev \in pending' : ev.txn = txns /\ ev.kind = kind /\ ev.arg = a
  <2>1. [txn |-> txns, kind |-> kind, arg |-> a] \in pending'
    BY <1>1
  <2> QED
    BY <2>1
<1>3. ASSUME NEW ev \in pending' \ pending
      PROVE  ev.txn = txns /\ ev.kind = kind /\ ev.arg \in args
  BY <1>1
<1> QED
  BY <1>1, <1>2, <1>3 DEF Commits

LEMMA ServiceGrants == ASSUME GrantInv, ServiceCall PROVE GrantInv'
<1>1. TypeOK' /\ RowTypes /\ RowTypes' /\ QueueTypes
  BY ServiceTypes, TypeParts DEF GrantInv
<1>2. Active \subseteq bindings /\ bindings \subseteq Bindings
  BY <1>1, ActiveTypes
<1>3. ASSUME NEW b \in Bindings, Bind(b) PROVE GrantInv'
  <2>1. /\ bindings' = bindings \union {b} /\ Commits("bind", "role_binding.created", {b})
        /\ UNCHANGED << tenants, dropped, revoked, expired, roleScopes >>
    BY <1>3 DEF Bind
  <2>2. \A c \in Active' : c # b => c \in Active /\ \A u : Justifies(c, u)' => Justifies(c, u)
    BY <2>1 DEF Active, Justifies, EffectiveDescendants
  <2>3. \A u : \E ev \in pending' : ev.txn = txns /\ AnnouncesFor(ev, b, u)
    BY <2>1, Committed DEF AnnouncesFor
  <2>4. \A c : Retired(c) => Retired(c)'
    BY <2>1 DEF Retired
  <2> QED
    BY <1>1, <2>1, <2>2, <2>3, <2>4, Committed, ServiceKeeps
<1>4. ASSUME NEW b \in Bindings, Revoke(b) PROVE GrantInv'
  <2>1. /\ revoked' = revoked \union {b} /\ Commits("revoke", "role_binding.revoked", {b})
        /\ UNCHANGED << tenants, dropped, bindings, expired, roleScopes >>
    BY <1>4 DEF Revoke
  <2>2. \A c \in Active' : c \in Active /\ \A u : Justifies(c, u)' => Justifies(c, u)
    BY <2>1 DEF Active, Justifies, EffectiveDescendants
  <2>3. Retired(b)' /\ \A c : Retired(c) => Retired(c)'
    BY <2>1 DEF Retired
  <2> QED
    BY <1>1, <2>1, <2>2, <2>3, Committed, ServiceKeeps
<1>5. ASSUME NEW b \in Bindings, Expire(b) PROVE GrantInv'
  <2>1. /\ expired' = expired \union {b}
        /\ UNCHANGED << tenants, dropped, bindings, revoked, roleScopes, pending, fga, handler >>
    BY <1>5 DEF Expire
  <2>2. \A c \in Active' : c \in Active /\ \A u : Justifies(c, u)' => Justifies(c, u)
    BY <2>1 DEF Active, Justifies, EffectiveDescendants
  <2>3. \A c : Retired(c) => Retired(c)'
    BY <2>1 DEF Retired
  <2> QED
    BY <1>1, <2>1, <2>2, <2>3, ServiceKeeps
<1>6. ASSUME NEW p \in Principals, RevokeAllBindings(p) PROVE GrantInv'
  <2> DEFINE active == { b \in Active : b[1] = p }
  <2>1. /\ revoked' = revoked \union active /\ Commits("revokeAll", "role_binding.revoked", active)
        /\ UNCHANGED << tenants, dropped, bindings, expired, roleScopes >>
    BY <1>6 DEF RevokeAllBindings
  <2>2. \A c \in Active' : c \in Active /\ \A u : Justifies(c, u)' => Justifies(c, u)
    BY <2>1 DEF Active, Justifies, EffectiveDescendants
  <2>3. (\A b \in active : Retired(b)') /\ \A c : Retired(c) => Retired(c)'
    BY <2>1 DEF Retired
  <2> HIDE DEF active
  <2> QED
    BY <1>1, <2>1, <2>2, <2>3, Committed, ServiceKeeps
<1>7. ASSUME NEW r \in Roles, NEW S \in SUBSET Scopes, AddScopes(r, S) PROVE GrantInv'
  <2>1. /\ roleScopes' = roleScopes \union ({r} \X S)
        /\ Commits("addScopes", "role.scope_added", {r} \X S)
        /\ UNCHANGED << tenants, dropped, bindings, revoked, expired >>
    BY <1>7 DEF AddScopes
  <2>2. \A c \in Active' : c \in Active
    BY <2>1 DEF Active
  <2>3. \A c, u : Justifies(c, u)' => Justifies(c, u) \/ << c[2], u[2] >> \in {r} \X S
    BY <2>1 DEF Justifies, EffectiveDescendants
  <2>4. \A c, u : << c[2], u[2] >> \in {r} \X S =>
          \E ev \in pending' : ev.txn = txns /\ AnnouncesFor(ev, c, u)
    BY <2>1, Committed DEF AnnouncesFor
  <2>5. \A c : Retired(c) => Retired(c)'
    BY <2>1 DEF Retired
  <2>6. \A c \in Bindings, u \in Tuples : c \in Active' /\ Justifies(c, u)' =>
          \/ c \in Active /\ Justifies(c, u)
          \/ \E ev \in pending' : ev.txn = txns /\ AnnouncesFor(ev, c, u)
    BY <2>2, <2>3, <2>4
  <2>7. /\ handler' = handler /\ fga' = fga /\ pending \subseteq pending'
        /\ \A ev \in pending' \ pending : ev.kind # "role_binding.revoked"
    BY <2>1, Committed
  <2> QED
    BY <1>1, <2>5, <2>6, <2>7, ServiceKeeps
<1>8. ASSUME NEW r \in Roles, NEW s \in Scopes, RemoveScope(r, s) PROVE GrantInv'
  <2>1. /\ roleScopes' = roleScopes \ {<< r, s >>}
        /\ Commits("removeScope", "role.scope_removed", {<< r, s >>})
        /\ UNCHANGED << tenants, dropped, bindings, revoked, expired >>
    BY <1>8 DEF RemoveScope
  <2>2. \A c \in Active' : c \in Active /\ \A u : Justifies(c, u)' => Justifies(c, u)
    BY <2>1 DEF Active, Justifies, EffectiveDescendants
  <2>3. \A c : Retired(c) => Retired(c)'
    BY <2>1 DEF Retired
  <2> QED
    BY <1>1, <2>1, <2>2, <2>3, Committed, ServiceKeeps
<1>9. ASSUME NEW t \in Tenants, CreateTenant(t) PROVE GrantInv'
  <2>1. /\ tenants' = tenants \union {t} /\ t \notin tenants
        /\ Commits("createTenant", "tenant.created", {t})
        /\ UNCHANGED << dropped, bindings, revoked, expired, roleScopes >>
    BY <1>9 DEF CreateTenant
  <2>2. \A c \in Active' : c \in Active /\ c[3] \in tenants
    BY <1>1, <2>1 DEF Active, RowTypes
  <2>3. \A c \in Active' : \A u : Justifies(c, u)' => Justifies(c, u) \/ u[3] = t
    BY <2>1, <2>2 DEF Justifies, EffectiveDescendants
  <2>4. \A c, u : u[3] = t => \E ev \in pending' : ev.txn = txns /\ AnnouncesFor(ev, c, u)
    BY <2>1, Committed DEF AnnouncesFor
  <2>5. \A c : Retired(c) => Retired(c)'
    BY <2>1 DEF Retired
  <2> QED
    BY <1>1, <2>1, <2>2, <2>3, <2>4, <2>5, Committed, ServiceKeeps
<1>10. ASSUME NEW t \in Tenants, DeleteTenant(t) PROVE GrantInv'
  <2>1. /\ tenants' = tenants \ {t} /\ dropped' = dropped \union {t}
        /\ bindings' = { b \in bindings : b[3] # t }
        /\ revoked' = revoked \intersect bindings' /\ expired' = expired \intersect bindings'
        /\ roleScopes' = { p \in roleScopes : Owner[p[2]] # t }
        /\ Commits("deleteTenant", "none", {})
    BY <1>10 DEF DeleteTenant
  <2>2. \A c \in Active' : c \in Active /\ \A u : Justifies(c, u)' => Justifies(c, u)
    BY <2>1 DEF Active, Justifies, EffectiveDescendants
  <2>3. \A c : Retired(c) => Retired(c)'
    BY <1>1, <2>1 DEF Retired, RowTypes
  <2> QED
    BY <1>1, <2>1, <2>2, <2>3, Committed, ServiceKeeps
<1> QED
  BY <1>3, <1>4, <1>5, <1>6, <1>7, <1>8, <1>9, <1>10 DEF ServiceCall

-----------------------------------------------------------------------------
(* No grant is lost: the worker *)

LEMMA RowsStay ==
  ASSUME UNCHANGED dbVars
  PROVE  /\ Active' = Active
         /\ \A b, u : Justifies(b, u)' <=> Justifies(b, u)
         /\ \A b : Retired(b)' <=> Retired(b)
BY DEF dbVars, Active, Justifies, EffectiveDescendants, Retired

\* A handler that deletes nothing in this step keeps what the store owes.
LEMMA HandlerKeeps ==
  ASSUME GrantInv, NEW w, Workers = {w}, TypeOK', UNCHANGED dbVars, pending' = pending,
         fga \subseteq fga', WorkLeft(w)', DeleteIsSafe(w)', RevokesAreFinal(w)'
  PROVE  GrantInv'
<1>1. \A b \in Bindings, u \in Tuples : Owed(b, u)' => Owed(b, u)
  BY RowsStay DEF Owed
<1>2. AllCovered'
  BY <1>1 DEF GrantInv, AllCovered
<1> QED
  BY <1>2, RowsStay DEF GrantInv

\* WorkLeft after a step, spelled out for the handler that the step leaves.
LEMMA WorkLeftNext ==
  ASSUME NEW w, NEW h, handler'[w] = h, pending' = pending,
         h.event.kind \notin Deleting =>
           \A b \in Bindings, u \in Tuples :
             Owed(b, u)' /\ AnnouncesFor(h.event, b, u) =>
               Ahead(h, b, u) \/ \E ev \in pending \ {h.event} : AnnouncesFor(ev, b, u)
  PROVE  WorkLeft(w)'
BY DEF WorkLeft, Ahead, AnnouncesFor

\* A handler goes on with its event: what is ahead of it stays so until it is written.
LEMMA Proceeds ==
  ASSUME GrantInv, NEW w, Workers = {w}, NEW h, HandlerType(h), Becomes(w, h),
         UNCHANGED << pending, failed >>, fga \subseteq fga', fga' \subseteq Tuples,
         handler[w].stage # "idle", h.event = handler[w].event,
         \A b \in Active, u \in Tuples \ fga' :
           Justifies(b, u) /\ AnnouncesFor(h.event, b, u) /\ Ahead(handler[w], b, u) => Ahead(h, b, u),
         h.stage = "delete" =>
           /\ h.event.kind \in Deleting
           /\ \A b \in Active : Justifies(b, h.tuple) => \E ev \in pending : AnnouncesFor(ev, b, h.tuple),
         h.event.kind = "role_binding.revoked" =>
           /\ h.list \subseteq {h.event.arg} /\ h.binding \in {h.event.arg, Nothing} /\ h.above = {}
  PROVE  GrantInv'
<1>1. TypeOK' /\ handler'[w] = h /\ failed \in 0 .. MaxFailures
  BY BecomesTypes, TypeParts DEF GrantInv, QueueTypes
<1>2. UNCHANGED dbVars
  BY DEF Becomes
<1>3. /\ Active' = Active
      /\ \A b, u : Justifies(b, u)' <=> Justifies(b, u)
      /\ \A b : Retired(b)' <=> Retired(b)
  BY <1>2, RowsStay
<1>4. WorkLeft(w) /\ RevokesAreFinal(w) /\ HandlerType(handler[w])
  BY TypeParts DEF GrantInv, HandlerTypes
<1>5. ASSUME h.event.kind \notin Deleting, NEW b \in Bindings, NEW u \in Tuples, Owed(b, u)',
             AnnouncesFor(h.event, b, u)
      PROVE  Ahead(h, b, u) \/ \E ev \in pending \ {h.event} : AnnouncesFor(ev, b, u)
  <2>1. Owed(b, u) /\ b \in Active /\ u \in Tuples \ fga' /\ Justifies(b, u)
    BY <1>3, <1>5 DEF Owed
  <2> QED
    BY <1>4, <1>5, <2>1 DEF WorkLeft
<1>6. WorkLeft(w)'
  BY <1>1, <1>5, WorkLeftNext
<1>7. DeleteIsSafe(w)'
  BY <1>1, <1>3 DEF DeleteIsSafe, AnnouncesFor
<1>8. RevokesAreFinal(w)'
  BY <1>1, <1>3, <1>4 DEF RevokesAreFinal
<1> QED
  BY <1>1, <1>2, <1>6, <1>7, <1>8, HandlerKeeps

LEMMA StartGrants ==
  ASSUME GrantInv, NEW w, Workers = {w}, NEW ev \in pending, Start(w, ev)
  PROVE  GrantInv'
<1> DEFINE h == [Idle EXCEPT !.stage = "row", !.event = ev]
<1>1. /\ h.stage = "row" /\ h.event = ev /\ h.list = {} /\ h.above = {} /\ h.binding = Nothing
      /\ HandlerType(h)
  BY StartType DEF Idle, GrantInv
<1> HIDE DEF h
<1>2. Becomes(w, h) /\ UNCHANGED << pending, fga, failed >>
  BY DEF Start, h
<1>3. TypeOK' /\ handler'[w] = h /\ UNCHANGED dbVars
  BY <1>1, <1>2, BecomesTypes, TypeParts DEF GrantInv, QueueTypes, Becomes
<1>4. WorkLeft(w)' /\ DeleteIsSafe(w)'
  BY <1>1, <1>3 DEF WorkLeft, Ahead, DeleteIsSafe
<1>5. ev.kind = "role_binding.revoked" => Retired(ev.arg)'
  BY <1>3, RowsStay DEF GrantInv
<1>6. RevokesAreFinal(w)'
  BY <1>1, <1>3, <1>5 DEF RevokesAreFinal
<1> QED
  BY <1>2, <1>3, <1>4, <1>6, HandlerKeeps

\* The first query finds the binding that the event announces, or where to list it.
LEMMA ReadRowGrants ==
  ASSUME GrantInv, NEW w, Workers = {w}, ReadRow(w)
  PROVE  GrantInv'
<1> DEFINE old == handler[w]
           h == [old EXCEPT !.stage = "next", !.list = BindingsOf(old.event),
                            !.above = AncestorsOf(old.event)]
<1>1. /\ old.stage = "row" /\ Becomes(w, h) /\ UNCHANGED << pending, fga, failed >>
      /\ TypeOK /\ RowTypes /\ HandlerType(old) /\ fga \subseteq Tuples
  BY TypeParts DEF ReadRow, GrantInv, HandlerTypes, QueueTypes
<1>2. /\ HandlerType(h) /\ h.stage = "next" /\ h.event = old.event
      /\ h.list = BindingsOf(old.event) /\ h.above = AncestorsOf(old.event)
      /\ h.binding = old.binding /\ old.event \in Events
  BY <1>1, ReadRowType DEF HandlerType, HandlerRecords
<1>3. RevokesAreFinal(w) /\ old.event # Nothing
  BY <1>1, <1>2, EventIsSet DEF GrantInv
<1> HIDE DEF h
<1>4. ASSUME NEW b \in Active, NEW u \in Tuples, Justifies(b, u), AnnouncesFor(old.event, b, u)
      PROVE  Ahead(h, b, u)
  <2>1. CASE old.event.kind = "role_binding.created" /\ old.event.arg = b
    BY <1>2, <2>1 DEF BindingsOf, Active, Ahead
  <2>2. CASE old.event.kind = "tenant.created" /\ old.event.arg = u[3]
    BY <1>2, <1>4, <2>2 DEF AncestorsOf, Justifies, EffectiveDescendants, Reaches, Ahead
  <2>3. CASE old.event.kind = "role.scope_added" /\ old.event.arg = << b[2], u[2] >>
    BY <1>2, <2>3 DEF BindingsOf, Ahead
  <2> QED
    BY <1>4, <2>1, <2>2, <2>3 DEF AnnouncesFor
<1>5. h.event.kind = "role_binding.revoked" =>
        /\ h.list \subseteq {h.event.arg} /\ h.binding \in {h.event.arg, Nothing} /\ h.above = {}
  BY <1>2, <1>3 DEF BindingsOf, AncestorsOf, RevokesAreFinal
<1> QED
  BY <1>1, <1>2, <1>4, <1>5, Proceeds

LEMMA ListAncestorGrants ==
  ASSUME GrantInv, NEW w, Workers = {w}, ListAncestor(w)
  PROVE  GrantInv'
<1> DEFINE old == handler[w]
<1>1. /\ old.stage = "next" /\ old.list = {} /\ UNCHANGED << pending, fga, failed >>
      /\ TypeOK /\ HandlerType(old) /\ fga \subseteq Tuples /\ RevokesAreFinal(w)
  BY TypeParts DEF ListAncestor, GrantInv, HandlerTypes, QueueTypes
<1>2. PICK a \in old.above :
        Becomes(w, [old EXCEPT !.above = @ \ {a}, !.list = { b \in Active : b[3] = a }])
  BY DEF ListAncestor
<1> DEFINE h == [old EXCEPT !.above = @ \ {a}, !.list = { b \in Active : b[3] = a }]
<1>3. /\ HandlerType(h) /\ h.stage = "next" /\ h.event = old.event
      /\ h.list = { b \in Active : b[3] = a } /\ h.above = old.above \ {a}
      /\ h.binding = old.binding /\ old.event # Nothing
  BY <1>1, ListAncestorType DEF HandlerType, HandlerRecords
<1> HIDE DEF h
<1>4. \A b \in Active : \A u : Ahead(old, b, u) => Ahead(h, b, u)
  BY <1>1, <1>3 DEF Ahead
<1>5. h.event.kind # "role_binding.revoked"
  BY <1>1, <1>2, <1>3 DEF RevokesAreFinal
<1>6. Becomes(w, h)
  BY <1>2 DEF h
<1> QED
  BY <1>1, <1>3, <1>4, <1>5, <1>6, Proceeds

LEMMA ReadScopesGrants ==
  ASSUME GrantInv, NEW w, Workers = {w}, ReadScopes(w)
  PROVE  GrantInv'
<1> DEFINE old == handler[w]
           S(b) == IF old.event.kind \in {"role.scope_added", "role.scope_removed"}
                     THEN {old.event.arg[2]} ELSE ScopesOf(b[2])
<1>1. /\ old.stage = "next" /\ UNCHANGED << pending, fga, failed >>
      /\ TypeOK /\ HandlerType(old) /\ fga \subseteq Tuples /\ RevokesAreFinal(w)
  BY TypeParts DEF ReadScopes, GrantInv, HandlerTypes, QueueTypes
<1>2. PICK b \in old.list :
        Becomes(w, [old EXCEPT !.stage = "tenants", !.binding = b, !.list = @ \ {b}, !.scopes = S(b)])
  BY DEF ReadScopes
<1> DEFINE h == [old EXCEPT !.stage = "tenants", !.binding = b, !.list = @ \ {b}, !.scopes = S(b)]
<1>3. /\ HandlerType(h) /\ h.stage = "tenants" /\ h.event = old.event /\ h.list = old.list \ {b}
      /\ h.above = old.above /\ h.binding = b /\ h.scopes = S(b) /\ old.event # Nothing
  BY <1>1, ReadScopesType DEF HandlerType, HandlerRecords
<1>4. Becomes(w, h)
  BY <1>2
<1> HIDE DEF h
<1>5. ASSUME NEW c \in Active, NEW u \in Tuples, Justifies(c, u), AnnouncesFor(old.event, c, u),
             Ahead(old, c, u)
      PROVE  Ahead(h, c, u)
  <2>1. u[2] \in ScopesOf(c[2])
    BY <1>5 DEF Justifies, ScopesOf, Tuples
  <2>2. c = b => u[2] \in S(b)
    BY <1>5, <2>1 DEF AnnouncesFor
  <2> QED
    BY <1>1, <1>3, <1>5, <2>2 DEF Ahead
<1>6. h.event.kind = "role_binding.revoked" =>
        /\ h.list \subseteq {h.event.arg} /\ h.binding \in {h.event.arg, Nothing} /\ h.above = {}
  BY <1>1, <1>3 DEF RevokesAreFinal
<1> QED
  BY <1>1, <1>3, <1>4, <1>5, <1>6, Proceeds

LEMMA ReadTenantsGrants ==
  ASSUME GrantInv, NEW w, Workers = {w}, ReadTenants(w)
  PROVE  GrantInv'
<1> DEFINE old == handler[w]
           eff == EffectiveDescendants(old.binding[3], old.binding[2])
           at  == IF old.event.kind = "tenant.created" THEN eff \intersect {old.event.arg} ELSE eff
           h == [old EXCEPT !.stage = "tuples", !.todo = {old.binding[1]} \X old.scopes \X at]
<1>1. /\ old.stage = "tenants" /\ UNCHANGED << pending, fga, failed >> /\ Becomes(w, h)
      /\ TypeOK /\ HandlerType(old) /\ fga \subseteq Tuples /\ RevokesAreFinal(w)
  BY TypeParts DEF ReadTenants, GrantInv, HandlerTypes, QueueTypes
<1>2. at \subseteq tenants
  BY DEF EffectiveDescendants
<1> HIDE DEF at
<1>3. HandlerType(h)
  BY <1>1, <1>2, ReadTenantsType
<1>4. /\ HandlerType(h) /\ h.stage = "tuples" /\ h.event = old.event /\ h.list = old.list
      /\ h.above = old.above /\ h.binding = old.binding /\ old.event # Nothing
      /\ h.todo = {old.binding[1]} \X old.scopes \X at
  BY <1>1, <1>3 DEF HandlerType, HandlerRecords
<1> HIDE DEF h
<1>5. ASSUME NEW b \in Active, NEW u \in Tuples, Justifies(b, u), AnnouncesFor(old.event, b, u),
             Ahead(old, b, u)
      PROVE  Ahead(h, b, u)
  <2>1. u[3] \in EffectiveDescendants(b[3], b[2]) /\ b[1] = u[1] /\ u = << u[1], u[2], u[3] >>
    BY <1>5 DEF Justifies, Tuples
  <2>2. b = old.binding => u[3] \in at
    BY <1>5, <2>1 DEF AnnouncesFor, at
  <2>3. b = old.binding /\ u[2] \in old.scopes => u \in h.todo
    BY <1>4, <2>1, <2>2
  <2> QED
    BY <1>1, <1>4, <1>5, <2>3 DEF Ahead
<1>6. h.event.kind = "role_binding.revoked" =>
        /\ h.list \subseteq {h.event.arg} /\ h.binding \in {h.event.arg, Nothing} /\ h.above = {}
  BY <1>1, <1>4 DEF RevokesAreFinal
<1> QED
  BY <1>1, <1>4, <1>5, <1>6, Proceeds

LEMMA WriteOneGrants ==
  ASSUME GrantInv, NEW w, Workers = {w}, WriteOne(w)
  PROVE  GrantInv'
<1> DEFINE old == handler[w]
<1>1. /\ old.stage = "tuples" /\ old.event.kind \notin Deleting /\ UNCHANGED << pending, failed >>
      /\ TypeOK /\ HandlerType(old) /\ fga \subseteq Tuples
  BY TypeParts DEF WriteOne, GrantInv, HandlerTypes, QueueTypes
<1>2. PICK u \in old.todo : fga' = fga \union {u} /\ Becomes(w, [old EXCEPT !.todo = @ \ {u}])
  BY DEF WriteOne
<1> DEFINE h == [old EXCEPT !.todo = @ \ {u}]
<1>3. HandlerType(h) /\ u \in Tuples
  BY <1>1, TupleTypes
<1>4. /\ h.stage = "tuples" /\ h.event = old.event /\ h.list = old.list /\ h.above = old.above
      /\ h.binding = old.binding /\ h.todo = old.todo \ {u}
  BY <1>1 DEF HandlerType, HandlerRecords
<1>5. Becomes(w, h) /\ fga \subseteq fga' /\ fga' \subseteq Tuples
  BY <1>1, <1>2, <1>3
<1> HIDE DEF h
<1>6. \A b \in Active, v \in Tuples \ fga' : Ahead(old, b, v) => Ahead(h, b, v)
  BY <1>1, <1>2, <1>4 DEF Ahead
<1>7. h.event.kind # "role_binding.revoked"
  BY <1>1, <1>4 DEF Deleting
<1> QED
  BY <1>1, <1>3, <1>4, <1>5, <1>6, <1>7, Proceeds

\* The check before a delete: the tuple goes only if no active binding calls for it, for
\* the one binding it leaves out has been revoked.
LEMMA CheckOneGrants ==
  ASSUME GrantInv, NEW w, Workers = {w}, CheckOne(w)
  PROVE  GrantInv'
<1> DEFINE old == handler[w]
           revokedOne == IF old.event.kind = "role_binding.revoked" THEN old.binding ELSE Nothing
<1>1. /\ old.stage = "tuples" /\ old.event.kind \in Deleting /\ UNCHANGED << pending, fga, failed >>
      /\ TypeOK /\ RowTypes /\ HandlerType(old) /\ fga \subseteq Tuples /\ RevokesAreFinal(w)
  BY TypeParts DEF CheckOne, GrantInv, HandlerTypes, QueueTypes
<1>2. PICK u \in old.todo :
        Becomes(w, IF StillProvided(u, revokedOne)
                     THEN [old EXCEPT !.todo = @ \ {u}]
                     ELSE [old EXCEPT !.stage = "delete", !.todo = @ \ {u}, !.tuple = u])
  BY DEF CheckOne
<1> DEFINE h == IF StillProvided(u, revokedOne)
                  THEN [old EXCEPT !.todo = @ \ {u}]
                  ELSE [old EXCEPT !.stage = "delete", !.todo = @ \ {u}, !.tuple = u]
<1>3. HandlerType(h)
  BY <1>1, TupleTypes
<1>4. /\ h.event = old.event /\ h.list = old.list /\ h.above = old.above /\ h.binding = old.binding
      /\ h.stage = "delete" => ~StillProvided(u, revokedOne) /\ h.tuple = u
  BY <1>1 DEF HandlerType, HandlerRecords
<1>5. Becomes(w, h) /\ old.event # Nothing
  BY <1>1, <1>2 DEF HandlerType
<1> HIDE DEF h
<1>6. \A b, v : ~AnnouncesFor(old.event, b, v)
  BY <1>1 DEF AnnouncesFor, Deleting
<1>7. \A b \in Active : b # revokedOne
  <2>1. Nothing \notin Active
    BY <1>1, ActiveTypes, EventIsSet
  <2>2. old.event.kind = "role_binding.revoked" => old.binding \notin Active
    BY <1>1, <1>5, <2>1, RetiredIsInactive DEF RevokesAreFinal
  <2> QED
    BY <2>1, <2>2
<1>8. h.stage = "delete" => \A b \in Active : ~Justifies(b, h.tuple)
  BY <1>4, <1>7 DEF StillProvided
<1>9. h.event.kind = "role_binding.revoked" =>
        /\ h.list \subseteq {h.event.arg} /\ h.binding \in {h.event.arg, Nothing} /\ h.above = {}
  BY <1>1, <1>4, <1>5 DEF RevokesAreFinal
<1> QED
  BY <1>1, <1>3, <1>4, <1>5, <1>6, <1>8, <1>9, Proceeds

\* What became owed between the check and the delete is announced.
LEMMA DeleteOneGrants ==
  ASSUME GrantInv, NEW w, Workers = {w}, DeleteOne(w)
  PROVE  GrantInv'
<1> DEFINE old == handler[w]
           h == [old EXCEPT !.stage = "tuples", !.tuple = Nothing]
<1>1. /\ old.stage = "delete" /\ UNCHANGED << pending, failed >> /\ fga' = fga \ {old.tuple}
      /\ Becomes(w, h)
      /\ TypeOK /\ HandlerType(old) /\ fga \subseteq Tuples /\ RevokesAreFinal(w) /\ DeleteIsSafe(w)
      /\ failed \in 0 .. MaxFailures
  BY TypeParts DEF DeleteOne, GrantInv, HandlerTypes, QueueTypes
<1>2. HandlerType(h)
  BY <1>1, DeleteType
<1>3. /\ h.stage = "tuples" /\ h.event = old.event /\ h.list = old.list /\ h.above = old.above
      /\ h.binding = old.binding
  BY <1>1 DEF HandlerType, HandlerRecords
<1> HIDE DEF h
<1>4. TypeOK' /\ handler'[w] = h /\ UNCHANGED dbVars
  BY <1>1, <1>2, BecomesTypes DEF Becomes
<1>5. /\ Active' = Active
      /\ \A b, u : Justifies(b, u)' <=> Justifies(b, u)
      /\ \A b : Retired(b)' <=> Retired(b)
  BY <1>4, RowsStay
<1>6. AllCovered'
  <2> SUFFICES ASSUME NEW b \in Bindings, NEW u \in Tuples, Owed(b, u)'
               PROVE  \E ev \in pending : AnnouncesFor(ev, b, u)
    BY <1>1 DEF AllCovered, AnnouncesFor
  <2>1. CASE u = old.tuple
    BY <1>1, <1>5, <2>1 DEF Owed, DeleteIsSafe
  <2>2. CASE u # old.tuple
    BY <1>1, <1>5, <2>2 DEF Owed, AllCovered, GrantInv
  <2> QED
    BY <2>1, <2>2
<1>7. WorkLeft(w)' /\ DeleteIsSafe(w)'
  BY <1>1, <1>3, <1>4 DEF WorkLeft, DeleteIsSafe
<1>8. RevokesAreFinal(w)'
  BY <1>1, <1>3, <1>4, <1>5 DEF RevokesAreFinal
<1> QED
  BY <1>1, <1>4, <1>5, <1>6, <1>7, <1>8 DEF GrantInv

LEMMA NextBindingGrants ==
  ASSUME GrantInv, NEW w, Workers = {w}, NextBinding(w)
  PROVE  GrantInv'
<1> DEFINE old == handler[w]
           h == [old EXCEPT !.stage = "next", !.binding = Nothing, !.scopes = {}]
<1>1. /\ old.stage = "tuples" /\ old.todo = {} /\ UNCHANGED << pending, fga, failed >>
      /\ Becomes(w, h)
      /\ TypeOK /\ HandlerType(old) /\ fga \subseteq Tuples /\ RevokesAreFinal(w)
  BY TypeParts DEF NextBinding, GrantInv, HandlerTypes, QueueTypes
<1>2. HandlerType(h)
  BY <1>1, TupleTypes
<1>3. /\ h.stage = "next" /\ h.event = old.event /\ h.list = old.list /\ h.above = old.above
      /\ h.binding = Nothing /\ old.event # Nothing
  BY <1>1 DEF HandlerType, HandlerRecords
<1> HIDE DEF h
<1>4. \A b, u : Ahead(old, b, u) => Ahead(h, b, u)
  BY <1>1, <1>3 DEF Ahead
<1>5. h.event.kind = "role_binding.revoked" =>
        /\ h.list \subseteq {h.event.arg} /\ h.binding \in {h.event.arg, Nothing} /\ h.above = {}
  BY <1>1, <1>3 DEF RevokesAreFinal
<1> QED
  BY <1>1, <1>2, <1>3, <1>4, <1>5, Proceeds

\* An event is acknowledged when nothing is ahead: what it announced is in the store, or
\* announced by another.
LEMMA AckGrants ==
  ASSUME GrantInv, NEW w, Workers = {w}, Ack(w)
  PROVE  GrantInv'
<1> DEFINE old == handler[w]
<1>1. /\ old.stage = "next" /\ old.list = {} /\ old.above = {} /\ pending' = pending \ {old.event}
      /\ Becomes(w, Idle) /\ UNCHANGED << fga, failed >>
      /\ TypeOK /\ fga \subseteq Tuples /\ WorkLeft(w) /\ failed \in 0 .. MaxFailures
  BY TypeParts DEF Ack, GrantInv, QueueTypes
<1>2. TypeOK' /\ handler'[w] = Idle /\ UNCHANGED dbVars
  BY <1>1, IdleType, BecomesTypes DEF Becomes
<1>3. /\ Active' = Active
      /\ \A b, u : Justifies(b, u)' <=> Justifies(b, u)
      /\ \A b : Retired(b)' <=> Retired(b)
  BY <1>2, RowsStay
<1>4. AllCovered'
  <2> SUFFICES ASSUME NEW b \in Bindings, NEW u \in Tuples, Owed(b, u)'
               PROVE  \E ev \in pending \ {old.event} : AnnouncesFor(ev, b, u)
    BY <1>1 DEF AllCovered, AnnouncesFor
  <2>1. Owed(b, u)
    BY <1>1, <1>3 DEF Owed
  <2>2. PICK ev \in pending : AnnouncesFor(ev, b, u)
    BY <2>1 DEF GrantInv, AllCovered
  <2>3. CASE ev = old.event
    <3>1. ~Ahead(old, b, u) /\ old.event.kind \notin Deleting
      BY <1>1, <2>2, <2>3 DEF Ahead, AnnouncesFor, Deleting
    <3> QED
      BY <1>1, <2>1, <2>2, <2>3, <3>1 DEF WorkLeft
  <2> QED
    BY <2>2, <2>3
<1>5. WorkLeft(w)' /\ DeleteIsSafe(w)' /\ RevokesAreFinal(w)'
  BY <1>2 DEF WorkLeft, DeleteIsSafe, RevokesAreFinal, Idle
<1> QED
  BY <1>1, <1>2, <1>3, <1>4, <1>5 DEF GrantInv

LEMMA FailGrants ==
  ASSUME GrantInv, NEW w, Workers = {w}, Fail(w)
  PROVE  GrantInv'
<1>1. /\ failed' \in 0 .. MaxFailures /\ Becomes(w, Idle) /\ UNCHANGED << pending, fga >>
      /\ TypeOK /\ fga \subseteq Tuples
  BY TypeParts, GrantSyncAssumption DEF Fail, GrantInv, QueueTypes
<1>2. TypeOK' /\ handler'[w] = Idle /\ UNCHANGED dbVars
  BY <1>1, IdleType, BecomesTypes DEF Becomes
<1>3. WorkLeft(w)' /\ DeleteIsSafe(w)' /\ RevokesAreFinal(w)'
  BY <1>2 DEF WorkLeft, DeleteIsSafe, RevokesAreFinal, Idle
<1> QED
  BY <1>1, <1>2, <1>3, HandlerKeeps

LEMMA GrantInit == Init => GrantInv
<1> SUFFICES ASSUME Init PROVE GrantInv
  OBVIOUS
<1>1. Active = {} /\ \A w \in Workers : handler[w] = Idle
  BY DEF Init, Active
<1>2. \A w \in Workers : WorkLeft(w) /\ DeleteIsSafe(w) /\ RevokesAreFinal(w)
  BY <1>1 DEF WorkLeft, DeleteIsSafe, RevokesAreFinal, Idle
<1>3. AllCovered /\ \A ev \in pending : ev.kind = "role_binding.revoked" => Retired(ev.arg)
  BY <1>1 DEF Init, AllCovered, Owed
<1> QED
  BY <1>2, <1>3, TypeInit DEF GrantInv

LEMMA GrantStep ==
  ASSUME NEW w, Workers = {w}, GrantInv, [Next]_vars
  PROVE  GrantInv'
<1>1. CASE UNCHANGED vars
  <2>1. TypeOK' /\ UNCHANGED dbVars /\ UNCHANGED << pending, fga, handler >>
    BY <1>1, TypeStep DEF vars, GrantInv
  <2>2. /\ Active' = Active
        /\ \A b, u : Justifies(b, u)' <=> Justifies(b, u)
        /\ \A b : Retired(b)' <=> Retired(b)
    BY <2>1, RowsStay
  <2> QED
    BY <2>1, <2>2, ServiceKeeps
<1>2. CASE ServiceCall
  BY <1>2, ServiceGrants
<1>3. ASSUME NEW ev \in pending, Start(w, ev) PROVE GrantInv'
  BY <1>3, StartGrants
<1>4. CASE ReadRow(w) \/ ListAncestor(w) \/ ReadScopes(w) \/ ReadTenants(w)
  BY <1>4, ReadRowGrants, ListAncestorGrants, ReadScopesGrants, ReadTenantsGrants
<1>5. CASE WriteOne(w) \/ CheckOne(w) \/ DeleteOne(w)
  BY <1>5, WriteOneGrants, CheckOneGrants, DeleteOneGrants
<1>6. CASE NextBinding(w) \/ Ack(w) \/ Fail(w)
  BY <1>6, NextBindingGrants, AckGrants, FailGrants
<1> QED
  BY <1>1, <1>2, <1>3, <1>4, <1>5, <1>6 DEF Next, WorkerStep

LEMMA GrantInvImplies == GrantInv => GrantsAnnounced
<1> SUFFICES ASSUME GrantInv, NEW u \in Desired \ fga
             PROVE  \E ev \in pending : Announces(ev, u)
  BY DEF GrantsAnnounced
<1>1. PICK b \in Active : Justifies(b, u) /\ u \in Tuples
  BY DEF Desired
<1>2. b \in Bindings
  BY ActiveTypes, TypeParts DEF GrantInv
<1>3. PICK ev \in pending : AnnouncesFor(ev, b, u)
  BY <1>1, <1>2 DEF GrantInv, AllCovered, Owed
<1>4. ev.kind = "role.scope_added" => ev.arg[1] = b[2] /\ ev.arg[2] = u[2]
  BY <1>3 DEF AnnouncesFor
<1> QED
  BY <1>1, <1>3, <1>4 DEF AnnouncesFor, Announces

\* Any tree of tenants, any calls of the services, any failures: with one worker, a tuple
\* that an active binding calls for and that is not in the store will be written by an
\* event that is still in the outbox, whatever the order of events and whatever commits
\* between a handler's reads and its writes or deletes.
THEOREM OneWorkerLosesNoGrant ==
  ASSUME NEW w, Workers = {w}
  PROVE  Spec => []GrantsAnnounced
<1>1. Init => GrantInv
  BY GrantInit
<1>2. GrantInv /\ [Next]_vars => GrantInv'
  BY GrantStep
<1> QED
  BY <1>1, <1>2, GrantInvImplies, PTL DEF Spec

-----------------------------------------------------------------------------
(* Every leak is explained: the services *)

\* A transaction that ends a grant sends an event that is no handler's yet, or leaves the
\* grant to one of the named causes: what was answered for stays so.
ServiceEnds ==
  /\ handler' = handler /\ fga' = fga /\ overtaken' = overtaken /\ pending \subseteq pending'
  /\ dropped \subseteq dropped' /\ removed \subseteq removed'
  /\ \A b \in bindings :
       /\ b \in bindings' \/ b[3] \in dropped'
       /\ b \in Active \/ b \notin Active'
       /\ \/ b \in revoked \/ b \notin revoked'
          \/ \E ev \in pending' : ev.txn = txns /\ ev.kind = "role_binding.revoked" /\ ev.arg = b
       /\ \A u : Covers(b, u) => (b \in bindings' /\ Covers(b, u)') \/ u[3] \in dropped'
  /\ \A p \in roleScopes :
       \/ p \in roleScopes'
       \/ /\ p \in removed'
          /\ \/ Owner[p[2]] \in dropped'
             \/ \E ev \in pending' : ev.txn = txns /\ ev.kind = "role.scope_removed" /\ ev.arg = p
  /\ \A ev \in pending' \ pending : ev.kind = "role.scope_added" => ev.arg \in roleScopes' \union removed'

LEMMA AccountsStay ==
  ASSUME ServiceEnds, NEW but, \A ev \in pending' : ev.txn = txns => ev # but
  PROVE  /\ \A b \in bindings : Unretracted(b, but) => Unretracted(b, but)'
         /\ \A p \in roleScopes :
              p \in roleScopes' \/ (p \in removed' /\ Unsettled(p, but)') \/ Owner[p[2]] \in dropped'
         /\ \A p : Unsettled(p, but) => Unsettled(p, but)'
         /\ \A u : Accounted(u, but) => Accounted(u, but)'
<1>1. \A b \in bindings : Unretracted(b, but) => Unretracted(b, but)'
  <2> SUFFICES ASSUME NEW b \in bindings, Unretracted(b, but) PROVE Unretracted(b, but)'
    OBVIOUS
  <2>1. CASE b \notin revoked
    BY <2>1 DEF ServiceEnds, Unretracted
  <2>2. CASE \E ev \in pending \ {but} : ev.kind = "role_binding.revoked" /\ ev.arg = b
    BY <2>2 DEF ServiceEnds, Unretracted
  <2> QED
    BY <2>1, <2>2 DEF Unretracted
<1>2. \A p \in roleScopes :
        p \in roleScopes' \/ (p \in removed' /\ Unsettled(p, but)') \/ Owner[p[2]] \in dropped'
  BY DEF ServiceEnds, Unsettled
<1>3. \A p : Unsettled(p, but) => Unsettled(p, but)'
  BY DEF ServiceEnds, Unsettled
<1>4. ASSUME NEW u, Accounted(u, but) PROVE Accounted(u, but)'
  <2>1. CASE Lost(u)'
    BY <2>1 DEF Accounted
  <2>2. CASE ~Lost(u)'
    <3>1. PICK b \in bindings : Held(b, u, but)
      BY <1>4, <2>2 DEF Accounted, Lost, ServiceEnds
    <3> DEFINE p == << b[2], u[2] >>
    <3>2. b \in bindings' /\ Covers(b, u)'
      BY <2>2, <3>1 DEF Held, Lost, ServiceEnds
    <3>3. CASE p \in roleScopes /\ Unretracted(b, but)
      <4>1. CASE p \in roleScopes'
        BY <1>1, <3>2, <3>3, <4>1 DEF Held, Accounted
      <4>2. CASE p \in removed' /\ Unsettled(p, but)'
        BY <3>2, <4>2 DEF Held, Accounted
      <4>3. Owner[p[2]] \notin dropped'
        BY <2>2 DEF Lost
      <4> QED
        BY <1>2, <3>3, <4>1, <4>2, <4>3
    <3>4. CASE p \in removed /\ (b \notin Active \/ Unsettled(p, but))
      <4>1. p \in removed' /\ (b \notin Active' \/ Unsettled(p, but)')
        BY <1>3, <3>1, <3>4 DEF ServiceEnds
      <4> QED
        BY <3>2, <4>1 DEF Held, Accounted
    <3> QED
      BY <3>1, <3>3, <3>4 DEF Held
  <2> QED
    BY <2>1, <2>2
<1> QED
  BY <1>1, <1>2, <1>3, <1>4

\* What a deleting handler has to do stays to be done, or is another's.
LEMMA DeletesStay ==
  ASSUME ServiceEnds, NEW h, \A ev \in pending' : ev.txn = txns => ev # h.event,
         NEW b \in bindings, NEW u, WillDelete(h, b, u)
  PROVE  Accounted(u, h.event)' \/ (b \in bindings' /\ WillDelete(h, b, u)')
<1> DEFINE p == << b[2], u[2] >>
<1>1. CASE Lost(u)'
  BY <1>1 DEF Accounted
<1>2. CASE ~Lost(u)'
  <2>1. b \in bindings' /\ Covers(b, u)' /\ Owner[p[2]] \notin dropped'
    BY <1>2 DEF WillDelete, Lost, ServiceEnds
  <2>2. CASE h.event.kind = "role_binding.revoked" /\ h.event.arg = b /\ p \in roleScopes
    <3>1. CASE p \in roleScopes'
      BY <2>1, <2>2, <3>1 DEF WillDelete
    <3>2. CASE p \in removed' /\ Unsettled(p, h.event)'
      BY <2>1, <3>2 DEF Held, Accounted
    <3> QED
      BY <2>1, <2>2, <3>1, <3>2, AccountsStay
  <2>3. CASE /\ h.event.kind = "role.scope_removed" /\ h.event.arg = p
             /\ h.event.arg \in removed /\ (h.stage = "row" => b \in Active)
    <3>1. p \in removed'
      BY <2>3 DEF ServiceEnds
    <3>2. CASE b \in Active'
      BY <2>1, <2>3, <3>1, <3>2 DEF WillDelete
    <3>3. CASE b \notin Active'
      BY <2>1, <3>1, <3>3 DEF Held, Accounted
    <3> QED
      BY <3>2, <3>3
  <2> QED
    BY <2>2, <2>3 DEF WillDelete
<1> QED
  BY <1>1, <1>2

LEMMA ServiceKeepsLeaks ==
  ASSUME LeakInv, GrantInv', ServiceEnds
  PROVE  LeakInv'
<1>1. HandlerTypes /\ QueueTypes /\ QueueTypes'
  BY TypeParts DEF LeakInv, GrantInv
<1>2. \A ev \in pending' : ev # Nothing
  BY <1>1, EventIsSet DEF QueueTypes
<1>3. \A w \in Workers : handler'[w] = handler[w] /\ \A ev \in pending' : ev.txn = txns => ev # handler[w].event
  <2>1. handler' = handler
    BY DEF ServiceEnds
  <2> SUFFICES ASSUME NEW w \in Workers, NEW ev \in pending', ev.txn = txns, ev = handler[w].event
               PROVE  FALSE
    BY <2>1
  <2> QED
    BY <1>1, <1>2, EventIsSet DEF HandlerTypes, HandlerType, HandlerRecords, QueueTypes
<1>4. Histories'
  BY DEF LeakInv, Histories, ServiceEnds
<1>5. \A u : Accounted(u, Nothing) => Accounted(u, Nothing)'
  BY <1>2, AccountsStay
<1>6. \A u \in fga' : Accounted(u, Nothing)'
  BY <1>5 DEF LeakInv, ServiceEnds
<1>7. ASSUME NEW w \in Workers
      PROVE  EventWaits(handler[w])' /\ DeletesLeft(handler[w])' /\ WritesAreBacked(handler[w])'
  <2> PICK h : h = handler[w]
    OBVIOUS
  <2>1. EventWaits(h) /\ DeletesLeft(h) /\ WritesAreBacked(h) /\ handler'[w] = h /\ fga' = fga
    BY DEF LeakInv, ServiceEnds
  <2>2. EventWaits(handler[w])'
    BY <2>1 DEF EventWaits, ServiceEnds
  <2>3. \A u : Accounted(u, h.event) => Accounted(u, h.event)'
    BY <1>3, AccountsStay
  <2>4. \A u : \A b \in bindings : WillDelete(h, b, u) =>
          Accounted(u, h.event)' \/ (b \in bindings' /\ WillDelete(h, b, u)')
    BY <1>3, DeletesStay
  <2>5. DeletesLeft(handler[w])'
    BY <2>1, <2>3, <2>4 DEF DeletesLeft
  <2>6. \A b : Standing(b) => Standing(b)'
    BY <1>2, AccountsStay DEF Standing, ServiceEnds
  <2>7. \A p : Lawful(p) => Lawful(p)'
    <3> SUFFICES ASSUME NEW p, Lawful(p) PROVE Lawful(p)'
      OBVIOUS
    <3>1. CASE p \in roleScopes
      BY <1>2, <3>1, AccountsStay DEF Lawful
    <3>2. CASE p \in removed /\ Unsettled(p, Nothing)
      BY <1>2, <3>2, AccountsStay DEF Lawful, ServiceEnds
    <3>3. CASE Owner[p[2]] \in dropped
      BY <3>3 DEF Lawful, ServiceEnds
    <3> QED
      BY <3>1, <3>2, <3>3 DEF Lawful
  <2>8. WritesAreBacked(handler[w])'
    BY <1>5, <2>1, <2>6, <2>7 DEF WritesAreBacked
  <2> QED
    BY <2>2, <2>5, <2>8
<1> QED
  BY <1>4, <1>6, <1>7 DEF LeakInv

\* While no tenant goes, a binding reaches what it reached.
LEMMA CoversStays ==
  ASSUME tenants \subseteq tenants'
  PROVE  \A b, u : Covers(b, u) => Covers(b, u)'
BY DEF Covers, EffectiveDescendants

\* A tenant without children is deleted: what its bindings reached is gone with it.
LEMMA DeletedCovers ==
  ASSUME RowTypes, NEW t \in Tenants, DeleteTenant(t), NEW b \in bindings, NEW u, Covers(b, u)
  PROVE  (b \in bindings' /\ Covers(b, u)') \/ u[3] \in dropped'
<1>1. /\ t \in tenants /\ tenants' = tenants \ {t} /\ dropped' = dropped \union {t}
      /\ bindings' = { c \in bindings : c[3] # t } /\ \A c \in tenants : Parent[c] # t
  BY DEF DeleteTenant
<1>2. /\ u[3] \in tenants /\ b[3] \in tenants /\ b[3] \in Ancestors[u[3]]
      /\ Ancestors[u[3]] \subseteq tenants /\ u[3] \in Tenants
  BY DEF Covers, EffectiveDescendants, Reaches, RowTypes
<1>3. CASE u[3] = t
  BY <1>1, <1>3
<1>4. CASE u[3] # t
  <2>1. b[3] # t
    BY <1>1, <1>2, <1>4, ChildOnTheWay
  <2> QED
    BY <1>1, <1>2, <1>4, <2>1 DEF Covers, EffectiveDescendants
<1> QED
  BY <1>3, <1>4

\* What every transaction leaves alone.
Calm == handler' = handler /\ fga' = fga /\ overtaken' = overtaken /\ pending \subseteq pending'

LEMMA ServiceLeaks == ASSUME LeakInv, GrantInv', ServiceCall PROVE LeakInv'
<1>1. RowTypes /\ RowTypes'
  BY TypeParts DEF LeakInv, GrantInv
<1>2. SUFFICES ServiceEnds
  BY ServiceKeepsLeaks
<1>3. ASSUME NEW b \in Bindings, Bind(b) PROVE ServiceEnds
  <2>1. /\ b \notin bindings /\ bindings' = bindings \union {b}
        /\ Commits("bind", "role_binding.created", {b})
        /\ UNCHANGED << tenants, dropped, revoked, expired, roleScopes, removed >>
    BY <1>3 DEF Bind
  <2>2. \A c \in bindings : c \in Active \/ c \notin Active'
    BY <2>1 DEF Active
  <2>3. Calm /\ tenants \subseteq tenants'
    BY <2>1, Committed DEF Commits, Calm
  <2> QED
    BY <2>1, <2>2, <2>3, CoversStays, Committed DEF ServiceEnds, Calm
<1>4. ASSUME NEW b \in Bindings, Revoke(b) PROVE ServiceEnds
  <2>1. /\ revoked' = revoked \union {b} /\ Commits("revoke", "role_binding.revoked", {b})
        /\ UNCHANGED << tenants, dropped, bindings, expired, roleScopes, removed >>
    BY <1>4 DEF Revoke
  <2>2. \A c \in bindings : c \in Active \/ c \notin Active'
    BY <2>1 DEF Active
  <2>3. Calm /\ tenants \subseteq tenants'
    BY <2>1, Committed DEF Commits, Calm
  <2> QED
    BY <2>1, <2>2, <2>3, CoversStays, Committed DEF ServiceEnds, Calm
<1>5. ASSUME NEW b \in Bindings, Expire(b) PROVE ServiceEnds
  <2>1. /\ expired' = expired \union {b}
        /\ UNCHANGED << tenants, dropped, bindings, revoked, roleScopes, removed, pending, fga,
                        handler, overtaken >>
    BY <1>5 DEF Expire
  <2>2. \A c \in bindings : c \in Active \/ c \notin Active'
    BY <2>1 DEF Active
  <2> QED
    BY <2>1, <2>2, CoversStays DEF ServiceEnds
<1>6. ASSUME NEW p \in Principals, RevokeAllBindings(p) PROVE ServiceEnds
  <2> DEFINE active == { b \in Active : b[1] = p }
  <2>1. /\ revoked' = revoked \union active /\ Commits("revokeAll", "role_binding.revoked", active)
        /\ UNCHANGED << tenants, dropped, bindings, expired, roleScopes, removed >>
    BY <1>6 DEF RevokeAllBindings
  <2>2. \A c \in bindings : c \in Active \/ c \notin Active'
    BY <2>1 DEF Active
  <2> HIDE DEF active
  <2>3. Calm /\ tenants \subseteq tenants'
    BY <2>1, Committed DEF Commits, Calm
  <2> QED
    BY <2>1, <2>2, <2>3, CoversStays, Committed DEF ServiceEnds, Calm
<1>7. ASSUME NEW r \in Roles, NEW S \in SUBSET Scopes, AddScopes(r, S) PROVE ServiceEnds
  <2>1. /\ roleScopes' = roleScopes \union ({r} \X S)
        /\ Commits("addScopes", "role.scope_added", {r} \X S)
        /\ UNCHANGED << tenants, dropped, bindings, revoked, expired, removed >>
    BY <1>7 DEF AddScopes
  <2>2. Active' = Active
    BY <2>1 DEF Active
  <2>3. Calm /\ tenants \subseteq tenants'
    BY <2>1, Committed DEF Commits, Calm
  <2> QED
    BY <2>1, <2>2, <2>3, CoversStays, Committed DEF ServiceEnds, Calm
<1>8. ASSUME NEW r \in Roles, NEW s \in Scopes, RemoveScope(r, s) PROVE ServiceEnds
  <2>1. /\ roleScopes' = roleScopes \ {<< r, s >>}
        /\ removed' = removed \union (roleScopes \ roleScopes')
        /\ Commits("removeScope", "role.scope_removed", {<< r, s >>})
        /\ UNCHANGED << tenants, dropped, bindings, revoked, expired >>
    BY <1>8 DEF RemoveScope
  <2>2. Active' = Active
    BY <2>1 DEF Active
  <2>3. \A p \in roleScopes : p \in roleScopes' \/ (p \in removed' /\ p = << r, s >>)
    BY <2>1
  <2>4. Calm /\ \E ev \in pending' : ev.txn = txns /\ ev.kind = "role.scope_removed" /\ ev.arg = << r, s >>
    <3>1. Calm
      BY <2>1, Committed DEF Commits, Calm
    <3>2. PICK p : p = << r, s >>
      OBVIOUS
    <3>3. Commits("removeScope", "role.scope_removed", {p}) /\ p \in {p}
      BY <2>1, <3>2
    <3>4. \E ev \in pending' : ev.txn = txns /\ ev.kind = "role.scope_removed" /\ ev.arg = p
      BY <3>3, Committed
    <3> QED
      BY <3>1, <3>2, <3>4
  <2>5. \A ev \in pending' \ pending : ev.kind # "role.scope_added"
    BY <2>1, Committed
  <2> QED
    BY <2>1, <2>2, <2>3, <2>4, <2>5, CoversStays DEF ServiceEnds, Calm
<1>9. ASSUME NEW t \in Tenants, CreateTenant(t) PROVE ServiceEnds
  <2>1. /\ tenants' = tenants \union {t}
        /\ Commits("createTenant", "tenant.created", {t})
        /\ UNCHANGED << dropped, bindings, revoked, expired, roleScopes, removed >>
    BY <1>9 DEF CreateTenant
  <2>2. Active' = Active
    BY <2>1 DEF Active
  <2>3. Calm /\ tenants \subseteq tenants'
    BY <2>1, Committed DEF Commits, Calm
  <2> QED
    BY <2>1, <2>2, <2>3, CoversStays, Committed DEF ServiceEnds, Calm
<1>10. ASSUME NEW t \in Tenants, DeleteTenant(t) PROVE ServiceEnds
  <2>1. /\ tenants' = tenants \ {t} /\ dropped' = dropped \union {t}
        /\ bindings' = { b \in bindings : b[3] # t }
        /\ revoked' = revoked \intersect bindings' /\ expired' = expired \intersect bindings'
        /\ roleScopes' = { p \in roleScopes : Owner[p[2]] # t }
        /\ removed' = removed \union (roleScopes \ roleScopes')
        /\ Commits("deleteTenant", "none", {})
    BY <1>10 DEF DeleteTenant
  <2>2. \A b \in bindings : b \in bindings' \/ b[3] \in dropped'
    BY <2>1
  <2>3. \A b \in bindings : b \in Active \/ b \notin Active'
    BY <2>1 DEF Active
  <2>4. \A b \in bindings : b \in revoked \/ b \notin revoked'
    BY <2>1
  <2>5. \A b \in bindings : \A u : Covers(b, u) => (b \in bindings' /\ Covers(b, u)') \/ u[3] \in dropped'
    BY <1>1, <1>10, DeletedCovers
  <2>6. /\ handler' = handler /\ fga' = fga /\ overtaken' = overtaken /\ pending \subseteq pending'
        /\ pending' \ pending = {} /\ dropped \subseteq dropped' /\ removed \subseteq removed'
    BY <2>1, Committed DEF Commits
  <2>7. \A p \in roleScopes : p \in roleScopes' \/ (p \in removed' /\ Owner[p[2]] \in dropped')
    BY <2>1
  <2> QED
    BY <2>2, <2>3, <2>4, <2>5, <2>6, <2>7 DEF ServiceEnds
<1> QED
  BY <1>3, <1>4, <1>5, <1>6, <1>7, <1>8, <1>9, <1>10 DEF ServiceCall

-----------------------------------------------------------------------------
(* Every leak is explained: the worker *)

\* What the rows and the outbox say does not change with a step of the worker that leaves
\* the outbox alone; the history of overtaken additions may grow.
LEMMA AccountsKept ==
  ASSUME UNCHANGED dbVars, pending' = pending, overtaken \subseteq overtaken'
  PROVE  /\ \A u, but : Accounted(u, but) => Accounted(u, but)'
         /\ \A h, u : \A b \in bindings : b \in bindings' /\ (WillDelete(h, b, u)' <=> WillDelete(h, b, u))
         /\ \A b : Standing(b) => Standing(b)'
         /\ \A p : Lawful(p) => Lawful(p)'
<1>1. /\ Active' = Active /\ tenants' = tenants /\ bindings' = bindings /\ revoked' = revoked
      /\ roleScopes' = roleScopes /\ removed' = removed /\ dropped' = dropped
  BY RowsStay DEF dbVars
<1>2. \A b, u : Covers(b, u)' <=> Covers(b, u)
  BY <1>1 DEF Covers, EffectiveDescendants
<1>3. \A b, but : Unretracted(b, but)' <=> Unretracted(b, but)
  BY <1>1 DEF Unretracted
<1>4. \A p, but : Unsettled(p, but) => Unsettled(p, but)'
  BY <1>1 DEF Unsettled
<1>5. \A b, u, but : Held(b, u, but) => Held(b, u, but)'
  BY <1>1, <1>2, <1>3, <1>4 DEF Held
<1>6. \A u, but : Accounted(u, but) => Accounted(u, but)'
  BY <1>1, <1>5 DEF Accounted, Lost
<1>7. \A h, u : \A b \in bindings : b \in bindings' /\ (WillDelete(h, b, u)' <=> WillDelete(h, b, u))
  BY <1>1, <1>2 DEF WillDelete
<1>8. \A b : Standing(b) => Standing(b)'
  BY <1>1, <1>3 DEF Standing
<1>9. \A p : Lawful(p) => Lawful(p)'
  BY <1>1, <1>4 DEF Lawful
<1> QED
  BY <1>6, <1>7, <1>8, <1>9

\* What a leak proof needs of the worker's handler before its step.
LEMMA LeakFacts ==
  ASSUME LeakInv, NEW w, Workers = {w}
  PROVE  /\ TypeOK /\ RowTypes /\ HandlerType(handler[w]) /\ RevokesAreFinal(w) /\ DeleteIsSafe(w)
         /\ EventWaits(handler[w]) /\ DeletesLeft(handler[w]) /\ WritesAreBacked(handler[w])
         /\ fga \subseteq Tuples /\ handler[w] \in HandlerRecords /\ Histories
         /\ \A u \in fga : Accounted(u, Nothing)
         /\ handler[w].stage # "idle" => handler[w].event \in Events
         /\ \A ev \in pending : ev # Nothing
<1>1. TypeOK /\ RowTypes /\ HandlerType(handler[w]) /\ fga \subseteq Tuples /\ pending \subseteq Events
  BY TypeParts DEF LeakInv, GrantInv, HandlerTypes, QueueTypes
<1>2. handler[w].stage # "idle" => handler[w].event \in Events
  BY <1>1 DEF HandlerType, HandlerRecords
<1>3. \A ev \in pending : ev # Nothing
  BY <1>1, EventIsSet
<1> QED
  BY <1>1, <1>2, <1>3 DEF HandlerType, LeakInv, GrantInv

LEMMA BecomesSets ==
  ASSUME TypeOK, NEW w \in Workers, NEW h, Becomes(w, h)
  PROVE  /\ handler'[w] = h /\ UNCHANGED dbVars /\ overtaken \subseteq overtaken'
         /\ handler[w].stage # "next" \/ h.stage # "tenants" => overtaken' = overtaken
BY DEF Becomes, TypeOK

\* A step of the worker, seen from the store and the outbox.
LEMMA HandlerLeaks ==
  ASSUME LeakInv, GrantInv', NEW w, Workers = {w}, NEW h, Becomes(w, h), UNCHANGED pending,
         overtaken' \subseteq removed, fga' \subseteq Tuples,
         \A u \in fga' : Accounted(u, Nothing),
         EventWaits(h), WritesAreBacked(h)',
         h.stage # "idle" /\ h.event.kind \in Deleting =>
           \A u \in fga' : Accounted(u, h.event) \/ \E b \in bindings : WillDelete(h, b, u)
  PROVE  LeakInv'
<1>1. handler'[w] = h /\ UNCHANGED dbVars /\ pending' = pending /\ overtaken \subseteq overtaken'
  BY LeakFacts, BecomesSets
<1>2. DeletesLeft(handler[w])'
  BY <1>1, AccountsKept DEF DeletesLeft
<1>3. EventWaits(handler[w])' /\ WritesAreBacked(handler[w])'
  BY <1>1 DEF EventWaits, WritesAreBacked
<1>4. \A u \in fga' : Accounted(u, Nothing)'
  BY <1>1, AccountsKept
<1>5. Histories'
  BY <1>1 DEF LeakInv, Histories, dbVars
<1> QED
  BY <1>2, <1>3, <1>4, <1>5 DEF LeakInv

\* A handler goes on with its event: what it has to delete stays before it.
LEMMA ContinuesLeaks ==
  ASSUME LeakInv, GrantInv', NEW w, Workers = {w}, NEW h, Becomes(w, h), UNCHANGED pending,
         fga' \subseteq fga, handler[w].stage # "idle", h.event = handler[w].event,
         h.stage = "tenants" => handler[w].stage # "next",
         h.event.kind # "tenant.created" => h.above = {},
         h.event.kind \in { "role.scope_added", "role.scope_removed" } =>
           \A b \in h.list : b[2] = h.event.arg[1],
         WritesAreBacked(h),
         h.event.kind \in Deleting =>
           \A u \in fga' : \A b \in bindings :
             WillDelete(handler[w], b, u) => Accounted(u, h.event) \/ WillDelete(h, b, u)
  PROVE  LeakInv'
<1>1. handler'[w] = h /\ UNCHANGED dbVars /\ pending' = pending /\ overtaken' = overtaken
  BY LeakFacts, BecomesSets
<1>2. fga' \subseteq Tuples /\ (\A u \in fga' : Accounted(u, Nothing)) /\ overtaken' \subseteq removed
  BY <1>1, LeakFacts DEF Histories
<1>3. EventWaits(h)
  BY LeakFacts DEF EventWaits
<1>4. h.event.kind \in Deleting =>
        \A u \in fga' : Accounted(u, h.event) \/ \E b \in bindings : WillDelete(h, b, u)
  BY LeakFacts DEF DeletesLeft
<1>5. WritesAreBacked(h)'
  BY <1>1, AccountsKept DEF WritesAreBacked
<1> QED
  BY <1>1, <1>2, <1>3, <1>4, <1>5, HandlerLeaks

\* When a handler starts, what only its event answered for is before it.
LEMMA StartLeaks ==
  ASSUME LeakInv, GrantInv', NEW w, Workers = {w}, NEW ev \in pending, Start(w, ev)
  PROVE  LeakInv'
<1> DEFINE h == [Idle EXCEPT !.stage = "row", !.event = ev]
<1>1. h.stage = "row" /\ h.event = ev /\ h.list = {} /\ h.above = {}
  BY DEF Idle
<1> HIDE DEF h
<1>2. Becomes(w, h) /\ UNCHANGED << pending, fga, failed >>
  BY DEF Start, h
<1>3. handler'[w] = h /\ UNCHANGED dbVars /\ overtaken' = overtaken
  BY <1>1, <1>2, LeakFacts, BecomesSets
<1>4. EventWaits(h) /\ WritesAreBacked(h)'
  BY <1>1 DEF EventWaits, WritesAreBacked
<1>5. ASSUME NEW u \in fga PROVE Accounted(u, ev) \/ \E b \in bindings : WillDelete(h, b, u)
  <2>1. CASE Lost(u)
    BY <2>1 DEF Accounted
  <2>2. CASE ~Lost(u)
    <3>1. PICK b \in bindings : Held(b, u, Nothing)
      BY <2>2, LeakFacts DEF Accounted
    <3> DEFINE p == << b[2], u[2] >>
    <3>2. CASE p \in roleScopes /\ Unretracted(b, Nothing)
      <4>1. Unretracted(b, ev) \/ (ev.kind = "role_binding.revoked" /\ ev.arg = b)
        BY <3>2 DEF Unretracted
      <4> QED
        BY <1>1, <3>1, <3>2, <4>1 DEF Held, Accounted, WillDelete
    <3>3. CASE p \in removed /\ (b \notin Active \/ Unsettled(p, Nothing))
      <4>1. \/ b \notin Active \/ Unsettled(p, ev)
            \/ b \in Active /\ ev.kind = "role.scope_removed" /\ ev.arg = p
        BY <3>3 DEF Unsettled
      <4> QED
        BY <1>1, <3>1, <3>3, <4>1 DEF Held, Accounted, WillDelete
    <3> QED
      BY <3>1, <3>2, <3>3 DEF Held
  <2> QED
    BY <2>1, <2>2
<1>6. fga' \subseteq Tuples /\ (\A u \in fga' : Accounted(u, Nothing)) /\ overtaken' \subseteq removed
  BY <1>2, <1>3, LeakFacts DEF Histories
<1> QED
  BY <1>1, <1>2, <1>4, <1>5, <1>6, HandlerLeaks

LEMMA ReadRowLeaks ==
  ASSUME LeakInv, GrantInv', NEW w, Workers = {w}, ReadRow(w)
  PROVE  LeakInv'
<1> DEFINE old == handler[w]
           h == [old EXCEPT !.stage = "next", !.list = BindingsOf(old.event),
                            !.above = AncestorsOf(old.event)]
<1>1. old.stage = "row" /\ Becomes(w, h) /\ UNCHANGED << pending, fga, failed >>
  BY DEF ReadRow
<1>2. /\ h.stage = "next" /\ h.event = old.event
      /\ h.list = BindingsOf(old.event) /\ h.above = AncestorsOf(old.event)
  BY LeakFacts DEF HandlerRecords
<1> HIDE DEF h
<1>3. /\ h.event.kind # "tenant.created" => h.above = {}
      /\ h.event.kind \in { "role.scope_added", "role.scope_removed" } =>
           \A b \in h.list : b[2] = h.event.arg[1]
  BY <1>2 DEF BindingsOf, AncestorsOf
<1>4. WritesAreBacked(h)
  <2>1. h.event.kind \notin Deleting => \A b \in h.list : b \in bindings \ revoked
    BY <1>2, LeakFacts DEF BindingsOf, Active, Deleting, RowTypes
  <2> QED
    BY <1>2, <2>1 DEF WritesAreBacked, Standing, Unretracted
<1>5. ASSUME NEW u, NEW b \in bindings, WillDelete(old, b, u) PROVE WillDelete(h, b, u)
  <2>1. b \in h.list
    <3>1. CASE old.event.kind = "role_binding.revoked" /\ old.event.arg = b
      BY <1>2, <3>1 DEF BindingsOf
    <3>2. CASE /\ old.event.kind = "role.scope_removed" /\ old.event.arg = << b[2], u[2] >>
               /\ b \in Active
      BY <1>2, <3>2 DEF BindingsOf
    <3> QED
      BY <1>1, <1>5, <3>1, <3>2 DEF WillDelete
  <2> QED
    BY <1>2, <1>5, <2>1 DEF WillDelete
<1> QED
  BY <1>1, <1>2, <1>3, <1>4, <1>5, ContinuesLeaks

LEMMA ListAncestorLeaks ==
  ASSUME LeakInv, GrantInv', NEW w, Workers = {w}, ListAncestor(w)
  PROVE  LeakInv'
<1> DEFINE old == handler[w]
<1>1. old.stage = "next" /\ old.list = {} /\ UNCHANGED << pending, fga, failed >>
  BY DEF ListAncestor
<1>2. PICK a \in old.above :
        Becomes(w, [old EXCEPT !.above = @ \ {a}, !.list = { b \in Active : b[3] = a }])
  BY DEF ListAncestor
<1> DEFINE h == [old EXCEPT !.above = @ \ {a}, !.list = { b \in Active : b[3] = a }]
<1>3. /\ h.stage = "next" /\ h.event = old.event /\ h.list = { b \in Active : b[3] = a }
      /\ Becomes(w, h)
  BY <1>1, <1>2, LeakFacts DEF HandlerRecords
<1> HIDE DEF h
<1>4. h.event.kind = "tenant.created"
  BY <1>1, <1>2, <1>3, LeakFacts DEF EventWaits
<1>5. WritesAreBacked(h)
  BY <1>3 DEF WritesAreBacked, Standing, Unretracted, Active
<1> QED
  BY <1>1, <1>3, <1>4, <1>5, ContinuesLeaks DEF Deleting

\* The scopes are the role's; that of an addition may be gone again, and then it is noted.
LEMMA ReadScopesLeaks ==
  ASSUME LeakInv, GrantInv', NEW w, Workers = {w}, ReadScopes(w)
  PROVE  LeakInv'
<1> DEFINE old == handler[w]
           S(b) == IF old.event.kind \in {"role.scope_added", "role.scope_removed"}
                     THEN {old.event.arg[2]} ELSE ScopesOf(b[2])
<1>1. old.stage = "next" /\ UNCHANGED << pending, fga, failed >>
  BY DEF ReadScopes
<1>2. PICK b \in old.list :
        Becomes(w, [old EXCEPT !.stage = "tenants", !.binding = b, !.list = @ \ {b}, !.scopes = S(b)])
  BY DEF ReadScopes
<1> DEFINE h == [old EXCEPT !.stage = "tenants", !.binding = b, !.list = @ \ {b}, !.scopes = S(b)]
<1>3. /\ h.stage = "tenants" /\ h.event = old.event /\ h.list = old.list \ {b}
      /\ h.above = old.above /\ h.binding = b /\ h.scopes = S(b) /\ Becomes(w, h)
  BY <1>1, <1>2, LeakFacts DEF HandlerRecords
<1> HIDE DEF h
<1>4. old.event \in Events /\ old.event \in pending /\ WritesAreBacked(old) /\ EventWaits(h)
  BY <1>1, <1>3, LeakFacts DEF EventWaits
<1>5. handler'[w] = h /\ UNCHANGED dbVars /\ overtaken \subseteq overtaken'
  BY <1>3, LeakFacts, BecomesSets
<1>6. /\ overtaken' \subseteq removed
      /\ old.event.kind = "role.scope_added" =>
           old.event.arg \in roleScopes \/ (old.event.arg \in removed /\ old.event.arg \in overtaken')
  <2>1. old.event.kind = "role.scope_added" => old.event.arg \in roleScopes \union removed
    BY <1>4, LeakFacts DEF Histories
  <2>2. overtaken' = overtaken \union
          (IF h.event.kind = "role.scope_added" THEN {h.event.arg} \ roleScopes ELSE {})
    BY <1>1, <1>3 DEF Becomes
  <2> QED
    BY <1>3, <2>1, <2>2, LeakFacts DEF Histories
<1>7. old.event.kind \notin Deleting => \A s \in S(b) : Lawful(<< b[2], s >>)'
  <2>1. CASE old.event.kind = "role.scope_added"
    <3>1. b[2] = old.event.arg[1] /\ old.event.arg = << old.event.arg[1], old.event.arg[2] >>
      BY <1>1, <1>2, <1>4, <2>1, LeakFacts, EventIsSet DEF EventWaits
    <3>2. PICK p : p = old.event.arg
      OBVIOUS
    <3>3. Lawful(p)'
      BY <1>5, <1>6, <2>1, <3>2 DEF Lawful, Unsettled, dbVars
    <3> QED
      BY <2>1, <3>1, <3>2, <3>3
  <2>2. CASE old.event.kind # "role.scope_added"
    BY <1>5, <2>2 DEF Lawful, ScopesOf, Deleting, dbVars
  <2> QED
    BY <2>1, <2>2
<1>8. PICK g : g = h
  OBVIOUS
<1>9. WritesAreBacked(g)'
  <2>1. old.event.kind \notin Deleting => \A c \in old.list : Standing(c)'
    BY <1>1, <1>4, <1>5, AccountsKept DEF WritesAreBacked
  <2>2. g.event.kind \notin Deleting =>
          (\A c \in g.list : Standing(c)') /\ \A s \in g.scopes : Lawful(<< b[2], s >>)'
    BY <1>2, <1>3, <1>7, <1>8, <2>1
  <2>3. g.binding = b /\ g.stage = "tenants"
    BY <1>3, <1>8
  <2>4. g.event.kind \notin Deleting => Standing(b)'
    BY <1>2, <1>3, <1>8, <2>1
  <2>5. g.event.kind \notin Deleting =>
          Standing(g.binding)' /\ \A s \in g.scopes : Lawful(<< g.binding[2], s >>)'
    BY <2>2, <2>3, <2>4
  <2> QED
    BY <2>2, <2>3, <2>5 DEF WritesAreBacked
<1>10. ASSUME NEW u \in fga, NEW c \in bindings, WillDelete(old, c, u)
      PROVE  WillDelete(h, c, u)
  <2>1. c \in old.list
    BY <1>1, <1>10 DEF WillDelete
  <2>2. c = b => u[2] \in S(b)
    <3>1. u[2] \in Scopes
      BY LeakFacts DEF Tuples
    <3> QED
      BY <1>10, <3>1 DEF WillDelete, ScopesOf
  <2> QED
    BY <1>1, <1>3, <1>10, <2>1, <2>2 DEF WillDelete
<1>11. h.event.kind \in Deleting =>
         \A u \in fga : Accounted(u, h.event) \/ \E c \in bindings : WillDelete(h, c, u)
  BY <1>1, <1>3, <1>10, LeakFacts DEF DeletesLeft
<1> HIDE DEF S
<1>12. /\ fga' \subseteq Tuples /\ \A u \in fga' : Accounted(u, Nothing)
       /\ g.event.kind \in Deleting =>
            \A u \in fga' : Accounted(u, g.event) \/ \E c \in bindings : WillDelete(g, c, u)
  BY <1>1, <1>8, <1>11, LeakFacts
<1>13. EventWaits(g) /\ Becomes(w, g) /\ overtaken' \subseteq removed /\ UNCHANGED pending
  BY <1>1, <1>3, <1>4, <1>6, <1>8
<1> HIDE DEF old
<1> QED
  BY <1>9, <1>12, <1>13, HandlerLeaks

\* A handler that writes goes by its binding and scopes: what it finds is answered for.
LEMMA ReadTenantsLeaks ==
  ASSUME LeakInv, GrantInv', NEW w, Workers = {w}, ReadTenants(w)
  PROVE  LeakInv'
<1> DEFINE old == handler[w]
           eff == EffectiveDescendants(old.binding[3], old.binding[2])
           at  == IF old.event.kind = "tenant.created" THEN eff \intersect {old.event.arg} ELSE eff
           h == [old EXCEPT !.stage = "tuples", !.todo = {old.binding[1]} \X old.scopes \X at]
<1>1. old.stage = "tenants" /\ UNCHANGED << pending, fga, failed >> /\ Becomes(w, h)
  BY DEF ReadTenants
<1>2. /\ h.stage = "tuples" /\ h.event = old.event /\ h.list = old.list /\ h.above = old.above
      /\ h.binding = old.binding /\ h.todo = {old.binding[1]} \X old.scopes \X at
  BY LeakFacts DEF HandlerRecords
<1> HIDE DEF h
<1>3. ASSUME old.event.kind \notin Deleting, NEW u \in h.todo
      PROVE  Accounted(u, Nothing)
  <2>1. u[1] = old.binding[1] /\ u[2] \in old.scopes /\ u[3] \in eff
    BY <1>2, <1>3
  <2>2. Standing(old.binding) /\ Lawful(<< old.binding[2], u[2] >>)
    BY <1>1, <1>3, <2>1, LeakFacts DEF WritesAreBacked
  <2>3. Covers(old.binding, u)
    BY <2>1 DEF Covers
  <2>4. old.binding \in bindings /\ Unretracted(old.binding, Nothing)
    BY <2>1, <2>2, LeakFacts DEF Standing, EffectiveDescendants, RowTypes
  <2> QED
    BY <2>2, <2>3, <2>4 DEF Lawful, Held, Lost, Accounted
<1>4. WritesAreBacked(h)
  BY <1>1, <1>2, <1>3, LeakFacts DEF WritesAreBacked
<1>5. ASSUME old.event.kind \in Deleting, NEW u \in fga, NEW b \in bindings, WillDelete(old, b, u)
      PROVE  WillDelete(h, b, u)
  <2>1. CASE b \in old.list
    BY <1>1, <1>2, <1>5, <2>1 DEF WillDelete
  <2>2. CASE old.binding = b /\ u[2] \in old.scopes
    <3>1. u = << u[1], u[2], u[3] >>
      BY LeakFacts DEF Tuples
    <3>2. u[1] = old.binding[1] /\ u[3] \in at
      BY <1>5, <2>2 DEF WillDelete, Covers, Deleting
    <3> HIDE DEF at
    <3>3. u \in h.todo
      BY <1>2, <2>2, <3>1, <3>2
    <3> QED
      BY <1>1, <1>2, <1>5, <3>3 DEF WillDelete
  <2> QED
    BY <1>1, <1>5, <2>1, <2>2 DEF WillDelete
<1>6. /\ h.event.kind # "tenant.created" => h.above = {}
      /\ h.event.kind \in { "role.scope_added", "role.scope_removed" } =>
           \A b \in h.list : b[2] = h.event.arg[1]
  BY <1>1, <1>2, LeakFacts DEF EventWaits
<1> HIDE DEF at
<1> QED
  BY <1>1, <1>2, <1>4, <1>5, <1>6, ContinuesLeaks

\* What is written is answered for.
LEMMA WriteOneLeaks ==
  ASSUME LeakInv, GrantInv', NEW w, Workers = {w}, WriteOne(w)
  PROVE  LeakInv'
<1> DEFINE old == handler[w]
<1>1. old.stage = "tuples" /\ old.event.kind \notin Deleting /\ UNCHANGED << pending, failed >>
  BY DEF WriteOne
<1>2. PICK u \in old.todo : fga' = fga \union {u} /\ Becomes(w, [old EXCEPT !.todo = @ \ {u}])
  BY DEF WriteOne
<1>3. PICK h : h = [old EXCEPT !.todo = @ \ {u}]
  OBVIOUS
<1>4. /\ h.stage = "tuples" /\ h.event = old.event /\ h.list = old.list /\ h.above = old.above
      /\ h.todo = old.todo \ {u} /\ Becomes(w, h)
  BY <1>1, <1>2, <1>3, LeakFacts DEF HandlerRecords
<1>5. UNCHANGED dbVars /\ overtaken' = overtaken /\ pending' = pending
  BY <1>1, <1>4, LeakFacts, BecomesSets
<1>6. EventWaits(h) /\ WritesAreBacked(h) /\ h.event.kind \notin Deleting
  BY <1>1, <1>4, LeakFacts DEF EventWaits, WritesAreBacked
<1>7. WritesAreBacked(h)'
  BY <1>5, <1>6, AccountsKept DEF WritesAreBacked
<1>8. Accounted(u, Nothing) /\ u \in Tuples
  BY <1>1, <1>2, LeakFacts DEF WritesAreBacked, HandlerRecords
<1>9. fga' \subseteq Tuples /\ (\A v \in fga' : Accounted(v, Nothing)) /\ overtaken' \subseteq removed
  BY <1>2, <1>5, <1>8, LeakFacts DEF Histories
<1> HIDE DEF old
<1> QED
  BY <1>4, <1>5, <1>6, <1>7, <1>9, HandlerLeaks

\* What a handler leaves because it is still provided is answered for by another binding.
LEMMA CheckOneLeaks ==
  ASSUME LeakInv, GrantInv', NEW w, Workers = {w}, CheckOne(w)
  PROVE  LeakInv'
<1> DEFINE old == handler[w]
           revokedOne == IF old.event.kind = "role_binding.revoked" THEN old.binding ELSE Nothing
<1>1. /\ old.stage = "tuples" /\ old.event.kind \in Deleting
      /\ UNCHANGED << pending, fga, failed >>
  BY DEF CheckOne
<1>2. PICK u \in old.todo :
        Becomes(w, IF StillProvided(u, revokedOne)
                     THEN [old EXCEPT !.todo = @ \ {u}]
                     ELSE [old EXCEPT !.stage = "delete", !.todo = @ \ {u}, !.tuple = u])
  BY DEF CheckOne
<1> DEFINE h == IF StillProvided(u, revokedOne)
                  THEN [old EXCEPT !.todo = @ \ {u}]
                  ELSE [old EXCEPT !.stage = "delete", !.todo = @ \ {u}, !.tuple = u]
<1>3. /\ h.event = old.event /\ h.list = old.list /\ h.above = old.above
      /\ h.todo = old.todo \ {u} /\ Becomes(w, h) /\ h.stage \in { "tuples", "delete" }
      /\ ~StillProvided(u, revokedOne) => h.stage = "delete" /\ h.tuple = u
  BY <1>1, <1>2, LeakFacts DEF HandlerRecords
<1> HIDE DEF h
<1>4. WritesAreBacked(h)
  BY <1>1, <1>3 DEF WritesAreBacked
<1>5. StillProvided(u, revokedOne) => Accounted(u, h.event)
  <2>1. \A b \in Active : Justifies(b, u) => Held(b, u, h.event)
    BY DEF Active, Justifies, Held, Covers, Unretracted
  <2> QED
    BY <2>1 DEF StillProvided, Accounted, Active
<1>6. ASSUME NEW v \in fga, NEW b \in bindings, WillDelete(old, b, v)
      PROVE  Accounted(v, h.event) \/ WillDelete(h, b, v)
  BY <1>1, <1>3, <1>5, <1>6 DEF WillDelete
<1>7. /\ h.event.kind # "tenant.created" => h.above = {}
      /\ h.event.kind \in { "role.scope_added", "role.scope_removed" } =>
           \A b \in h.list : b[2] = h.event.arg[1]
  BY <1>1, <1>3, LeakFacts DEF EventWaits
<1> QED
  BY <1>1, <1>3, <1>4, <1>6, <1>7, ContinuesLeaks

LEMMA DeleteOneLeaks ==
  ASSUME LeakInv, GrantInv', NEW w, Workers = {w}, DeleteOne(w)
  PROVE  LeakInv'
<1> DEFINE old == handler[w]
           h == [old EXCEPT !.stage = "tuples", !.tuple = Nothing]
<1>1. /\ old.stage = "delete" /\ fga' = fga \ {old.tuple} /\ UNCHANGED << pending, failed >>
      /\ Becomes(w, h)
  BY DEF DeleteOne
<1>2. /\ h.stage = "tuples" /\ h.event = old.event /\ h.list = old.list /\ h.above = old.above
      /\ h.todo = old.todo
  BY LeakFacts DEF HandlerRecords
<1> HIDE DEF h
<1>3. old.event.kind \in Deleting
  BY <1>1, LeakFacts DEF DeleteIsSafe
<1>4. WritesAreBacked(h)
  BY <1>2, <1>3 DEF WritesAreBacked
<1>5. \A u \in fga' : \A b \in bindings : WillDelete(old, b, u) => WillDelete(h, b, u)
  BY <1>1, <1>2 DEF WillDelete
<1>6. /\ h.event.kind # "tenant.created" => h.above = {}
      /\ h.event.kind \in { "role.scope_added", "role.scope_removed" } =>
           \A b \in h.list : b[2] = h.event.arg[1]
  BY <1>1, <1>2, LeakFacts DEF EventWaits
<1> QED
  BY <1>1, <1>2, <1>4, <1>5, <1>6, ContinuesLeaks

LEMMA NextBindingLeaks ==
  ASSUME LeakInv, GrantInv', NEW w, Workers = {w}, NextBinding(w)
  PROVE  LeakInv'
<1> DEFINE old == handler[w]
           h == [old EXCEPT !.stage = "next", !.binding = Nothing, !.scopes = {}]
<1>1. /\ old.stage = "tuples" /\ old.todo = {} /\ UNCHANGED << pending, fga, failed >>
      /\ Becomes(w, h)
  BY DEF NextBinding
<1>2. h.stage = "next" /\ h.event = old.event /\ h.list = old.list /\ h.above = old.above
  BY LeakFacts DEF HandlerRecords
<1> HIDE DEF h
<1>3. WritesAreBacked(h)
  BY <1>1, <1>2, LeakFacts DEF WritesAreBacked
<1>4. \A u : \A b \in bindings : WillDelete(old, b, u) => WillDelete(h, b, u)
  BY <1>1, <1>2 DEF WillDelete
<1>5. /\ h.event.kind # "tenant.created" => h.above = {}
      /\ h.event.kind \in { "role.scope_added", "role.scope_removed" } =>
           \A b \in h.list : b[2] = h.event.arg[1]
  BY <1>1, <1>2, LeakFacts DEF EventWaits
<1> QED
  BY <1>1, <1>2, <1>3, <1>4, <1>5, ContinuesLeaks

\* An event is acknowledged when its handler has nothing before it.
LEMMA AckLeaks ==
  ASSUME LeakInv, GrantInv', NEW w, Workers = {w}, Ack(w)
  PROVE  LeakInv'
<1> DEFINE old == handler[w]
<1>1. /\ old.stage = "next" /\ old.list = {} /\ pending' = pending \ {old.event}
      /\ Becomes(w, Idle) /\ UNCHANGED << fga, failed >>
  BY DEF Ack
<1>2. handler'[w] = Idle /\ UNCHANGED dbVars /\ overtaken' = overtaken
  BY <1>1, LeakFacts, BecomesSets DEF Idle
<1>3. /\ Active' = Active /\ tenants' = tenants /\ bindings' = bindings /\ revoked' = revoked
      /\ roleScopes' = roleScopes /\ removed' = removed /\ dropped' = dropped
  BY <1>2, RowsStay DEF dbVars
<1>4. ASSUME NEW u \in fga PROVE Accounted(u, old.event)
  <2>1. CASE old.event.kind \in Deleting
    BY <1>1, <1>4, <2>1, LeakFacts DEF DeletesLeft, WillDelete
  <2>2. CASE old.event.kind \notin Deleting
    <3>1. /\ \A b : Unretracted(b, Nothing) => Unretracted(b, old.event)
          /\ \A p : Unsettled(p, Nothing) => Unsettled(p, old.event)
      BY <2>2 DEF Unretracted, Unsettled, Deleting
    <3>2. \A b : Held(b, u, Nothing) => Held(b, u, old.event)
      BY <3>1 DEF Held
    <3> QED
      BY <1>4, <3>2, LeakFacts DEF Accounted
  <2> QED
    BY <2>1, <2>2
<1>5. /\ \A b : Unretracted(b, old.event) => Unretracted(b, Nothing)'
      /\ \A p : Unsettled(p, old.event) => Unsettled(p, Nothing)'
  BY <1>1, <1>2, <1>3, LeakFacts DEF Unretracted, Unsettled
<1>6. \A b, u : Covers(b, u)' <=> Covers(b, u)
  BY <1>3 DEF Covers, EffectiveDescendants
<1>7. \A b, u : Held(b, u, old.event) => Held(b, u, Nothing)'
  BY <1>3, <1>5, <1>6 DEF Held
<1>8. \A u \in fga' : Accounted(u, Nothing)'
  BY <1>1, <1>3, <1>4, <1>7 DEF Accounted, Lost
<1>9. Histories'
  BY <1>1, <1>2, <1>3, LeakFacts DEF Histories
<1>10. EventWaits(handler[w])' /\ DeletesLeft(handler[w])' /\ WritesAreBacked(handler[w])'
  BY <1>2 DEF EventWaits, DeletesLeft, WritesAreBacked, Idle
<1> QED
  BY <1>8, <1>9, <1>10 DEF LeakInv

LEMMA FailLeaks ==
  ASSUME LeakInv, GrantInv', NEW w, Workers = {w}, Fail(w)
  PROVE  LeakInv'
<1>1. Becomes(w, Idle) /\ UNCHANGED << pending, fga >>
  BY DEF Fail
<1>2. EventWaits(Idle) /\ WritesAreBacked(Idle)' /\ Idle.stage = "idle"
  BY DEF EventWaits, WritesAreBacked, Idle
<1>3. overtaken' = overtaken
  BY <1>1, <1>2, LeakFacts, BecomesSets
<1>4. fga' \subseteq Tuples /\ (\A u \in fga' : Accounted(u, Nothing)) /\ overtaken' \subseteq removed
  BY <1>1, <1>3, LeakFacts DEF Histories
<1>5. PICK g : g = Idle
  OBVIOUS
<1>6. EventWaits(g) /\ WritesAreBacked(g)' /\ g.stage = "idle" /\ Becomes(w, g)
  BY <1>1, <1>2, <1>5
<1> QED
  BY <1>1, <1>4, <1>6, HandlerLeaks

LEMMA LeakInit == Init => LeakInv
<1> SUFFICES ASSUME Init PROVE LeakInv
  OBVIOUS
<1>1. Histories /\ \A u \in fga : Accounted(u, Nothing)
  BY DEF Init, Histories
<1>2. \A w \in Workers :
        EventWaits(handler[w]) /\ DeletesLeft(handler[w]) /\ WritesAreBacked(handler[w])
  BY DEF Init, EventWaits, DeletesLeft, WritesAreBacked, Idle
<1> QED
  BY <1>1, <1>2, GrantInit DEF LeakInv

LEMMA LeakStep ==
  ASSUME NEW w, Workers = {w}, LeakInv, [Next]_vars
  PROVE  LeakInv'
<1>1. GrantInv'
  BY GrantStep DEF LeakInv
<1>2. CASE UNCHANGED vars
  <2>1. /\ handler' = handler /\ fga' = fga /\ overtaken' = overtaken /\ pending' = pending
        /\ UNCHANGED << dbVars, handler >>
        /\ tenants' = tenants /\ dropped' = dropped /\ removed' = removed /\ bindings' = bindings
        /\ revoked' = revoked /\ roleScopes' = roleScopes
    BY <1>2 DEF vars, dbVars
  <2>2. Active' = Active
    BY <2>1, RowsStay
  <2>3. \A b, u : Covers(b, u) => Covers(b, u)'
    BY <2>1, CoversStays
  <2>4. ServiceEnds
    BY <2>1, <2>2, <2>3 DEF ServiceEnds
  <2> QED
    BY <1>1, <2>4, ServiceKeepsLeaks
<1>3. CASE ServiceCall
  BY <1>1, <1>3, ServiceLeaks
<1>4. ASSUME NEW ev \in pending, Start(w, ev) PROVE LeakInv'
  BY <1>1, <1>4, StartLeaks
<1>5. CASE ReadRow(w) \/ ListAncestor(w) \/ ReadScopes(w) \/ ReadTenants(w)
  BY <1>1, <1>5, ReadRowLeaks, ListAncestorLeaks, ReadScopesLeaks, ReadTenantsLeaks
<1>6. CASE WriteOne(w) \/ CheckOne(w) \/ DeleteOne(w)
  BY <1>1, <1>6, WriteOneLeaks, CheckOneLeaks, DeleteOneLeaks
<1>7. CASE NextBinding(w) \/ Ack(w) \/ Fail(w)
  BY <1>1, <1>7, NextBindingLeaks, AckLeaks, FailLeaks
<1> QED
  BY <1>2, <1>3, <1>4, <1>5, <1>6, <1>7 DEF Next, WorkerStep

LEMMA LeakInvImplies == LeakInv => LeaksExplained
<1> SUFFICES ASSUME LeakInv, NEW u \in fga \ Desired
             PROVE  (\E ev \in pending : Retracts(ev, u)) \/ Forgotten(u)
  BY DEF LeaksExplained
<1>1. u \in Tuples /\ Accounted(u, Nothing)
  BY TypeParts DEF LeakInv, GrantInv, QueueTypes
<1>2. CASE Lost(u)
  BY <1>2 DEF Lost, Forgotten
<1>3. ASSUME NEW b \in bindings, Held(b, u, Nothing)
      PROVE  (\E ev \in pending : Retracts(ev, u)) \/ Forgotten(u)
  <2> DEFINE p == << b[2], u[2] >>
  <2>1. CASE p \in roleScopes /\ Unretracted(b, Nothing)
    <3>1. Justifies(b, u)
      BY <1>3, <2>1 DEF Held, Justifies, Covers
    <3>2. b \in revoked \/ b \in expired \ revoked
      BY <1>1, <3>1 DEF Desired, Active
    <3> QED
      BY <2>1, <3>1, <3>2 DEF Unretracted, Retracts, Forgotten
  <2>2. CASE p \in removed /\ (b \notin Active \/ p \in overtaken)
    BY <1>3, <2>2 DEF Held, Forgotten
  <2>3. CASE /\ b \in Active
             /\ \E ev \in pending : ev.kind = "role.scope_removed" /\ ev.arg = p
    BY <1>3, <2>3 DEF Held, Retracts
  <2> QED
    BY <1>3, <2>1, <2>2, <2>3 DEF Held, Unsettled
<1> QED
  BY <1>1, <1>2, <1>3 DEF Accounted

\* With one worker, whatever the services do and whatever fails, a tuple that no active
\* binding calls for is about to be deleted, or stays for one of five causes: its tenant is
\* gone, its scope went with the tenant that owned it, its binding has expired, or its scope
\* was taken from the role while the binding ended too, or before the addition of the scope
\* was handled.
THEOREM OneWorkerExplainsLeaks ==
  ASSUME NEW w, Workers = {w}
  PROVE  Spec => []LeaksExplained
<1>1. Init => LeakInv
  BY LeakInit
<1>2. LeakInv /\ [Next]_vars => LeakInv'
  BY LeakStep
<1> QED
  BY <1>1, <1>2, LeakInvImplies, PTL DEF Spec

-----------------------------------------------------------------------------
(* As long as a grant ends by a revoke only, none leaks *)

OnlyRevokesEnd == Operations \intersect { "expire", "removeScope", "deleteTenant" } = {}

\* What only a service call that does not happen would change.
Lasting ==
  /\ dropped = {} /\ expired = {} /\ removed = {}
  /\ \A ev \in pending : ev.kind # "role.scope_removed"

LEMMA LastingInit == Init => Lasting
BY DEF Init, Lasting

LEMMA LastingStep == ASSUME OnlyRevokesEnd, Lasting, [Next]_vars PROVE Lasting'
<1>1. CASE ServiceCall
  <2>1. /\ \A b \in Bindings : ~Expire(b)
        /\ \A r \in Roles, s \in Scopes : ~RemoveScope(r, s)
        /\ \A t \in Tenants : ~DeleteTenant(t)
    BY DEF OnlyRevokesEnd, Expire, RemoveScope, DeleteTenant, Commits
  <2>2. ASSUME NEW b \in Bindings, Bind(b) \/ Revoke(b) PROVE Lasting'
    BY <2>2, Committed DEF Bind, Revoke, Lasting
  <2>3. ASSUME NEW p \in Principals, RevokeAllBindings(p) PROVE Lasting'
    BY <2>3, Committed DEF RevokeAllBindings, Lasting
  <2>4. ASSUME NEW r \in Roles, NEW S \in SUBSET Scopes, AddScopes(r, S) PROVE Lasting'
    BY <2>4, Committed DEF AddScopes, Lasting
  <2>5. ASSUME NEW t \in Tenants, CreateTenant(t) PROVE Lasting'
    BY <2>5, Committed DEF CreateTenant, Lasting
  <2> QED
    BY <1>1, <2>1, <2>2, <2>3, <2>4, <2>5 DEF ServiceCall
<1>2. CASE \E w \in Workers : WorkerStep(w) \/ Fail(w)
  <2> PICK w \in Workers : WorkerStep(w) \/ Fail(w)
    BY <1>2
  <2>1. UNCHANGED dbVars
    BY DEF WorkerStep, Fail, Becomes, Start, ReadRow, ListAncestor, ReadScopes, ReadTenants,
           WriteOne, CheckOne, DeleteOne, NextBinding, Ack
  <2>2. pending' \subseteq pending
    BY DEF WorkerStep, Fail, Start, ReadRow, ListAncestor, ReadScopes, ReadTenants,
           WriteOne, CheckOne, DeleteOne, NextBinding, Ack
  <2> QED
    BY <2>1, <2>2 DEF Lasting, dbVars
<1>3. CASE UNCHANGED vars
  BY <1>3 DEF vars, dbVars, Lasting
<1> QED
  BY <1>1, <1>2, <1>3 DEF Next

\* A tuple that no active binding calls for is about to be deleted by a revoke that is
\* still in the outbox.
LeaksAnnounced ==
  \A u \in fga \ Desired :
    \E ev \in pending : ev.kind = "role_binding.revoked" /\ Justifies(ev.arg, u)

\* None of the five causes is there, and only a revoke retracts.
LEMMA LastingImplies == LeakInv /\ Lasting => LeaksAnnounced
<1> SUFFICES ASSUME LeakInv, Lasting, NEW u \in fga \ Desired
             PROVE  \E ev \in pending : ev.kind = "role_binding.revoked" /\ Justifies(ev.arg, u)
  BY DEF LeaksAnnounced
<1>1. overtaken = {}
  BY DEF LeakInv, Histories, Lasting
<1>2. ~Forgotten(u)
  BY <1>1 DEF Forgotten, Lasting
<1>3. PICK ev \in pending : Retracts(ev, u)
  BY <1>2, LeakInvImplies DEF LeaksExplained
<1> QED
  BY <1>3 DEF Retracts, Lasting

\* With one worker, and as long as a grant ends by a revoke only, a tuple that no active
\* binding calls for is about to be deleted by a revoke that is still in the outbox.
THEOREM OneWorkerLeaksNothing ==
  ASSUME NEW w, Workers = {w}, OnlyRevokesEnd
  PROVE  Spec => []LeaksAnnounced
<1>1. Init => LeakInv /\ Lasting
  BY LeakInit, LastingInit
<1>2. LeakInv /\ Lasting /\ [Next]_vars => (LeakInv /\ Lasting)'
  BY LeakStep, LastingStep
<1> QED
  BY <1>1, <1>2, LastingImplies, PTL DEF Spec

\* What the documentation promises holds under these conditions: with one worker, and as
\* long as a grant ends by a revoke only, the store holds the desired tuples and nothing
\* else whenever the outbox is empty.
THEOREM OneWorkerInSync ==
  ASSUME NEW w, Workers = {w}, OnlyRevokesEnd
  PROVE  Spec => []InSyncWhenDrained
<1>1. Init => LeakInv /\ Lasting
  BY LeakInit, LastingInit
<1>2. LeakInv /\ Lasting /\ [Next]_vars => (LeakInv /\ Lasting)'
  BY LeakStep, LastingStep
<1>3. LeakInv /\ Lasting => InSyncWhenDrained
  <2> SUFFICES ASSUME LeakInv, Lasting, pending = {} PROVE fga = Desired
    BY DEF InSyncWhenDrained
  <2>1. fga \subseteq Desired
    BY LastingImplies DEF LeaksAnnounced
  <2>2. Desired \subseteq fga
    BY GrantInvImplies DEF GrantsAnnounced, LeakInv
  <2> QED
    BY <2>1, <2>2
<1> QED
  BY <1>1, <1>2, <1>3, PTL DEF Spec
=============================================================================
