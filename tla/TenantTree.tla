----------------------------- MODULE TenantTree -----------------------------
(***************************************************************************)
(* The tenants table and its two recursive queries.  A tenant is inserted  *)
(* under an existing one and deleted when nothing hangs below it; the      *)
(* queries are evaluated as the database does, one working table after     *)
(* another, and compared with the inheritance rule of module Tenancy.      *)
(***************************************************************************)
EXTENDS Integers, FiniteSets

CONSTANTS
  Ids,       \* ids that newId() may hand to tenants
  Master,    \* MASTER_TENANT_ID, seeded
  NoTenant   \* parent_id of the master tenant

ASSUME TreeAssumption == NoTenant \notin Ids \union {Master}

VARIABLES
  rows,      \* rows of tenants
  issued,    \* ids ever used
  parent,    \* column parent_id
  inherit    \* column inherit

vars == << rows, issued, parent, inherit >>

Rule == INSTANCE Tenancy WITH Tenants <- rows, Parent <- parent, Inherit <- inherit

Init ==
  /\ rows = {Master}
  /\ issued = {Master}
  /\ parent = [t \in {Master} |-> NoTenant]
  /\ inherit = [t \in {Master} |-> TRUE]

\* create: parent_id references an existing row; inherit as the caller says.
Create(t, p, inh) ==
  /\ t \notin issued
  /\ p \in rows
  /\ rows' = rows \union {t}
  /\ issued' = issued \union {t}
  /\ parent' = [u \in rows' |-> IF u = t THEN p ELSE parent[u]]
  /\ inherit' = [u \in rows' |-> IF u = t THEN inh ELSE inherit[u]]

\* delete: never the master, never a tenant with children.
Delete(t) ==
  /\ t \in rows \ {Master}
  /\ \A c \in rows : parent[c] # t
  /\ rows' = rows \ {t}
  /\ parent' = [u \in rows' |-> parent[u]]
  /\ inherit' = [u \in rows' |-> inherit[u]]
  /\ UNCHANGED issued

Next ==
  \E t \in Ids :
    \/ \E p \in rows, inh \in BOOLEAN : Create(t, p, inh)
    \/ Delete(t)

Spec == Init /\ [][Next]_vars

-----------------------------------------------------------------------------
(* The queries: the working table of each round of WITH RECURSIVE *)

\* Mutation: the boundary is tested on the row descended from.
Descend_FromParent(tenant, crossesBoundary) ==
  LET below(d) == { t \in rows : parent[t] = d /\ (crossesBoundary \/ inherit[d]) }
      round[n \in 0 .. Cardinality(rows)] ==
        IF n = 0 THEN {tenant} \intersect rows ELSE UNION { below(d) : d \in round[n - 1] }
  IN  round

Descend(tenant, crossesBoundary) ==
  LET below(d) == { t \in rows : parent[t] = d /\ (crossesBoundary \/ inherit[t]) }
      round[n \in 0 .. Cardinality(rows)] ==
        IF n = 0 THEN {tenant} \intersect rows ELSE UNION { below(d) : d \in round[n - 1] }
  IN  round

\* Mutation: starts above the tenant.
Ascend_Proper(tenant) ==
  LET round[n \in 0 .. Cardinality(rows)] ==
        IF n = 0 THEN {parent[tenant]} \intersect rows
        ELSE rows \intersect { parent[c] : c \in round[n - 1] }
  IN  round

Ascend(tenant) ==
  LET round[n \in 0 .. Cardinality(rows)] ==
        IF n = 0 THEN {tenant} \intersect rows
        ELSE rows \intersect { parent[c] : c \in round[n - 1] }
  IN  round

Collected(round) == UNION { round[n] : n \in DOMAIN round }

GetEffectiveDescendants(tenant, crossesBoundary) ==
  Collected(Descend(tenant, crossesBoundary))

GetAncestors(tenant) == Collected(Ascend(tenant))

-----------------------------------------------------------------------------
(* Properties *)

\* The descent finds exactly the tenants that the rule of inheritance names: those
\* below, down to the first boundary unless the role crosses it.  The rest of the
\* materializer (and module GrantSync) relies on the rule.
DescendantsFollowRule ==
  \A from \in rows, cross \in BOOLEAN :
    GetEffectiveDescendants(from, cross) = { to \in rows : Rule!Reaches(from, to, cross) }

\* A binding at `from` reaches a tenant only if that tenant's own upward query finds
\* `from`: materializeTenantCreated misses no ancestor whose bindings count.  Both
\* recursions end (the last round is empty) and, though written with UNION ALL,
\* return no row twice: the parent links never form a cycle.
QueriesEndAndAgree ==
  \A t \in rows :
    LET up   == Ascend(t)
        down == Descend(t, TRUE)
        last == Cardinality(rows)
    IN  /\ up[last] = {} /\ down[last] = {}
        /\ \A m, n \in 0 .. last :
             m # n => up[m] \intersect up[n] = {} /\ down[m] \intersect down[n] = {}
        /\ Master \in GetAncestors(t)
        /\ \A u \in rows : u \in GetEffectiveDescendants(t, TRUE) <=> t \in GetAncestors(u)

=============================================================================
