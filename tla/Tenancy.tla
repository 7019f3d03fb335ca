------------------------------ MODULE Tenancy ------------------------------
(***************************************************************************)
(* The tenant tree and its inheritance rule (tenants.parent_id and         *)
(* tenants.inherit, roles.crosses_boundary).  No service moves a tenant,   *)
(* flips inherit or changes crosses_boundary once the row exists, so all   *)
(* three are functions of the id; which rows exist is state of the modules *)
(* that extend this one.                                                   *)
(***************************************************************************)
EXTENDS Integers

CONSTANTS
  Tenants,   \* ids that newId() may hand to tenants
  NoTenant,  \* parent_id of the master tenant
  Parent,    \* parent_id of each tenant
  Inherit    \* column inherit of each tenant

ASSUME TenancyAssumption ==
  /\ NoTenant \notin Tenants
  /\ Parent \in [Tenants -> Tenants \union {NoTenant}]
  /\ Inherit \in [Tenants -> BOOLEAN]
  /\ \A S \in SUBSET Tenants : S # {} => \E t \in S : Parent[t] \notin S

\* A tenant and everything above it: what the recursive query of getAncestors
\* collects.  A row exists only under an existing parent, so no link dangles.
Ancestors[t \in Tenants] ==
  {t} \union (IF Parent[t] = NoTenant THEN {} ELSE Ancestors[Parent[t]])

\* A grant at tenant `from` reaches tenant `to`: `to` lies at or below `from`, and
\* no tenant on the way down refuses inheritance unless the role crosses it.
Reaches(from, to, crossesBoundary) ==
  /\ from \in Ancestors[to]
  /\ \/ crossesBoundary
     \/ \A t \in Ancestors[to] \ Ancestors[from] : Inherit[t]

=============================================================================
