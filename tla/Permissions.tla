---------------------------- MODULE Permissions ----------------------------
(***************************************************************************)
(* Scopes and what a check makes of their names.  A role grants scopes by  *)
(* id: the materializer writes one tuple (tenant, scope) for each tenant   *)
(* that a binding reaches.  A check names the scope instead, and the name  *)
(* is looked up among the scopes of the tenant and of its ancestors, the   *)
(* nearest first; inheritance boundaries, which stop grants, do not stop   *)
(* names.  The tenants and the two recursive queries are TenantTree's.     *)
(***************************************************************************)
EXTENDS TenantTree

CONSTANTS
  ScopeIds,  \* ids that newId() may hand to scopes
  Names      \* names of scopes

VARIABLES
  scopes,    \* rows of scopes
  drawn,     \* ids of scopes ever used
  home,      \* column tenant_id
  name       \* column name

scopeVars == << scopes, drawn, home, name >>
allVars   == << vars, scopeVars >>

PermissionsInit ==
  /\ Init
  /\ scopes = {} /\ drawn = {}
  /\ home = [s \in {} |-> Master]
  /\ name = [s \in {} |-> Master]

\* The unique index on (tenant_id, name); the services answer 409 (wrapConflict).
NameFree(t, n) == \A s \in scopes : ~(home[s] = t /\ name[s] = n)

CreateScope(s, t, n) ==
  /\ s \notin drawn /\ t \in rows /\ NameFree(t, n)
  /\ scopes' = scopes \union {s}
  /\ drawn' = drawn \union {s}
  /\ home' = [r \in scopes' |-> IF r = s THEN t ELSE home[r]]
  /\ name' = [r \in scopes' |-> IF r = s THEN n ELSE name[r]]
  /\ UNCHANGED vars

\* ScopesService.update: no event, the tuples name the scope by id.
RenameScope(s, n) ==
  /\ s \in scopes /\ NameFree(home[s], n)
  /\ name' = [name EXCEPT ![s] = n]
  /\ UNCHANGED << vars, scopes, drawn, home >>

\* The foreign key of scopes onto tenants.
CascadeScopes ==
  /\ scopes' = { s \in scopes : home[s] \in rows' }
  /\ home' = [s \in scopes' |-> home[s]]
  /\ name' = [s \in scopes' |-> name[s]]

ScopeStep ==
  \E s \in ScopeIds, n \in Names : RenameScope(s, n) \/ \E t \in rows : CreateScope(s, t, n)

PermissionsNext ==
  \/ ScopeStep
  \/ \E t \in Ids, p \in rows, inh \in BOOLEAN : Create(t, p, inh) /\ UNCHANGED scopeVars
  \/ \E t \in Ids : Delete(t) /\ CascadeScopes /\ UNCHANGED drawn

PermissionsSpec == PermissionsInit /\ [][PermissionsNext]_allVars

-----------------------------------------------------------------------------
(* The lookup and the answers, a set of at most one scope and Booleans *)

\* Mutation: the join with the chain of ancestors is lost.
Named_Anywhere(found, n) == { s \in scopes : name[s] = n /\ found # {} }

\* The rows that the join of scopes and chain finds at one depth.
Named(found, n) == { s \in scopes : name[s] = n /\ home[s] \in found }

\* Mutation: ORDER BY depth DESC.
FindByNameInAncestors_Farthest(tenant, n) ==
  LET up   == Ascend(tenant)
      hits == { d \in DOMAIN up : Named(up[d], n) # {} }
  IN  UNION { Named(up[d], n) : d \in { d \in hits : \A e \in hits : e <= d } }

\* Mutation: findByName, the tenant's own scopes only.
FindByNameInAncestors_Own(tenant, n) == Named({tenant}, n)

\* ORDER BY depth ASC LIMIT 1.
FindByNameInAncestors(tenant, n) ==
  LET up   == Ascend(tenant)
      hits == { d \in DOMAIN up : Named(up[d], n) # {} }
  IN  UNION { Named(up[d], n) : d \in { d \in hits : \A e \in hits : d <= e } }

\* check, once the name is looked up: unknown is refused, else one tuple decides.
Allowed(tenant, found, tuples) == \E s \in found : << tenant, s >> \in tuples

\* listScopesForPrincipal: the tuples at the tenant, as far as their scopes exist.
ListScopes(tenant, tuples) == { s \in scopes : << tenant, s >> \in tuples }

\* What the materializer writes for a binding at `from` of a role with scopes S.
GrantedBy(from, crossesBoundary, S) == GetEffectiveDescendants(from, crossesBoundary) \X S

-----------------------------------------------------------------------------
(* Properties *)

Chain(t) == Rule!Ancestors[t]

\* A name means the scope of the nearest ancestor that has one of that name: one
\* scope at most, and nothing on the way up to it (findByNameInAncestors).
ResolutionIsNearest ==
  \A t \in rows, n \in Names :
    LET named   == { s \in scopes : name[s] = n /\ home[s] \in Chain(t) }
        nearest == { s \in named : \A r \in named : home[r] \in Chain(home[s]) }
    IN  /\ FindByNameInAncestors(t, n) = nearest
        /\ Cardinality(nearest) = IF named = {} THEN 0 ELSE 1

\* Names and grants meet.  What a check allows is listed; and a scope that a binding
\* grants, taken from the binding's tenant or above, is allowed by name wherever the
\* binding reaches, on either side of a boundary, unless a scope of the same name
\* below its own tenant hides it.
GrantsWorkByName ==
  \A t \in rows :
    LET up    == Chain(t)
        means == [n \in Names |-> FindByNameInAncestors(t, n)]
    IN  \A from \in up, cross \in BOOLEAN, S \in SUBSET scopes :
          LET tuples == GrantedBy(from, cross, S)
              listed == ListScopes(t, tuples)
          IN  /\ \A n \in Names :
                   Allowed(t, means[n], tuples) => n \in { name[s] : s \in listed }
              /\ \A s \in listed :
                   home[s] \in Chain(from) =>
                     \/ Allowed(t, means[name[s]], tuples)
                     \/ \E r \in scopes : /\ name[r] = name[s]
                                          /\ home[r] \in up \ Chain(home[s])

\* What a name means at a tenant changes only with a scope created or renamed there or
\* above, to or from that scope: creating and deleting tenants changes it nowhere else,
\* and a rename is felt neither beside nor above (ScopesService.create, update).
NamesMoveLocally ==
  [][ \A t \in rows \intersect rows', n \in Names :
        FindByNameInAncestors(t, n)' # FindByNameInAncestors(t, n) =>
          \E s \in scopes' :
            /\ s \notin scopes \/ name'[s] # name[s]
            /\ home'[s] \in GetAncestors(t)
            /\ s \in FindByNameInAncestors(t, n) \union FindByNameInAncestors(t, n)' ]_allVars
=============================================================================
