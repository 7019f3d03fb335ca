-------------------------------- MODULE Drain --------------------------------
(***************************************************************************)
(* Deleting what others refer to.  A tenant may be deleted once it has no  *)
(* children, API keys or active bindings, a user once no binding of theirs *)
(* is active; revokeAllBindings clears a user's bindings up to a cap; and  *)
(* the seed script binds the first administrator.                          *)
(*                                                                         *)
(* Each of these calls is a transaction at READ COMMITTED (the seed's      *)
(* statements are not even that): it counts, one statement after another,  *)
(* and writes later, and whatever commits in between is seen by the later  *)
(* statements only.  Creators insert one row whose foreign keys lock the   *)
(* rows they refer to, so each of them is one step, before or after the    *)
(* DELETE.                                                                 *)
(***************************************************************************)
EXTENDS Naturals, FiniteSets

CONSTANTS
  Tenants, Parent,   \* ids that newId() may hand to tenants, and their parents
  Master,            \* the tenant that the seed creates
  Standing,          \* tenants that exist at first
  Users, Keys,       \* rows of users, ids of API keys
  KeyTenant,         \* the tenant of each key
  Roles, RoleTenant, \* ids of roles, and the tenant each belongs to
  AdminRole,         \* the role that the seed creates
  Bindings,          \* <<principal, role, tenant>> triples that may be bound
  Callers,           \* concurrent calls
  Cap,               \* REVOKE_ALL_BINDINGS_CAP
  MaxCalls,          \* bound: calls in a behaviour
  MaxTxns            \* bound: transactions of others, and bindings that expire

ASSUME DrainAssumption ==
  /\ Tenants \intersect (Users \union Keys) = {} /\ Users \intersect Keys = {}
  /\ Master \in Standing /\ Standing \subseteq Tenants
  /\ Parent \in [Tenants \ {Master} -> Tenants]
  /\ KeyTenant \in [Keys -> Tenants]
  /\ RoleTenant \in [Roles -> Tenants]
  /\ AdminRole \in Roles /\ RoleTenant[AdminRole] = Master
  /\ Bindings \subseteq (Users \union Keys) \X Roles \X Tenants
  /\ \A t \in Standing \ {Master} : Parent[t] \in Standing
  /\ Cap \in Nat /\ MaxCalls \in Nat /\ MaxTxns \in Nat

VARIABLES
  tenants, keys, roles, \* rows that exist
  dropped,    \* ids of tenants that are gone
  principals, \* users and keys that have a principal
  deleted,    \* users with deleted_at set
  bound,      \* rows of role_bindings
  revoked,    \* of these, the rows with revoked_at set
  expired,    \* of these, the rows whose expires_at has passed
  call,       \* what each caller is doing
  seen,       \* history: what was true while the call ran
  calls, txns \* bounds

rowVars == << tenants, dropped, keys, roles, principals, deleted, bound, revoked, expired >>
vars    == << rowVars, call, seen, calls, txns >>

\* activePredicate.
Active == bound \ (revoked \union expired)

ActiveOf(x) == { b \in Active : x \in {b[1], b[3]} }

Children(t) == { s \in tenants \ {Master} : Parent[s] = t }

KeysAt(t) == { k \in keys : KeyTenant[k] = t }

\* Bindings at other tenants whose role belongs to t: role_id is RESTRICT.
UsedElsewhere(t) == { b \in bound : RoleTenant[b[2]] = t /\ b[3] # t }

\* What stands in the way of deleting x, of which the calls count all but "roles".
Stands(k, x) ==
  \/ k = "master" /\ x = Master
  \/ k = "children" /\ Children(x) # {}
  \/ k = "keys" /\ KeysAt(x) # {}
  \/ k = "bindings" /\ ActiveOf(x) # {}
  \/ k = "roles" /\ UsedElsewhere(x) # {}

Kinds == {"master", "children", "keys", "bindings", "roles"}

Blockers == [x \in Tenants \union Users |-> { k \in Kinds : Stands(k, x) }]

AdminBinding(u) == << u, AdminRole, Master >>

Ended == {"gone", "refused", "failed", "done"}

Idle == [op |-> "none", on |-> Master, stage |-> "done", found |-> {}, took |-> {}]

Nothing == [ever |-> {}, always |-> {}, late |-> {}, admin |-> FALSE]

Init ==
  /\ tenants = Standing /\ dropped = {} /\ keys = {}
  /\ roles = {AdminRole}
  /\ principals = {} /\ deleted = {}
  /\ bound = {} /\ revoked = {} /\ expired = {}
  /\ call = [c \in Callers |-> Idle]
  /\ seen = [c \in Callers |-> Nothing]
  /\ calls = 0 /\ txns = 0

\* Every step is watched by the calls in progress: the blockers there were at some
\* and at every moment, the bindings that came after the count, the admin binding.
Watch(c) ==
  LET x     == call'[c].on
      now   == Blockers'[x]
      admin == AdminBinding(x) \in bound' \ revoked'
  IN  IF call[c].stage \in Ended THEN
        IF call'[c].stage \in Ended THEN seen[c]
        ELSE [ever |-> now, always |-> now, late |-> {}, admin |-> admin]
      ELSE IF call'[c].stage \in Ended THEN [seen[c] EXCEPT !.admin = @ \/ admin]
      ELSE [ever   |-> seen[c].ever \union now,
            always |-> seen[c].always \intersect now,
            late   |-> seen[c].late
                         \union (IF call[c].stage = "write" THEN bound' \ bound ELSE {}),
            admin  |-> seen[c].admin \/ admin]

Observe == seen' = [c \in Callers |-> Watch(c)]

-----------------------------------------------------------------------------
(* Creators, revokes and the clock: one step each *)

Commits ==
  /\ txns < MaxTxns
  /\ txns' = txns + 1
  /\ UNCHANGED << dropped, deleted, call, calls >>
  /\ Observe

Creates == UNCHANGED << revoked, expired >> /\ Commits

CreateTenant(t) ==
  /\ t \notin tenants \union dropped /\ Parent[t] \in tenants
  /\ tenants' = tenants \union {t}
  /\ UNCHANGED << keys, roles, principals, bound >>
  /\ Creates

\* The key and its principal, in one transaction.
CreateKey(k) ==
  /\ k \notin keys /\ KeyTenant[k] \in tenants
  /\ keys' = keys \union {k}
  /\ principals' = principals \union {k}
  /\ UNCHANGED << tenants, roles, bound >>
  /\ Creates

CreateRole(r) ==
  /\ r \notin roles /\ RoleTenant[r] \in tenants
  /\ roles' = roles \union {r}
  /\ UNCHANGED << tenants, keys, principals, bound >>
  /\ Creates

\* ensureForUser, at the login of a live user.
FirstLogin(u) ==
  /\ u \notin principals \union deleted
  /\ principals' = principals \union {u}
  /\ UNCHANGED << tenants, keys, roles, bound >>
  /\ Creates

\* The foreign keys of a binding, and the unique index, which counts revoked rows.
MayBind(b) ==
  /\ b[1] \in principals /\ b[2] \in roles /\ b[3] \in tenants
  /\ b \notin bound

Bind(b) ==
  /\ MayBind(b)
  /\ bound' = bound \union {b}
  /\ UNCHANGED << tenants, keys, roles, principals >>
  /\ Creates

\* revoke looks at nothing but the id.
Revoke(b) ==
  /\ b \in bound
  /\ revoked' = revoked \union {b}
  /\ UNCHANGED << tenants, keys, roles, principals, bound, expired >>
  /\ Commits

Expire(b) ==
  /\ b \in bound \ expired
  /\ expired' = expired \union {b}
  /\ UNCHANGED << tenants, keys, roles, principals, bound, revoked >>
  /\ Commits

-----------------------------------------------------------------------------
(* Deletions and revokeAllBindings, statement by statement *)

Turns(c, h) == call' = [call EXCEPT ![c] = h]

Begin(c, op, x) ==
  /\ call[c].stage \in Ended
  /\ calls < MaxCalls
  /\ calls' = calls + 1
  /\ Turns(c, [op |-> op, on |-> x, found |-> {}, took |-> {},
               stage |-> IF op = "seed" THEN "ensure" ELSE "get"])
  /\ UNCHANGED << rowVars, txns >>
  /\ Observe

Moves(c, h) == Turns(c, h) /\ UNCHANGED << rowVars, calls, txns >> /\ Observe

\* The first statement: the row, and for a user the principal.
Get(c) ==
  LET x == call[c].on
  IN  /\ call[c].stage = "get"
      /\ Moves(c,
           [call[c] EXCEPT
              !.stage = CASE call[c].op = "tenant" -> IF x \in tenants THEN "children" ELSE "gone"
                          [] call[c].op = "user" /\ x \in deleted -> "gone"
                          [] OTHER -> "principal",
              !.found = IF call[c].op = "tenant" /\ x = Master THEN {"master"} ELSE {}])

\* Mutation: the count is left to revokeAllBindings, which has run before.
FindPrincipal_NoCount(c) ==
  /\ call[c].stage = "principal"
  /\ Moves(c, [call[c] EXCEPT
                 !.stage = IF call[c].op = "user" THEN "write"
                           ELSE IF call[c].on \in principals THEN "bindings" ELSE "done"])

\* findByUserId: who has no principal has no bindings to count.
FindPrincipal(c) ==
  /\ call[c].stage = "principal"
  /\ Moves(c, [call[c] EXCEPT
                 !.stage = IF call[c].on \in principals THEN "bindings"
                           ELSE IF call[c].op = "user" THEN "write" ELSE "done"])

\* Mutation: revoked keys are not counted as they hold no grant; none is found here.
Counted_NoKeys(k, x) == k # "keys" /\ Stands(k, x)

\* countChildren, countApiKeys, countActiveBindings and countActiveForPrincipal.
Counted(k, x) == Stands(k, x)

Count(c) ==
  LET k     == call[c].stage
      found == call[c].found \union { j \in {k} : Counted(j, call[c].on) }
  IN  /\ k \in {"children", "keys", "bindings"}
      /\ call[c].op # "revokeAll"
      /\ Moves(c, [call[c] EXCEPT
                     !.found = found,
                     !.stage = CASE k = "children" -> "keys"
                                 [] k = "keys"     -> "bindings"
                                 [] OTHER -> IF found = {} THEN "write" ELSE "refused"])

\* Mutation: the cap is compared the wrong way round, by one.
CountToRevoke_OffByOne(c) ==
  LET n == Cardinality(ActiveOf(call[c].on))
  IN  /\ call[c].op = "revokeAll" /\ call[c].stage = "bindings"
      /\ Moves(c, [call[c] EXCEPT !.stage = CASE n > Cap + 1 -> "refused"
                                              [] n = 0       -> "done"
                                              [] OTHER       -> "write"])

\* The count of revokeAllBindings: too many are refused, none is nothing to do.
CountToRevoke(c) ==
  LET n == Cardinality(ActiveOf(call[c].on))
  IN  /\ call[c].op = "revokeAll" /\ call[c].stage = "bindings"
      /\ Moves(c, [call[c] EXCEPT !.stage = CASE n > Cap -> "refused"
                                              [] n = 0   -> "done"
                                              [] OTHER   -> "write"])

\* revokeAllForPrincipal: whatever is active now.
RevokeAll(c) ==
  /\ call[c].op = "revokeAll" /\ call[c].stage = "write"
  /\ revoked' = revoked \union ActiveOf(call[c].on)
  /\ Turns(c, [call[c] EXCEPT !.stage = "done", !.took = ActiveOf(call[c].on)])
  /\ UNCHANGED << tenants, dropped, keys, roles, principals, deleted, bound, expired, calls, txns >>
  /\ Observe

\* softDelete, unless somebody else was faster.
DeleteUser(c) ==
  LET u == call[c].on
  IN  /\ call[c].op = "user" /\ call[c].stage = "write"
      /\ deleted' = deleted \union {u}
      /\ Turns(c, IF u \in deleted THEN [call[c] EXCEPT !.stage = "gone"]
                  ELSE [call[c] EXCEPT !.stage = "done", !.took = ActiveOf(u)])
      /\ UNCHANGED << tenants, dropped, keys, roles, principals, bound, revoked, expired, calls, txns >>
      /\ Observe

\* Mutation: role_id as a plain column, without its foreign key.
Restricted_NotByRoles(t) ==
  { k \in {"children", "keys"} : Stands(k, t) }

\* What the foreign keys onto the tenant, or onto a row its cascade removes, restrict.
Restricted(t) ==
  { k \in {"children", "keys", "roles"} : Stands(k, t) }

\* The DELETE: a row may restrict it, or it takes what refers to the tenant with it.
DeleteTenant(c) ==
  LET t    == call[c].on
      with == { b \in bound : b[3] = t }
  IN  /\ call[c].op = "tenant" /\ call[c].stage = "write"
      /\ UNCHANGED << keys, principals, deleted, calls, txns >>
      /\ \/ /\ t \notin tenants
            /\ Turns(c, [call[c] EXCEPT !.stage = "gone"])
            /\ UNCHANGED << tenants, dropped, roles, bound, revoked, expired >>
         \/ /\ t \in tenants /\ Restricted(t) # {}
            /\ Turns(c, [call[c] EXCEPT !.stage = "failed", !.found = Restricted(t)])
            /\ UNCHANGED << tenants, dropped, roles, bound, revoked, expired >>
         \/ /\ t \in tenants /\ Restricted(t) = {}
            /\ Turns(c, [call[c] EXCEPT !.stage = "done", !.took = with \intersect Active])
            /\ tenants' = tenants \ {t}
            /\ dropped' = dropped \union {t}
            /\ roles' = { r \in roles : RoleTenant[r] # t }
            /\ bound' = bound \ with
            /\ revoked' = revoked \ with
            /\ expired' = expired \ with
      /\ Observe

-----------------------------------------------------------------------------
(* bootstrapAdmin of the seed script: each statement commits by itself *)

\* upsertByEmailId returns the user's row, a deleted one too; then ensureForUser.
SeedEnsure(c) ==
  /\ call[c].stage = "ensure"
  /\ principals' = principals \union {call[c].on}
  /\ Turns(c, [call[c] EXCEPT !.stage = "look"])
  /\ UNCHANGED << tenants, dropped, keys, roles, deleted, bound, revoked, expired, calls, txns >>
  /\ Observe

\* Mutation: any row will do, as it will for the unique index.
AdminFound_EvenRevoked(u) == AdminBinding(u) \in bound

\* A row that is not revoked will do; whether it has expired is not asked.
AdminFound(u) == AdminBinding(u) \in bound \ revoked

SeedLook(c) ==
  /\ call[c].stage = "look"
  /\ Moves(c, [call[c] EXCEPT !.stage = IF AdminFound(call[c].on) THEN "done" ELSE "bind"])

SeedBind(c) ==
  LET b == AdminBinding(call[c].on)
  IN  /\ call[c].stage = "bind"
      /\ bound' = bound \union {b}
      /\ Turns(c, [call[c] EXCEPT !.stage = IF MayBind(b) THEN "done" ELSE "failed"])
      /\ UNCHANGED << tenants, dropped, keys, roles, principals, deleted, revoked, expired, calls, txns >>
      /\ Observe

-----------------------------------------------------------------------------
Others ==
  \/ \E t \in Tenants \ {Master} : CreateTenant(t)
  \/ \E k \in Keys : CreateKey(k)
  \/ \E r \in Roles : CreateRole(r)
  \/ \E u \in Users : FirstLogin(u)
  \/ \E b \in Bindings : Bind(b) \/ Revoke(b) \/ Expire(b)

CallStep(c) ==
  \/ \E t \in Tenants : Begin(c, "tenant", t)
  \/ \E u \in Users, op \in {"user", "revokeAll", "seed"} : Begin(c, op, u)
  \/ Get(c)
  \/ FindPrincipal(c)
  \/ Count(c)
  \/ CountToRevoke(c)
  \/ RevokeAll(c)
  \/ DeleteUser(c)
  \/ DeleteTenant(c)
  \/ SeedEnsure(c)
  \/ SeedLook(c)
  \/ SeedBind(c)

Next == Others \/ \E c \in Callers : CallStep(c)

Spec == Init /\ [][Next]_vars

-----------------------------------------------------------------------------
Stages == Ended \union {"get", "principal", "children", "keys", "bindings", "write",
                        "ensure", "look", "bind"}

\* Every binding there may be: those of Bindings and the seed's.
Grants == (Users \union Keys) \X Roles \X Tenants

\* The rows refer to rows that exist (the foreign keys of db/schema.ts), whichever
\* creators and deletions of theirs overlap.
TypeOK ==
  /\ tenants \subseteq Tenants /\ Master \in tenants
  /\ \A t \in tenants \ {Master} : Parent[t] \in tenants
  /\ keys \subseteq Keys /\ \A k \in keys : KeyTenant[k] \in tenants
  /\ roles \subseteq Roles /\ \A r \in roles : RoleTenant[r] \in tenants
  /\ principals \subseteq Users \union keys
  /\ deleted \subseteq Users
  /\ bound \subseteq principals \X roles \X tenants
  /\ revoked \union expired \subseteq bound
  /\ call \in [Callers -> [op : {"none", "tenant", "user", "revokeAll", "seed"},
                           on : Tenants \union Users, stage : Stages,
                           found : SUBSET Kinds, took : SUBSET Grants]]
  /\ seen \in [Callers -> [ever : SUBSET Kinds, always : SUBSET Kinds,
                           late : SUBSET Grants, admin : BOOLEAN]]
  /\ calls \in 0..MaxCalls /\ txns \in 0..MaxTxns

\* Draining before deleting: an active binding that goes down with its tenant, or is
\* left to a deleted user, was granted after the call had counted (deleteTenant,
\* deleteUser, and the login that gives a user a principal in between).
DrainedButForLateGrants ==
  \A c \in Callers :
    call[c].op \in {"tenant", "user"} /\ call[c].stage = "done" => call[c].took \subseteq seen[c].late

\* The cap of revokeAllBindings bounds its transaction, but for what is granted between
\* its count and its UPDATE.
RevokesWithinCap ==
  \A c \in Callers :
    call[c].op = "revokeAll" => Cardinality(call[c].took \ seen[c].late) <= Cap

\* A 409 names blockers there were, and leaves none out that stood all the time; a
\* deletion is not let through against one that did; and one that fails in the
\* database met a row that came late or a role in use at another tenant.
BlockersToldTruly ==
  \A c \in Callers :
    call[c].op \in {"tenant", "user"} =>
      /\ call[c].stage = "refused" =>
           /\ call[c].found # {} /\ call[c].found \subseteq seen[c].ever
           /\ seen[c].always \subseteq call[c].found \union {"roles"}
      /\ call[c].stage = "done" => seen[c].always = {}
      /\ call[c].stage = "failed" =>
           /\ call[c].found \subseteq seen[c].ever
           /\ seen[c].always \subseteq {"roles"} \intersect call[c].found

\* A seed that reports success leaves or has met the admin's binding unrevoked, and it
\* fails on the binding's row only: a seed before it, or one that was revoked since.
SeedsEndTruly ==
  \A c \in Callers :
    call[c].op = "seed" =>
      /\ call[c].stage = "done" => seen[c].admin
      /\ call[c].stage = "failed" => AdminBinding(call[c].on) \in bound
=============================================================================
