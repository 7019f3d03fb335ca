------------------------------ MODULE Accounts ------------------------------
(***************************************************************************)
(* User accounts: rows of `users`, created by the identity provider's hook *)
(* or by a first login, found again by identity (the token's sub) or by    *)
(* e-mail address, and disabled, enabled or soft-deleted by administrators.*)
(*                                                                         *)
(* authenticateJwt runs outside any transaction: each query it awaits is a *)
(* step of its own, and other requests fall between.  The calls of the     *)
(* users service are transactions at READ COMMITTED: a read, then a        *)
(* conditional update that commits with its audit entry.                   *)
(***************************************************************************)
EXTENDS Naturals, Sequences

CONSTANTS
  Ids,        \* ids that newId() may hand to users
  Emails,     \* addresses, up to emailId(): case and white space do not count
  Subs,       \* identities at the provider
  None,       \* NULL
  Tokens,     \* valid tokens, <<sub, email>>, the latter None if not claimed
  Clients,    \* concurrent requests bearing a token
  Admins,     \* concurrent requests to the users service
  MaxLogins,  \* bound: token-bearing requests in a behaviour
  MaxCalls    \* bound: calls to the users service in a behaviour

\* An identity may change its address while older tokens still claim the old one,
\* and the address may go to another identity.
ASSUME AccountsAssumption ==
  /\ None \notin Ids \union Emails \union Subs
  /\ Tokens \subseteq Subs \X (Emails \union {None})
  /\ MaxLogins \in Nat
  /\ MaxCalls \in Nat

VARIABLES
  users,      \* rows that exist; none is ever removed
  email,      \* column email_id
  sub,        \* column supabase_user_id
  disabled,   \* rows with disabled_at set
  deleted,    \* rows with deleted_at set
  principals, \* rows that have a principal
  audit,      \* per user, the actions the users service has logged
  login,      \* what each client's request is doing
  admin,      \* what each call to the users service is doing
  wasLive,    \* history: users that were live at some moment of the request
  overwritten, \* history: identities that another replaced, <<user, sub>>
  logins, calls  \* bounds

rowVars == << users, email, sub, disabled, deleted, principals, audit >>
vars    == << rowVars, login, admin, wasLive, overwritten, logins, calls >>

Live == users \ (disabled \union deleted)

RowOf(e) == { u \in users : email[u] = e }

Fresh == [stage |-> "free", token |-> << None, None >>, user |-> None, email |-> None]

NoCall == [op |-> "none", user |-> None]

Init ==
  /\ users = {} /\ disabled = {} /\ deleted = {} /\ principals = {}
  /\ email = [u \in Ids |-> None]
  /\ sub = [u \in Ids |-> None]
  /\ audit = [u \in Ids |-> << >>]
  /\ login = [c \in Clients |-> Fresh]
  /\ admin = [a \in Admins |-> NoCall]
  /\ wasLive = [c \in Clients |-> {}]
  /\ overwritten = {}
  /\ logins = 0 /\ calls = 0

\* The histories watch every step: who is live while a request is in progress, and
\* which rows change identity.
Observe ==
  /\ wasLive' = [c \in Clients |->
                   IF login'[c].stage \in {"free", "refused", "in"} THEN wasLive[c]
                   ELSE IF login'[c].stage = "bySub" /\ login[c].stage # "bySub" THEN Live'
                   ELSE wasLive[c] \union Live']
  /\ overwritten' = overwritten \union
       { << u, sub[u] >> : u \in { v \in users : sub[v] # None /\ sub'[v] \notin {None, sub[v]} } }

\* upsertByEmailId: the row of the address, inserted if there is none.  The unique
\* index counts soft-deleted rows.
Upsert(e, u) ==
  \/ u \in RowOf(e) /\ UNCHANGED << users, email >>
  \/ /\ RowOf(e) = {}
     /\ u \in Ids \ users
     /\ users' = users \union {u}
     /\ email' = [email EXCEPT ![u] = e]

-----------------------------------------------------------------------------
(* The provider's hook: one transaction *)

\* provisionFromAuthHook.  It sets no identity; the first login does.
Provision(e) ==
  /\ \E u \in Ids : Upsert(e, u) /\ principals' = principals \union {u}
  /\ UNCHANGED << sub, disabled, deleted, audit, login, admin, logins, calls >>
  /\ Observe

-----------------------------------------------------------------------------
(* authenticateJwt, query by query *)

Becomes(c, h) ==
  /\ login' = [login EXCEPT ![c] = h]
  /\ UNCHANGED << disabled, deleted, audit, admin, calls >>

Begin(c, t) ==
  /\ login[c].stage \in {"free", "in", "refused"}
  /\ logins < MaxLogins
  /\ logins' = logins + 1
  /\ Becomes(c, [Fresh EXCEPT !.stage = "bySub", !.token = t])
  /\ UNCHANGED << users, email, sub, principals >>
  /\ Observe

Refused(c) == [login[c] EXCEPT !.stage = "refused", !.user = None]

\* The check of disabledAt follows the query that returned the row.
Resolved(c, u) ==
  IF u \in disabled THEN Refused(c)
  ELSE [login[c] EXCEPT !.stage = "principal", !.user = u, !.email = email[u]]

\* findBySupabaseId; without a hit the e-mail claim decides.
FindBySub(c) ==
  LET t     == login[c].token
      found == { u \in users \ deleted : sub[u] = t[1] }
  IN  /\ login[c].stage = "bySub"
      /\ \/ \E u \in found : Becomes(c, Resolved(c, u))
         \/ /\ found = {}
            /\ Becomes(c, IF t[2] = None THEN Refused(c)
                                         ELSE [login[c] EXCEPT !.stage = "byEmail"])
      /\ UNCHANGED << users, email, sub, principals, logins >>
      /\ Observe

FindByEmail(c) ==
  LET found == RowOf(login[c].token[2]) \ deleted
  IN  /\ login[c].stage = "byEmail"
      /\ \/ \E u \in found : Becomes(c, [login[c] EXCEPT !.stage = "backfill", !.user = u])
         \/ found = {} /\ Becomes(c, [login[c] EXCEPT !.stage = "upsert"])
      /\ UNCHANGED << users, email, sub, principals, logins >>
      /\ Observe

\* Mutation: the row the upsert returned is not looked at.
UpsertRow_NoGate(c) ==
  /\ login[c].stage = "upsert"
  /\ \E u \in Ids :
       /\ Upsert(login[c].token[2], u)
       /\ Becomes(c, [login[c] EXCEPT !.stage = "backfill", !.user = u])
  /\ UNCHANGED << sub, principals, logins >>
  /\ Observe

\* upsertByEmailId, and the gate for a row that turns out to be soft-deleted.
UpsertRow(c) ==
  /\ login[c].stage = "upsert"
  /\ \E u \in Ids :
       /\ Upsert(login[c].token[2], u)
       /\ Becomes(c, IF u \in deleted THEN Refused(c)
                     ELSE [login[c] EXCEPT !.stage = "backfill", !.user = u])
  /\ UNCHANGED << sub, principals, logins >>
  /\ Observe

\* Mutation: no unique index on supabase_user_id.
Backfill_NoIndex(c) ==
  LET h == login[c]
  IN  /\ h.stage = "backfill"
      /\ sub' = [sub EXCEPT ![h.user] = h.token[1]]
      /\ Becomes(c, Resolved(c, h.user))
      /\ UNCHANGED << users, email, principals, logins >>
      /\ Observe

\* backfillSupabaseId, by id alone, whatever identity the row has; it throws, and
\* the request fails, when another row has the token's.
Backfill(c) ==
  LET h == login[c]
  IN  /\ h.stage = "backfill"
      /\ IF \E v \in users \ {h.user} : sub[v] = h.token[1]
           THEN Becomes(c, Refused(c)) /\ UNCHANGED sub
           ELSE /\ sub' = [sub EXCEPT ![h.user] = h.token[1]]
                /\ Becomes(c, Resolved(c, h.user))
      /\ UNCHANGED << users, email, principals, logins >>
      /\ Observe

\* ensureForUser.  The request goes on as this user unless its token claims an
\* address other than the one in the copy of the row.
EnsurePrincipal(c) ==
  LET h == login[c]
  IN  /\ h.stage = "principal"
      /\ principals' = principals \union {h.user}
      /\ Becomes(c, [h EXCEPT !.stage = IF h.token[2] \in {None, h.email} THEN "in"
                                                                         ELSE "reconcile"])
      /\ UNCHANGED << users, email, sub, logins >>
      /\ Observe

\* updateEmail, by id alone; when another row owns the address the old one stays.
Reconcile(c) ==
  LET h == login[c]
  IN  /\ h.stage = "reconcile"
      /\ email' = IF RowOf(h.token[2]) \subseteq {h.user}
                    THEN [email EXCEPT ![h.user] = h.token[2]] ELSE email
      /\ Becomes(c, [h EXCEPT !.stage = "in"])
      /\ UNCHANGED << users, sub, principals, logins >>
      /\ Observe

-----------------------------------------------------------------------------
(* The users service *)

\* The first read of disable, enable and delete: a missing or deleted row ends
\* the call.
Call(a, op, u) ==
  /\ admin[a] = NoCall
  /\ calls < MaxCalls
  /\ calls' = calls + 1
  /\ u \in users \ deleted
  /\ admin' = [admin EXCEPT ![a] = [op |-> op, user |-> u]]
  /\ UNCHANGED << rowVars, login, logins >>
  /\ Observe

Log(u, action) == audit' = [audit EXCEPT ![u] = Append(@, action)]

Return(a) ==
  /\ admin' = [admin EXCEPT ![a] = NoCall]
  /\ UNCHANGED << users, email, principals, login, logins, calls >>

\* Mutation: the update trusts the row read before.
Disable_Unguarded(a) ==
  LET u == admin[a].user
  IN  /\ admin[a].op = "disable"
      /\ Return(a)
      /\ disabled' = disabled \union {u}
      /\ Log(u, "disable")
      /\ UNCHANGED << sub, deleted >>
      /\ Observe

\* The guarded update; an account that was disabled or deleted meanwhile is left
\* as it is, and nothing is logged.
Disable(a) ==
  LET u == admin[a].user
  IN  /\ admin[a].op = "disable"
      /\ Return(a)
      /\ IF u \in Live THEN disabled' = disabled \union {u} /\ Log(u, "disable")
                       ELSE UNCHANGED << disabled, audit >>
      /\ UNCHANGED << sub, deleted >>
      /\ Observe

Enable(a) ==
  LET u == admin[a].user
  IN  /\ admin[a].op = "enable"
      /\ Return(a)
      /\ IF u \in disabled \ deleted THEN disabled' = disabled \ {u} /\ Log(u, "enable")
                                     ELSE UNCHANGED << disabled, audit >>
      /\ UNCHANGED << sub, deleted >>
      /\ Observe

\* softDelete, which gives the identity up.
Delete(a) ==
  LET u == admin[a].user
  IN  /\ admin[a].op = "delete"
      /\ Return(a)
      /\ IF u \notin deleted
           THEN /\ deleted' = deleted \union {u}
                /\ sub' = [sub EXCEPT ![u] = None]
                /\ Log(u, "delete")
           ELSE UNCHANGED << deleted, sub, audit >>
      /\ UNCHANGED disabled
      /\ Observe

\* Bindings are not modelled: the count of the drain rule may refuse any deletion
\* of a user that has a principal.
Blocked(a) ==
  /\ admin[a].op = "delete"
  /\ admin[a].user \in principals
  /\ Return(a)
  /\ UNCHANGED << sub, disabled, deleted, audit >>
  /\ Observe

-----------------------------------------------------------------------------
(* Specification *)

LoginStep(c) ==
  \/ \E t \in Tokens : Begin(c, t)
  \/ FindBySub(c) \/ FindByEmail(c) \/ UpsertRow(c) \/ Backfill(c)
  \/ EnsurePrincipal(c) \/ Reconcile(c)

AdminStep(a) ==
  \/ \E op \in {"disable", "enable", "delete"}, u \in Ids : Call(a, op, u)
  \/ Disable(a) \/ Enable(a) \/ Delete(a) \/ Blocked(a)

Next ==
  \/ \E e \in Emails : Provision(e)
  \/ \E c \in Clients : LoginStep(c)
  \/ \E a \in Admins : AdminStep(a)

Spec == Init /\ [][Next]_vars

-----------------------------------------------------------------------------
(* Properties *)

\* Every variable has its type; an address and an identity belong to one row, and
\* the principals are of users that exist.
TypeOK ==
  /\ users \subseteq Ids
  /\ disabled \subseteq users /\ deleted \subseteq users /\ principals \subseteq users
  /\ email \in [Ids -> Emails \union {None}]
  /\ sub \in [Ids -> Subs \union {None}]
  /\ \A u, v \in users : email[u] = email[v] \/ (sub[u] = sub[v] /\ sub[u] # None) => u = v
  /\ \A u \in Ids : audit[u] \in Seq({"disable", "enable", "delete"})
  /\ \A a \in Admins : admin[a] = NoCall \/ admin[a].user \in users
  /\ \A c \in Clients :
       /\ login[c].user \in users \union {None}
       /\ login[c].token \in Tokens \union {<< None, None >>}
       /\ wasLive[c] \subseteq users
  /\ overwritten \subseteq users \X Subs

Admitted(c) == login[c].stage \in {"principal", "reconcile", "in"}

\* A request acts as a user that was live, neither disabled nor deleted, at some
\* moment between its arrival and its admission, whatever administrators and
\* other requests did between its queries.
LoginsWereLive == \A c \in Clients : Admitted(c) => login[c].user \in wasLive[c]

\* Another identity claims an address of s.
Disputed(s) == \E e \in Emails, t \in Subs \ {s} : {<< s, e >>, << t, e >>} \subseteq Tokens

\* Two requests of one identity act as one user, also when both arrived before the
\* identity had any, with different addresses, and created a row each.  A second user
\* needs the deletion of the first, or an address that went to another identity: its
\* request found the first user by that address, and put its own identity there.
OneUserPerIdentity ==
  \A c, d \in Clients :
    LET s    == login[c].token[1]
        both == {login[c].user, login[d].user}
    IN  Admitted(c) /\ Admitted(d) /\ login[d].token[1] = s =>
          \/ login[c].user = login[d].user
          \/ deleted \intersect both # {}
          \/ Disputed(s) /\ overwritten \intersect (both \X {s}) # {}

\* The audit log tells what became of an account although concurrent calls all
\* read it before any of them changes it: disabling and enabling alternate, a
\* deletion comes last, and the last entries agree with the row.
AuditTellsState ==
  \A u \in users :
    LET log  == audit[u]
        kept == IF u \in deleted THEN Len(log) - 1 ELSE Len(log)
    IN  /\ u \in deleted => log # << >> /\ log[Len(log)] = "delete"
        /\ \A i \in 1..kept : log[i] = IF i % 2 = 1 THEN "disable" ELSE "enable"
        /\ u \in disabled <=> kept % 2 = 1
=============================================================================
