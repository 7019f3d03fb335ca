-------------------------------- MODULE Api --------------------------------
(***************************************************************************)
(* The HTTP server: what a request meets on its way, and how the process   *)
(* ends.  A request is validated, authenticated by API key or token, and   *)
(* authorized, either before the handler at a tenant that the request      *)
(* names, or inside the handler at the tenant of the row it has loaded;    *)
(* then one service call acts, in a transaction of its own.  Each of these *)
(* awaits is a step, and other requests, the worker's grants, revoked keys *)
(* and deleted tenants fall between; any of them may also fail or hang.    *)
(*                                                                         *)
(* A signal stops the server: it closes (no new requests, those in flight  *)
(* finish), ends the database pool and exits, all under a watchdog.        *)
(***************************************************************************)
EXTENDS Naturals, Sequences, FiniteSets

CONSTANTS
  Tenants, Master,  \* tenants that exist at first
  Rows, RowTenant,  \* rows that routes address by id, and the tenant of each; the
                    \* rows of platform tables (users, events, audit) are Master's
  Requests,         \* concurrent requests
  MaxArrivals,      \* bound: requests in a behaviour
  MaxChanges        \* bound: changes made by others, errors and hung connections

ASSUME ApiAssumption ==
  /\ Master \in Tenants
  /\ RowTenant \in [Rows -> Tenants]
  /\ MaxArrivals \in Nat /\ MaxChanges \in Nat

-----------------------------------------------------------------------------
(* The routes, a set for each file: the scope a route asks for, where (at a    *)
(* tenant "given" in the request, at the "master" tenant, at the tenant of the *)
(* "row" it loads, at the tenant of each check that bears a "subject") and     *)
(* what its service call does.                                                 *)

Route(op, scope, at, does) == [op |-> op, scope |-> scope, at |-> at, does |-> does]

TenantsRoutes ==
  { Route("create", "tenants:write", "given", "insert"),
    Route("get", "tenants:read", "given", "get"),
    Route("children", "tenants:read", "given", "get"),
    Route("update", "tenants:write", "given", "update"),
    Route("delete", "tenants:write", "given", "drop") }

RolesRoutes ==
  { Route("create", "roles:write", "given", "insert"),
    Route("page", "roles:read", "given", "list"),
    Route("get", "roles:read", "row", "loaded"),
    Route("addScopes", "roles:write", "row", "update"),
    Route("removeScope", "roles:write", "row", "update"),
    Route("update", "roles:write", "row", "update") }

ScopesRoutes ==
  { Route("create", "scopes:write", "given", "insert"),
    Route("page", "scopes:read", "given", "list"),
    Route("get", "scopes:read", "row", "loaded"),
    Route("update", "scopes:write", "row", "update") }

RoleBindingsRoutes ==
  { Route("create", "bindings:manage", "given", "insert"),
    Route("page", "bindings:manage", "given", "list"),
    Route("revoke", "bindings:manage", "row", "update") }

ApiKeysRoutes ==
  { Route("create", "api_keys:manage", "given", "insert"),
    Route("page", "api_keys:manage", "given", "list"),
    Route("revoke", "api_keys:manage", "row", "update") }

UsersRoutes ==
  { Route("get", "users:read", "master", "get"),
    Route("disable", "users:write", "master", "update"),
    Route("enable", "users:write", "master", "update"),
    Route("revokeAllBindings", "users:write", "master", "update"),
    Route("delete", "users:write", "master", "update") }

AdminOutboxRoutes ==
  { Route("pageDead", "outbox:read", "master", "list"),
    Route("getDead", "outbox:read", "master", "get"),
    Route("revive", "outbox:write", "master", "update"),
    Route("bulkRevive", "outbox:write", "master", "bulk"),
    Route("purge", "outbox:write", "master", "purge"),
    Route("bulkPurge", "outbox:write", "master", "bulk") }

AdminAuditRoutes ==
  { Route("page", "audit:read", "master", "list"),
    Route("get", "audit:read", "master", "get") }

CheckRoutes ==
  { Route("check", "permissions:check", "subject", "list"),
    Route("checkBatch", "permissions:check", "subject", "list") }

MeRoutes ==
  { Route("me", "none", "self", "list"),
    Route("mePermissions", "none", "self", "list") }

Files == { TenantsRoutes, RolesRoutes, ScopesRoutes, RoleBindingsRoutes, ApiKeysRoutes,
           UsersRoutes, AdminOutboxRoutes, AdminAuditRoutes, CheckRoutes, MeRoutes }

Scopes == { r.scope : r \in UNION Files }

-----------------------------------------------------------------------------
VARIABLES
  file,     \* the routes that this behaviour is about
  tenants,  \* tenants that exist
  rows,     \* rows that exist
  held,     \* <<principal, tenant, scope>>: what checks find in the store
  keyLive,  \* the API key is neither revoked nor expired
  request,  \* what each request is doing
  seen,     \* history: what was true while the request ran
  server,   \* the process
  arrivals, changes  \* bounds

worldVars == << tenants, rows, held, keyLive >>
vars == << file, worldVars, request, seen, server, arrivals, changes >>

Principals == {"key", "user"}

NoRoute == Route("none", "none", "self", "list")

\* todo: tenants at which the scope is yet to be asserted; needs: those at which it
\* ought to be held; acted: the service call has committed a change.
Idle == [route |-> NoRoute, on |-> Master, cred |-> "none", stage |-> "idle", needs |-> {},
         who |-> "nobody", todo |-> << >>, acted |-> FALSE, code |-> 0]

InFlight == { q \in Requests : request[q].stage \notin {"idle", "cut"} }

Init ==
  /\ file \in Files
  /\ tenants = Tenants /\ rows = Rows
  /\ held \in { {}, Principals \X Tenants \X { r.scope : r \in file } }
  /\ keyLive = TRUE
  /\ request = [q \in Requests |-> Idle]
  /\ seen = [q \in Requests |-> [held |-> {}, live |-> FALSE]]
  /\ server = "up"
  /\ arrivals = 0 /\ changes = 0

\* Who a request speaks for: an API key wins over a token.
Speaks(h) == IF h.cred \in {"key", "both"} THEN "key" ELSE "user"

\* Every step is watched by the requests in flight.
Watch(q) ==
  LET h   == request'[q]
      now == [held |-> { t \in h.needs : << Speaks(h), t, h.route.scope >> \in held' },
              live |-> Speaks(h) = "user" \/ keyLive']
  IN  IF q \in InFlight' THEN
        IF q \in InFlight THEN [held |-> seen[q].held \union now.held,
                                live |-> seen[q].live \/ now.live]
        ELSE now
      ELSE seen[q]

Observe == seen' = [q \in Requests |-> Watch(q)]

-----------------------------------------------------------------------------
(* A request, await by await *)

Turns(q, h) ==
  /\ request' = [request EXCEPT ![q] = h]
  /\ UNCHANGED << file, server, arrivals >>
  /\ Observe

\* A step that reads, and moves the request on.
Moves(q, h) == UNCHANGED << worldVars, changes >> /\ Turns(q, h)

Answered(q, code) ==
  [request[q] EXCEPT !.stage = "idle", !.code = code, !.todo = << >>,
                     !.who = "nobody", !.cred = "none"]

At(q, stage) == q \in Requests /\ request[q].stage = stage

\* What a request may be about.
Targets(r) ==
  CASE r.at = "given"  -> Tenants
    [] r.at = "row"    -> Rows
    [] r.at = "master" -> { x \in Rows : RowTenant[x] = Master }
    [] OTHER           -> {Master}

\* Where the route asks for its scope as soon as the request is authenticated; checks
\* that bear no subject ask for nothing.
Todos(r, x) ==
  CASE r.at = "given"       -> { <<x>> }
    [] r.at = "master"      -> { << Master >> }
    [] r.op = "check"       -> { << >> } \union { <<t>> : t \in Tenants }
    [] r.op = "checkBatch"  -> Tenants \X Tenants
    [] OTHER                -> { << >> }

\* The listener takes requests until the server closes.
Arrive(q, r, x, cred, todo) ==
  /\ server = "up"
  /\ q \notin InFlight
  /\ arrivals < MaxArrivals
  /\ arrivals' = arrivals + 1
  /\ request' = [request EXCEPT ![q] =
                   [Idle EXCEPT !.route = r, !.on = x, !.cred = cred, !.stage = "validate",
                                !.todo = todo,
                                !.needs = IF r.at = "row" THEN {RowTenant[x]}
                                          ELSE { todo[i] : i \in DOMAIN todo }]]
  /\ UNCHANGED << file, worldVars, server, changes >>
  /\ Observe

\* The schema is looked at first; what it refuses reaches no handler.
Validate(q) ==
  /\ At(q, "validate")
  /\ \/ Moves(q, Answered(q, 400))
     \/ Moves(q, [request[q] EXCEPT !.stage = "auth"])

Accepted(q, who) ==
  [request[q] EXCEPT !.who = who,
                     !.stage = IF request[q].route.at = "row" THEN "load" ELSE "assert"]

\* Mutation: a key that is refused is made up for by the token.
RequireAuth_Fallback(q) ==
  /\ At(q, "auth")
  /\ CASE request[q].cred \in {"key", "both"} /\ keyLive -> Moves(q, Accepted(q, "key"))
       [] request[q].cred = "token" \/ (request[q].cred = "both" /\ ~keyLive) ->
            Moves(q, Accepted(q, "user")) \/ Moves(q, Answered(q, 401))
       [] OTHER -> Moves(q, Answered(q, 401))

\* requireAuth: with an API key the token does not count, and a key that is revoked or
\* expired is not made up for.  Whether a token is good is module Accounts' subject.
RequireAuth(q) ==
  /\ At(q, "auth")
  /\ CASE request[q].cred \in {"key", "both"} ->
            Moves(q, IF keyLive THEN Accepted(q, "key") ELSE Answered(q, 401))
       [] request[q].cred = "token" ->
            Moves(q, Accepted(q, "user")) \/ Moves(q, Answered(q, 401))
       [] OTHER -> Moves(q, Answered(q, 401))

\* Handlers that are given an id load the row to learn its tenant.
Load(q) ==
  LET x == request[q].on
  IN  /\ At(q, "load")
      /\ Moves(q, IF x \in rows THEN [request[q] EXCEPT !.stage = "assert", !.todo = << RowTenant[x] >>]
                  ELSE Answered(q, 404))

\* assertScope, for each tenant in turn; the first refusal ends the request.  The names
\* of a tenant that is gone mean nothing, whatever the store still holds for it.
AssertScope(q) ==
  LET h == request[q]
  IN  /\ At(q, "assert")
      /\ Moves(q, IF h.todo = << >> THEN [h EXCEPT !.stage = "act"]
                  ELSE IF Head(h.todo) \in tenants
                          /\ << h.who, Head(h.todo), h.route.scope >> \in held
                       THEN [h EXCEPT !.todo = Tail(@)]
                  ELSE Answered(q, 403))

Exists(h) == h.on \in IF h.route.at = "given" THEN tenants ELSE rows

Reads(h) == h.route.does \in {"list", "get", "loaded"}

\* The service call of a route that only reads.
Read(q) ==
  /\ At(q, "act") /\ Reads(request[q])
  /\ Moves(q, Answered(q, IF request[q].route.does = "get" /\ ~Exists(request[q]) THEN 404 ELSE 200))

\* Mutation: answers before the transaction has committed.
Done_Early(q) == [request[q] EXCEPT !.stage = "reply"]

\* A change has committed; addScopes then reads the role again for its answer.
Done(q) ==
  [request[q] EXCEPT !.acted = TRUE,
                     !.stage = IF request[q].route.op = "addScopes" THEN "readBack" ELSE "reply"]

\* How the services and the database refuse a change: a selector too large, a name
\* taken or a deletion blocked, a foreign key or index that no service looks after.
RefusalCodes == {400, 409, 500}

\* The service call of a route that writes.  The row may be gone, or the tenant that an
\* insert names.
Act(q) ==
  LET h == request[q]
  IN  /\ At(q, "act") /\ ~Reads(h)
      /\ \/ ~Exists(h) /\ h.route.does # "bulk"
              /\ Moves(q, Answered(q, IF h.route.does = "insert" THEN 500 ELSE 404))
         \/ \E code \in RefusalCodes : Moves(q, Answered(q, code))
         \/ /\ Exists(h) \/ h.route.does = "bulk"
            /\ tenants' = IF h.route.does = "drop" THEN tenants \ ({h.on} \ {Master}) ELSE tenants
            /\ rows' = CASE h.route.does = "purge" -> rows \ {h.on}
                         [] OTHER -> { x \in rows : RowTenant[x] \in tenants' }
            /\ h.route.does = "drop" => h.on # Master
            /\ UNCHANGED << held, keyLive, changes >>
            /\ Turns(q, Done(q))

\* getWithScopes at the end of addScopes, in no transaction with it.
ReadBack(q) ==
  /\ At(q, "readBack")
  /\ Moves(q, IF request[q].on \in rows THEN [request[q] EXCEPT !.stage = "reply"]
              ELSE Answered(q, 404))

Reply(q) ==
  /\ At(q, "reply")
  /\ Moves(q, Answered(q, 200))

\* A query, the store or a commit throws: 500, and a commit may have happened.
Fails(q) ==
  /\ q \in InFlight /\ request[q].stage # "validate"
  /\ changes < MaxChanges
  /\ changes' = changes + 1
  /\ UNCHANGED worldVars
  /\ \/ Turns(q, Answered(q, 500))
     \/ /\ At(q, "act") /\ request[q].route.does \in {"insert", "update", "bulk"}
        /\ Turns(q, [Answered(q, 500) EXCEPT !.acted = TRUE])

RequestStep(q) ==
  \/ \E r \in file, cred \in {"none", "key", "token", "both"} :
       \E x \in Targets(r) : \E todo \in Todos(r, x) : Arrive(q, r, x, cred, todo)
  \/ Validate(q)
  \/ RequireAuth(q)
  \/ Load(q)
  \/ AssertScope(q)
  \/ Read(q)
  \/ Act(q)
  \/ ReadBack(q)
  \/ Reply(q)
  \/ Fails(q)

-----------------------------------------------------------------------------
(* Others: the worker, and the requests of other files *)

Changes ==
  /\ changes < MaxChanges
  /\ changes' = changes + 1
  /\ UNCHANGED << file, request, server, arrivals >>
  /\ Observe

Grant(g) == held' = held \union {g} /\ UNCHANGED << tenants, rows, keyLive >> /\ Changes

Ungrant(g) ==
  g \in held /\ held' = held \ {g} /\ UNCHANGED << tenants, rows, keyLive >> /\ Changes

KeyEnds == keyLive /\ keyLive' = FALSE /\ UNCHANGED << tenants, rows, held >> /\ Changes

\* Mutation: rows stay behind.
TenantGoes_NoCascade(t) ==
  /\ t \in tenants \ {Master}
  /\ tenants' = tenants \ {t}
  /\ UNCHANGED << rows, held, keyLive >>
  /\ Changes

TenantGoes(t) ==
  /\ t \in tenants \ {Master}
  /\ tenants' = tenants \ {t}
  /\ rows' = { x \in rows : RowTenant[x] # t }
  /\ UNCHANGED << held, keyLive >>
  /\ Changes

\* Events may be purged; users and audit entries stay, and so does what tenants own.
RowGoes(x) ==
  /\ x \in rows /\ RowTenant[x] = Master /\ file = AdminOutboxRoutes
  /\ rows' = rows \ {x}
  /\ UNCHANGED << tenants, held, keyLive >>
  /\ Changes

World ==
  \/ \E g \in Principals \X Tenants \X { r.scope : r \in file } : Grant(g) \/ Ungrant(g)
  \/ KeyEnds
  \/ \E t \in Tenants : TenantGoes(t)
  \/ \E x \in Rows : RowGoes(x)

-----------------------------------------------------------------------------
(* The process *)

Server(state) ==
  /\ server' = state
  /\ UNCHANGED << file, worldVars, arrivals, changes >>
  /\ Observe

\* SIGINT or SIGTERM; later ones find shuttingDown set.
Signal == server = "up" /\ UNCHANGED request /\ Server("closing")

\* Mutation: requests that only have their answer left are not waited for.
Drained_Idle == \A q \in InFlight : request[q].stage = "reply"

\* What app.close waits for.
Drained == InFlight = {}

\* app.close has closed the listener; it resolves when the last request is answered.
Closed == server = "closing" /\ Drained /\ UNCHANGED request /\ Server("ending")

\* sql.end, then process.exit(0).
Exit == server = "ending" /\ UNCHANGED request /\ Server("exit0")

Cut == request' = [q \in Requests |-> IF q \in InFlight THEN [request[q] EXCEPT !.stage = "cut"]
                                       ELSE request[q]]

\* Mutation: the timer is cleared when the listener has closed.
Watchdog_Cleared == server = "closing" /\ Cut /\ Server("exit1")

\* What is left of the time that the orchestrator grants ends, or closing throws.
Watchdog == server \in {"closing", "ending"} /\ Cut /\ Server("exit1")

Process == Signal \/ Closed \/ Exit \/ Watchdog

Next == (\E q \in Requests : RequestStep(q)) \/ World \/ Process

\* A request or the pool may hang for ever; the watchdog's timer fires.
Spec == Init /\ [][Next]_vars /\ WF_vars(Watchdog)

-----------------------------------------------------------------------------
(* Properties *)

Codes == {0, 200, 400, 401, 403, 404, 409, 500}

Stages == {"idle", "cut", "validate", "auth", "load", "assert", "act", "readBack", "reply"}

\* What the requests and the tables can be.
TypeOK ==
  /\ file \in Files
  /\ Master \in tenants /\ tenants \subseteq Tenants
  /\ rows \subseteq { x \in Rows : RowTenant[x] \in tenants }
  /\ held \subseteq Principals \X Tenants \X Scopes
  /\ \A q \in Requests :
       /\ request[q].stage \in Stages /\ request[q].code \in Codes
       /\ request[q].who \in Principals \union {"nobody"}
       /\ request[q].stage \in {"load", "assert", "act", "readBack", "reply"} =>
            request[q].who = Speaks(request[q])
  /\ server \in {"up", "closing", "ending", "exit0", "exit1"}

\* Whoever gets a positive answer or changes anything spoke through a live key or a
\* good token, the key's word counting before the token's, and held the route's scope
\* at every tenant concerned at some moment of the request, though the checks, the
\* loading of the row and the change are awaits of their own.
ActsWhereAllowed ==
  \A q \in Requests :
    request[q].acted \/ request[q].code = 200 =>
      seen[q].live /\ request[q].needs \subseteq seen[q].held

\* A 4xx tells that nothing was changed and the 200 of a route that writes that it was,
\* but for addScopes: its answer reads the role again, and may miss it.
AnswersTellTruly ==
  \A q \in Requests :
    LET h == request[q]
    IN  /\ h.code = 200 /\ ~Reads(h) => h.acted
        /\ h.code \in {400, 401, 403, 404, 409} /\ h.acted =>
             h.route.op = "addScopes" /\ h.code = 404 /\ h.on \notin rows

\* An exit with 0 has cut nobody off: each request that was let in got its answer.
CleanExit ==
  server = "exit0" => \A q \in Requests : request[q].stage = "idle"

\* A process that is told to stop ends, whatever hangs (withShutdownTimeout).
SignalledEnds == (server = "closing") ~> (server \in {"exit0", "exit1"})
=============================================================================
