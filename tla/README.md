# miramira in TLA+

miramira is a multi-tenant authorization service: a REST API over PostgreSQL
keeps tenants, users, roles and role bindings; OpenFGA answers permission
checks. Every change of a grant is written to PostgreSQL together with a row of
a transactional outbox, and a worker process drains the outbox into OpenFGA.

This directory models the parts of it whose correctness depends on the order in
which things happen. Paths below are relative to the repository root; the
implementation is under `src/`.

## 1. The system: inventory

| component | code | state | operations |
|---|---|---|---|
| Outbox table | `src/repositories/outbox.ts`, `src/db/schema.ts` | `outbox_events`: `attempts`, `next_retry_at`, `processed_at`, `dead_at` | enqueue (in the caller's transaction), claimBatch, ackProcessed, recordFailure, markDead, revive, purge |
| Outbox worker | `src/workers/worker.ts`, `dispatcher.ts`, `index.ts` | the claimed batch and its copy of each row; an AbortSignal | run, runOnce, drain on SIGTERM |
| Backoff | `src/lib/backoff.ts` | none | nextDelayMs, shouldMarkDead |
| Dead-letter administration | `src/services/outbox-admin.ts` | `audit_log` | revive, purge, bulk forms by ids or filter |
| Tenant tree | `src/repositories/tenants.ts`, `src/services/tenants.ts` | `tenants` (`parent_id`, `inherit`) | create, rename, delete under the drain rule; recursive queries up and down |
| Roles and scopes | `src/services/roles.ts`, `scopes.ts` and repositories | `roles`, `scopes`, `role_scopes` | create, addScopes, removeScope, resolve a name through ancestors |
| Role bindings | `src/services/role-bindings.ts` and repository | `role_bindings` (`revoked_at`, `expires_at`) | create, revoke; expiry by the clock |
| Grant materializer | `src/services/grant-materializer.ts`, `src/openfga/` | tuples in the OpenFGA store | one handler per kind of event |
| Users, principals | `src/services/users.ts`, `user-provisioning.ts`, `src/repositories/users.ts`, `principals.ts` | `users` (placeholder, linked, disabled, soft-deleted), `principals` | invite, provision, disable, enable, revokeAllBindings, delete |
| Authentication | `src/services/authentication.ts`, `src/plugins/auth.ts` | none of its own | JWT (just-in-time provisioning, e-mail reconciliation), API key |
| Identity webhook | `src/routes/webhooks-supabase.ts`, `src/lib/standard-webhooks.ts` | none of its own | verify, then apply to `users` |
| API keys | `src/services/api-keys.ts` | `api_keys` | create, revoke |
| Permission checks | `src/services/permissions.ts`, `src/routes/check.ts`, `me.ts` | none | check, batch, list |
| Audit log | `src/services/audit.ts` and repository | `audit_log` | insert in the mutation's transaction; page |
| Pagination | `src/lib/pagination.ts` and the `page...` queries | a cursor, held by the client | page |
| HTTP surface | `src/app.ts`, `src/routes/`, `src/plugins/` | none | validate, authenticate, authorize, call a service, answer |
| Seeds | `src/db/seeds/` | system rows | seedSystemData, bootstrapAdmin |
| Process lifecycle | `src/server.ts`, `src/workers/index.ts`, `src/lib/shutdown.ts` | shutting down or not | drain with a watchdog |

How they interact. A service call is one PostgreSQL transaction
(READ COMMITTED) that changes business rows, inserts outbox rows and inserts
audit rows; all of it commits or none. Worker processes share nothing but the
database: each claims a batch with one autocommitted statement, then awaits the
dispatcher for each event, which runs the materializer, which re-reads the
database with separate queries and calls OpenFGA once per tuple. Permission
checks read OpenFGA only. Operators act on dead rows through the API.

What is hard about it:

* every `await` of a worker lets transactions, other workers and operators run;
* the claim's row locks are gone before the batch is worked off, and the
  updates that settle a row are by id alone;
* a crash, an aborted batch or a lost answer leaves attempts spent, or rows
  settled that the worker believes failed;
* events are handled out of order and more than once, against a database that
  has moved on; handlers fail between two tuples;
* a check and the delete that depends on it are two awaits;
* bindings expire without a transaction;
* services count or read in one statement and write in a later one, and at
  READ COMMITTED others commit in between;
* a request is authenticated, loads a row, asserts its scope and acts in four
  awaits, while keys, grants, rows and tenants go, and the server may be closing.

What makes each component correct is listed with the module that models it
(section 3). `PROJECT.json` lists every hazard with the line where it bites.

## 2. Modules

| module | models |
|---|---|
| `Backoff` | delay, jitter band and retirement of `backoff.ts`; the constants of `BackoffConfig` |
| `RetrySchedule` | one event failing every time, on the clock |
| `Outbox` | the outbox table, its workers, its faults and its operators (extends `Backoff`) |
| `Delivery` | the abstract contract that `Outbox` implements and `DeadLetters` keeps: submitted, delivered at least once, done, dead, revived, purged |
| `MCOutbox` | `Outbox` for TLC (symmetry) |
| `DeadLetters` | revive and purge statement by statement, by ids and by filter, with cap, snapshots, audit entries and a reader of the pages (extends `Pagination`) |
| `Pagination` | pages by cursor, as operators: a page is the set of the ids it returns |
| `OutboxProofs`, `RetryScheduleProofs` | theorems about `Outbox` and `RetrySchedule` |
| `Tenancy` | the tenant tree and the inheritance rule, as operators over constants |
| `TenantTree` | the tenants table and its recursive queries, round by round, against the rule (instantiates `Tenancy` with its variables) |
| `Permissions` | scopes, the lookup of their names, checks and listings, on the trees of `TenantTree` (extends it) |
| `Drain` | deletion of tenants and users, bulk revocation and the bootstrap of the administrator, statement by statement |
| `Api` | a request from validation to answer, for every route; the end of the server process |
| `GrantSync` | services, materializer and store (extends `Tenancy`) |
| `Accounts` | users: the provider's hook, a login query by query, disable, enable, soft delete |
| `ApiProofs`, `AccountsProofs`, `DrainProofs`, `GrantSyncProofs`, `DeadLettersProofs` | theorems about the module each is named after |
| `PermissionsProofs` | theorems about `TenantTree` and `Permissions` |
| `MCAccounts` | `Accounts` for TLC: a person who changed address, and the new owner of the old one |
| `MCGrantSync` | `GrantSync` for TLC: a chain of tenants with a boundary, two roles |
| `MCDeadLetters`, `MCPermissions`, `MCDrain`, `MCApi` | the same for these modules: a few ids, and symmetry |

`GrantSync` composes with `Outbox` by contract: it keeps of the outbox only what
`Delivery` promises (a pending event stays pending until a handler of it has
returned), and adds that any pending event may be handled next. `Permissions`
composes the tenants and their queries (`TenantTree`) with scopes, and takes of
the materializer what it writes for a binding. `Drain`, `DeadLetters` and `Api`
look closer at transactions that `GrantSync`, `Outbox` and `Accounts` have as one
step each.

## 3. How the modules correspond to the code

### Outbox

A row of `outbox_events` is spread over sets and functions of its id: `rows`,
`processed`, `dead`, `attempts`, `retryAt`. A worker is its place in `runOnce`
(`wpc`), what is left of its batch, the `attempts` its copies carry (`seen`),
the event it is at (`cur`) and its abort signal. One action is one statement,
one transaction, or one return of an `await`:

| code | action |
|---|---|
| `enqueue` in a service's transaction | `Enqueue` |
| `claimBatch` (one statement) | `ClaimBatch`; `ClaimThrows` when the call fails after it committed |
| `dispatcher.handle` called, returned, thrown | `Dispatch`, `HandleOk`, `HandleFail` |
| `ackProcessed` | `Ack`; `AckThrows` (applied or not) goes to the catch block, as the code does |
| `markDead` / `recordFailure` | `RecordOutcome`; `OutcomeThrows` (applied or not) loses the batch |
| end of the loop body, abort check | `FinishEvent`, part of both |
| SIGTERM, return of `run`, SIGKILL or watchdog, restart | `Signal`, `Stop`, `Crash`, `Restart` |
| `revive`, `bulkRevive`, `purge`, `bulkPurge` | `Revive`, `Purge` over a set of ids, of which the rows not dead fall out (one step; statement by statement in `DeadLetters`) |
| the clock, taken to be the same for database and workers | `Tick` |

SKIP LOCKED: a claim may miss rows that another worker holds at that moment, and
only because of a statement in progress, so `ClaimResults` allows any claimable
row in another worker's batch to be skipped, and none to be withheld. A claim
that throws before it commits changes nothing and is a stutter.

`delivered` and `failures` are history: no action reads them.

Correct means: processed only after a delivery (`ProcessedWasDelivered`);
nothing disappears but by an audited purge of a dead row (`NoSilentLoss`);
attempts are accounted for (`AttemptsAccounted`); with one worker, it owns what
it holds (`HandledIsPending`), dead letters are exhausted (`DeadExhausted`), and
the whole implements `Delivery` (`KeepsPromise`, with liveness
`KeepsPromiseEventually`).

### Backoff and RetrySchedule

Time is a natural number. `NextDelays` is the set of delays that the jitter can
produce; the rounding of a fractional band is downward. `RetrySchedule` follows
one event through all its failures with the default configuration in seconds. Correct
means: each retry waits longer than the one before (`WaitsGrow`), and an event is given
up after the geometric sum of its waits, give or take the jitter (`BudgetInBand`).

### Tenancy and TenantTree

No service changes `parent_id`, `inherit` or `crosses_boundary` after the insert,
so `Tenancy` has them as constants. `TenantTree` evaluates the two
`WITH RECURSIVE` queries as the database does, one working table after another,
on every tree that creations and deletions reach, and compares them with the
rule (`DescendantsFollowRule`) and with each other (`QueriesEndAndAgree`).
`GrantSync` may then use the rule in place of the queries.

### Permissions

`CreateScope` and `RenameScope` are the two calls of the scopes service, guarded
by the unique index on tenant and name; a tenant's deletion takes its scopes
along (`CascadeScopes`). `FindByNameInAncestors` takes the chain from
`TenantTree`'s `Ascend`, depth by depth, and the first depth with a row of that
name. `Allowed` and `ListScopes` are the answers to a check and to a listing, for
the tuples that a binding at any tenant above writes (`GrantedBy`).

Correct means: a name is the nearest scope (`ResolutionIsNearest`); what is
granted can be used by name wherever the grant reaches, boundaries included,
unless a lower scope hides it, and what a check allows is listed
(`GrantsWorkByName`); and the meaning of a name moves only by a scope created or
renamed above (`NamesMoveLocally`).

### Drain

A call is a record: what it does, to which tenant or user, the statement it is
about to issue (`stage`), the blockers it has found and what its write took. One
action is one statement of its transaction:

| code | action |
|---|---|
| `repo.get`, `findByIdIncludingDeleted` | `Get` |
| `findByUserId` | `FindPrincipal` |
| `countChildren`, `countApiKeys`, `countActiveBindings`, `countActiveForPrincipal` | `Count`; `CountToRevoke` for the cap |
| the DELETE with what its foreign keys cascade to and restrict | `DeleteTenant` |
| `softDelete`, `revokeAllForPrincipal` | `DeleteUser`, `RevokeAll` |
| `upsertByEmailId` and `ensureForUser`, the query and `bindings.create` of `bootstrapAdmin` | `SeedEnsure`, `SeedLook`, `SeedBind` |
| single inserts and updates of other requests, and the clock | `CreateTenant`, `CreateKey`, `CreateRole`, `FirstLogin`, `Bind`, `Revoke`, `Expire` |

An insert locks the rows that its foreign keys name until it commits, so it
comes before a DELETE of them or after: one step. The migrations create the
foreign key from bindings to tenants before that from roles to tenants, so a
deleted tenant's bindings go before its roles do, and only bindings at other
tenants restrict the roles (`UsedElsewhere`). An id is used once. `seen` is
history: what was true while the call ran; no action reads it.

Correct means: an active binding lost with its tenant, or left to a deleted
user, came after the count (`DrainedButForLateGrants`); the cap holds but for
such bindings (`RevokesWithinCap`); a 409 names what was there and leaves out
nothing that stood throughout, and an internal error has its cause in a late row
or a role in use elsewhere (`BlockersToldTruly`); a bootstrap that succeeds
leaves an administrator (`SeedsEndTruly`).

### DeadLetters

An event is a number, in the order of the ids; `deadAt` counts deaths, so that
two deaths of one event differ. A call by filter goes through `Count`, `Find`,
for a revive `Read` for each id, and `Write`, which is the update or delete, its
audit entries and the commit; a call by ids starts at `Read` or `Write`, and a
single call is a call by one id (of the code's order of reads nothing depends).
`Ends` is a statement that throws, or the answer. An audit entry keeps the
snapshot it was given (`before`) and, as history, the death that the statement
undid (`was`). The ids a call finds and the rows of a page are sets, `Newest` being
ORDER BY id DESC LIMIT: nothing depends on their order but the cursor, the least id
of a page. One worker is assumed: `Dies` meets pending rows only; what
several workers do to a settled row is `Outbox`'s subject. `Page` is one request
of a reader that follows the cursor.

Correct means: the log has each death undone or removed exactly once
(`EveryDeathLogged`); a snapshot that is not of that death is missing or older,
and the log has the call in between (`SnapshotsAreEarlier`); a call by filter
leaves a match standing only when others joined and the cap cut it off
(`BulkTakesAllOrCap`); a walk returns what stayed, once (`WalkIsComplete`). And seen
by everybody else, a call of many statements is one revive or one purge in the
contract of `Delivery`, of dead letters only (`CallsAreOneStep`): which is why `Outbox`
may have each call as one action.

### Api

The routes are sets, one for each file of `src/routes`, of records: the scope a
route asks for, where it is asserted (at a tenant the request names, at the
master tenant, at the tenant of the row it loads, or for each check that bears a
subject), and the kind of its service call. A request goes through `Validate`,
`RequireAuth`, `Load` (routes by id), `AssertScope` for each tenant, and `Read`
or `Act`, then `ReadBack` (adding scopes) and `Reply`; each is an await, and
`Fails` is any of them throwing, a commit that answers with an error included.
What checks find in the store changes by the worker (`Grant`, `Ungrant`), keys
end (`KeyEnds`), tenants go with their rows (`TenantGoes`), operators purge
(`RowGoes`). `Signal`, `Closed`, `Exit` and `Watchdog` are the server's end; a
request that is `cut` was in flight at a forced exit. A token may be refused at
any time: which are good is `Accounts`' subject.

Correct means: a positive answer or a change had a live key or a good token, and
the scope held at each tenant at some moment of the request (`ActsWhereAllowed`);
codes tell whether a change was made, adding scopes excepted
(`AnswersTellTruly`); an exit with 0 has cut nobody off (`CleanExit`); and a
process told to stop ends (`SignalledEnds`).

### GrantSync

A binding is its unique key (principal, role, tenant). Each service call is one
action that changes the rows and adds events. A handler is a record per worker:
it picks an event (`Start`), makes its first query (`ReadRow`), lists bindings
(`ListAncestor`), reads a binding's scopes (`ReadScopes`), its tenants
(`ReadTenants`), then writes (`WriteOne`) or checks and deletes (`CheckOne`,
`DeleteOne`) tuple by tuple, goes on (`NextBinding`) and is acknowledged
(`Ack`). Between any two of them transactions commit and other workers step.
`Fail` is any throw or crash in between. `tenant.parent_changed` and unknown
kinds are never enqueued by this code and are left out. A scope belongs to a tenant
(`Owner`), and a role may hold scopes of any tenant: only a foreign key looks at what
`addScopes` is given. Deleting a tenant takes its scopes with it, and by
`role_scopes.scope_id` (`schema.ts:205-207`) their rows of `role_scopes`, of roles
bound elsewhere too, with no event. Roles are taken to be those of the master tenant,
which is never deleted. A role of another tenant goes with that tenant only when no
binding of it has a row elsewhere (`role_bindings.role_id` is RESTRICT), so that all
it granted was at tenants that are gone. No service calls the repositories' own deletion of
scopes or roles. The cap of 500 bindings of `revokeAllBindings` is not reached with
the bindings a run has.
A revoke of a revoked binding stamps it anew and enqueues again, as here.

Correct means: no grant is missing that no event will write (`GrantsAnnounced`); a
tuple too many has an event that will delete it, or stays for one of five causes
(`LeaksExplained`); where none of the five can arise, an empty outbox means an exact store
(`InSyncWhenDrained`), and the store converges (`Converges`). Two history
variables that no action reads tell two of the causes: `removed`, what was ever taken
from a role, by a call or by a cascade, and `overtaken`, what was gone when its
addition was handled.

### Accounts

A row of `users` is `email`, `sub`, membership of `disabled` and of `deleted`;
addresses are taken up to `emailId()`. A request with a token is a record: the
query it is about to make, and its copy of the row's id and address. One action
is one query of `authenticateJwt`, which runs in no transaction; the provider's
hook is one action, its transaction having one conditional insert that matters;
a call of the users service is the read (`Call`) and the guarded update with the
audit entry (`Disable`, `Enable`, `Delete`), which commit together. A request
that throws is `Refused`. `ensureForUser` is idempotent, so the history of who
has a principal is a set. Signature checks are external: `Tokens` are valid
ones, of any identities and addresses. Bindings are `Drain`'s, so any deletion may be
`Blocked`. `wasLive` and `overwritten` are histories: no action reads them.

An address may change its owner at the provider. The first owner's row keeps the
address until the owner's next login (`authentication.ts:97-98`); until then the new
owner's login finds that row by it (`authentication.ts:62-68`), and
`backfillSupabaseId` replaces the identity there by id alone (`users.ts:105-111`). The
first owner's next login finds no row of the identity and becomes another user.
`overwritten` notes every identity replaced in this way, with its user.

Correct means: who is let in was live during the request (`LoginsWereLive`); an
identity is one user, unless the user was deleted, or the identity was replaced on that
user by another that claims an address of it (`OneUserPerIdentity`); the log agrees with
the row (`AuditTellsState`).

## 4. Runs

`CHECK_DEADLOCK FALSE` everywhere: a drained system whose bounds are used up, an
event that is dead, or a process that has ended, may rest.

| run | instance | shows |
|---|---|---|
| `outbox_single` | 2 events, 1 worker, batch 2, 2 attempts, 2 interruptions, 1 revive, no statement throws, fairness | `HandledIsPending`, `DeadExhausted`, `KeepsPromise`, `KeepsPromiseEventually` |
| `outbox_pair` | 2 events, 2 workers, batch 2, 2 interruptions, statements throw | `TypeOK`, `ProcessedWasDelivered`, `AttemptsAccounted`, `NoSilentLoss` |
| `retry_schedule` | default configuration, every jitter | `WaitsGrow`, `BudgetInBand` |
| `dead_letters` | 3 events of 2 types, 2 operators, cap 2, pages of 1, 3 deaths, 2 calls or walks | `TypeOK`, `EveryDeathLogged`, `SnapshotsAreEarlier`, `BulkTakesAllOrCap`, `WalkIsComplete`, `CallsAreOneStep` |
| `permissions` | trees of up to 4 tenants, 2 scopes, 2 names | `DescendantsFollowRule`, `QueriesEndAndAgree`, `ResolutionIsNearest`, `GrantsWorkByName`, `NamesMoveLocally` |
| `drain` | see `MCDrain`; cap 1, 2 calls, 5 transactions of others | `TypeOK`, `DrainedButForLateGrants`, `RevokesWithinCap`, `BlockersToldTruly`, `SeedsEndTruly` |
| `api` | every route, 2 tenants with a row each, 1 request, 2 changes, fairness of the watchdog | `TypeOK`, `ActsWhereAllowed`, `AnswersTellTruly`, `CleanExit`, `SignalledEnds` |
| `accounts` | 2 identities, 2 addresses of which both claim one, 2 ids, 2 clients, 2 administrators, 3 logins, 3 calls | `TypeOK`, `LoginsWereLive`, `OneUserPerIdentity`, `AuditTellsState` |
| `grants_all` | 2 tenants, 2 roles, a scope of the lower tenant, every service call, 3 transactions, 1 failure | `TypeOK`, `GrantsAnnounced`, `LeaksExplained` |
| `grants_live` | 3 tenants with a boundary, 2 roles, no scope removal, bulk revocation, expiry or deletion, 3 transactions, 1 failure, fairness | `InSyncWhenDrained`, `Converges` |

Why the bounds are enough. Batch 2 has a batch that is abandoned half-way and
events that overtake each other (the safety of the outbox is proved for any number, section 5);
2 attempts have a retry and a retirement, and 2 interruptions let an event use
up its attempts without a failed dispatch; delays 1 and 2 reach the cap. Two workers suffice for every
overlap of two claims. In `GrantSync` three transactions are enough for a grant,
its revocation and a second grant of the same scope, in every position between
a handler's awaits; the initial states are every set of tenants and of role
scopes, so no transaction is spent on setting the scene. A boundary tenant needs
one above it and a role that crosses it: hence the chain of three and the two
roles.

In `Accounts` two requests, one with each address, race for the identity while a
third starts late enough to meet what they, the new owner of an address and the
administrators left; three calls delete one account and disable and enable another, or
race on one row. A row has an address and no two have the same, so two addresses never
have more than two rows. Both identities of the run claim one address: that an identity
whose addresses nobody else claims is never replaced is left to the proof.

In `dead_letters` two of three dead events fill the cap, so that a call can count
two, meet a third that has died since and be cut off; three deaths and two calls
let one operator revive, and the event die again, between another's read and
write; and an event may be processed, buried or taken by the other call between the
lookup of a call and its write. `permissions` has room for a tenant, its parent, a boundary and one
beside them, and for a scope that hides another of its name. In `drain` the root
and an organization stand and a team may be created below it; one person and one
key suffice for each count to be wrong by one, and a role of the organization
bound at the root is what a deletion cannot cascade to; the cap of one is passed by
two bindings. In `api` one request is enough: requests share only the world, and
every change another request could make to it is an action of the world; two
changes let a key end or a tenant go between any two awaits, and a grant be taken
and given back.

Statements of the documentation that the code does not keep, each with a run
that ends in a counterexample (details under `findings` in `PROJECT.json`):

| run | property | cause |
|---|---|---|
| `outbox_overlap` | `SafeWithManyWorkers` | rows of a committed claim can be claimed again at once; settling is by id alone |
| `grants_removed` | `InSyncWhenDrained` | scope removal and revoke miss each other's tuple; without scope removal, expiry and deletions it holds (`grants_live`, `OneWorkerInSync`) |

More need no run. The comment on the deletion of tenants
(`src/services/tenants.ts:23-25`) has no clean-up to do, yet the tuples that a
deleted tenant inherited from bindings above it stay in the store. The chart
(`deploy/helm/miramira/values.yaml:49`) calls workers safe to scale out; with two of them,
`materializeBindingRevoked` checks whether a tuple is still needed and then deletes
it, so a tuple that the other worker wrote and acknowledged in between is lost. The
bootstrap of the administrator is called idempotent (`src/db/seeds/run.ts:47`);
after the binding was revoked it fails on the unique index, and an expired binding
passes for an active one. The deletion of a tenant whose role is bound elsewhere
ends as an internal error, where a conflict would name the cause. With several workers or lost answers a row can be both
processed and dead (`DeadExhausted` excludes it for the simple case only), and a
revived row of that kind is never claimed again. A login that found an account
by its address just before the account's deletion writes the identity back to
the deleted row (`Backfill`), where the unique index keeps it from any other.
The comment on `DEFAULT_BACKOFF` speaks of about 85
minutes of retries; `BudgetInBand` gives 409 to 613 seconds. `maxAttempts` is
documented as a number of failures; `attempts` counts claims, and
`AttemptsAccounted` says how far the two may be apart. And expiry enqueues
nothing, so the tuples of an expired binding stay until its revocation happens to
visit them. `LeaksExplained` names these tuples and four other kinds: those at a
deleted tenant; those of a deleted tenant's scope, which stay at the tenants where a
role that held it is bound, though no name resolves to the scope any more; those of a
scope that was taken from a role whose binding ended too (`grants_removed`); and those
of a scope that was taken away before its addition was handled, for
`materializeRoleScopeAdded` does not ask whether the role still has it (an addition
that fails, backs off and is retried after the removal). By the proof of section 5 the
calls that are modelled, with one worker, leave no other. In `grants_all` a scope's
tenant and the tuples at that tenant go together, so the case of a deleted tenant whose
scope lives on is the proof's alone.

The conditions of the passing runs follow from these: `HandledIsPending`,
`DeadExhausted`, `KeepsPromise`, `GrantsAnnounced`, `LeaksExplained`,
`InSyncWhenDrained` and `Converges` hold for one worker (the chart's default `replicaCount: 1`), the
first three without throwing statements.

Fairness. `Outbox`: a worker that can step does (`run` catches everything and
polls again; a dispatch returns or throws, as the client has timeouts; the
orchestrator restarts a process that ended), and the clock moves. `GrantSync`: a
worker's handler goes on. `Api`: the timer that `withShutdownTimeout` starts fires
(`WF_vars(Watchdog)`); nothing is assumed of requests, connections or the pool,
which may hang, so the watchdog alone makes the process end. No fairness for
clients, operators or faults, and the number of interruptions and failures is finite.

## 5. Proofs

Checked by TLAPS for every value of the constants that satisfies the named
assumptions:

* any sets of events and workers, any backoff configuration and any number of
  interruptions and revives (`BackoffAssumption`, `OutboxAssumption`);
* any tenants, rows, keys, requests and number of changes (`ApiAssumption`);
* any identities, addresses, tokens, clients and administrators (`AccountsAssumption`);
* any events with positive ids, any operators, cap, page size and number of calls and
  deaths (`DeadLettersAssumption`);
* any tenants, users, keys, roles and callers (`DrainAssumption`: ids of different
  tables differ, as UUIDs do; the rows that stand at first have their parents);
* any tree of tenants, any principals, roles and scopes, any selection of service
  calls, any number of transactions and failures (`GrantSyncAssumption`;
  `TenancyAssumption`: a tenant's parent existed before it, so the links close no
  cycle, which for any number of ids is said of sets; `NothingAssumption`: the unset
  field is no event, binding or tuple);
* any ids, scopes and names, the tree being what creations and deletions make it
  (`TreeAssumption`: NULL is no id).

| module | theorem | statement |
|---|---|---|
| `OutboxProofs` | `TypeCorrect` | `Spec => []TypeOK` |
| | `AcknowledgedIsDelivered` | `Spec => []ProcessedWasDelivered` |
| | `RowsAreNotLost` | `Spec => NoSilentLoss` |
| | `OneWorkerOwnsItsBatch` | one worker, no lost answers: `Spec => []HandledIsPending` |
| | `OneWorkerRetiresExhausted` | the same: `Spec => []DeadExhausted` |
| | `OneWorkerKeepsPromise` | the same: `Spec => KeepsPromise`, the refinement of `Delivery` |
| | `AttemptsAreAccounted` | finitely many workers: `Spec => []AttemptsAccounted` |
| `RetryScheduleProofs` | `RetriesSlowDown` | waits uncapped, bands apart: `Spec => WaitsGrow` |
| | `BudgetIsGeometric` | waits uncapped: `Spec => []BudgetInBand` |
| | `DefaultsGiveUpInTime` | the default configuration in any unit: `Spec => WaitsGrow /\ []DefaultBudget`, 408.8 to 613.2 base delays |
| `ApiProofs` | `TypeCorrect` | `Spec => []TypeOK` |
| | `OnlyTheAllowedAct` | `Spec => []ActsWhereAllowed` |
| | `CodesAreTrue` | `Spec => []AnswersTellTruly` |
| | `ZeroCutsNobodyOff` | `Spec => []CleanExit` |
| `AccountsProofs` | `TypeCorrect` | `Spec => []TypeOK`, the unique indexes included |
| | `AdmittedWereLive` | `Spec => []LoginsWereLive` |
| | `OneIdentityOneUser` | `Spec => []OneUserPerIdentity` |
| | `AuditIsTrue` | `Spec => []AuditTellsState` |
| `GrantSyncProofs` | `TypeCorrect` | `Spec => []TypeOK`, foreign keys included, any number of workers |
| | `OneWorkerLosesNoGrant` | one worker: `Spec => []GrantsAnnounced` |
| | `OneWorkerExplainsLeaks` | one worker: `Spec => []LeaksExplained` |
| | `OneWorkerLeaksNothing` | one worker, grants end by revokes only: `Spec => []LeaksAnnounced` (defined with the theorem: only events of revokes are left to delete) |
| | `OneWorkerInSync` | the same: `Spec => []InSyncWhenDrained` |
| `DrainProofs` | `RowsReferToRows` | `Spec => []TypeOK`, foreign keys included |
| | `OnlyLateGrantsAreTaken` | `Spec => []DrainedButForLateGrants` |
| | `RevokesAreCapped` | `Spec => []RevokesWithinCap` |
| | `RefusalsAreTrue` | `Spec => []BlockersToldTruly` |
| | `SeedsAreTrue` | `Spec => []SeedsEndTruly` |
| `DeadLettersProofs` | `CallsStayCapped` | `Spec => []TypeOK`, the cap included |
| | `DeathsAreLogged` | `Spec => []EveryDeathLogged` |
| | `SnapshotsAreOfDeaths` | `Spec => []SnapshotsAreEarlier` |
| | `BulkIsCompleteUpToCap` | `Spec => []BulkTakesAllOrCap` |
| | `WalksAreComplete` | `Spec => []WalkIsComplete` |
| | `CallsKeepContract` | `Spec => CallsAreOneStep`, every step a step of `Delivery` or a stutter |
| `PermissionsProofs` | `DescentFollowsRule` | `PermissionsSpec => []DescendantsFollowRule` |
| | `QueriesAgree` | `PermissionsSpec => []QueriesEndAndAgree` |
| | `NamesMeanNearest` | `PermissionsSpec => []ResolutionIsNearest` |
| | `NamesAndGrantsMeet` | `PermissionsSpec => []GrantsWorkByName` |
| | `NamesStayPut` | `PermissionsSpec => NamesMoveLocally` |

Outbox. `TypeOK` is inductive (`TypeStep`); it carries the control
invariant that a worker has a current event of its batch exactly while it
dispatches or settles one. `ProcessedWasDelivered` is not: one adds that a
worker that is acknowledging has delivered its event (`DeliveredInv`). Those two
need nothing of the number of workers. For one worker, `Solo` (a single worker,
no `DbFaults`) makes `SoloInv` inductive: its batch is pending, and its copies of
`attempts` are the table's, so that a row is retired with the attempts it has.
`DbFaults` must be excluded since `AckThrows` leaves a processed row in the
batch. The refinement then maps each action to the step of `Delivery` that
changes the status of the same events, or to a stutter (`PromiseStep`).

Attempts. `AttemptsAccounted` is not inductive: a worker that was signalled drops
the rest of its batch later, and nothing pays for it then. `AttemptsInv` leaves
such workers out of the count (`Reporting`), since their signal was counted when it
came. Every step then raises `attempts` together with the reporters (`ClaimBatch`),
loses one reporter for one failure or one interruption, or loses none of an event
that is not delivered (`AccountKeeps`).

Retry schedule. The provers cannot use a recursive function by its definition, so that
`Power` is n-fold multiplication is proved first (`PowerDef`), by induction said of sets
of numbers (`AllNumbers`). Where no wait reaches the cap (`Uncapped`), the delay is
within the jitter ratio of the power (`DelayBand`); bands whose ends are further apart
than the factor makes them (`Disjoint`) do not overlap, and `WaitFits` says of the last
wait which band it is from. For the budget, `BudgetFits` has the sum of the waits so far
in the band around the closed form of the geometric sum; one more wait adds the next
power to both (`SumGrows`). `DefaultFits` shows that the default configuration, with the
base delay as the unit, meets both conditions: the ninth wait is 256 and the cap is 300.

Api. What was seen of a request in flight contains what is true of it now
(`Noted`), so that a guard that reads the world adds nothing unseen. Along the
stages, each tenant concerned has been asserted or is still on the list
(`Covered`), the credential is known to have been good (`Known`), and a change
precedes its answer (`Progress`). For the process: nobody is cut off before the
watchdog, and nobody is in flight once `app.close` has ended (`ServerInv`).

Accounts. Of an identity whose addresses no other claims (`Sole`), a row that is not
deleted holds one of these addresses, and no row of another identity holds one
(`Owned`). There `backfillSupabaseId`, which goes by id alone, can only write the
identity that such a row has already or has not yet, and a change of address stays
within the identity; so whatever it replaces is an identity with a disputed address
(`Replaced`). Who has been let in has the token's identity, or had it until it was
replaced, or is deleted (`Bore`, `LetIn`); with the unique index on the identity, two
requests of one identity that was not replaced have one row. A row found by address and
deleted since was seen live, or is disabled for good, because enabling does not touch a
deleted row (`Found`): the gate behind the query refuses it.

The log of a user is told about the user's row by the number of its entries before
a deletion (`Switches`): odd when disabled, and the entries alternate (`Tells`). An
id without a row has none, and each guarded update changes row and log in one step,
so what concurrent calls have read before does not matter.

GrantSync. `GrantsAnnounced` says that some event will write a tuple that is called
for. Inductive is more: for each active binding and each tuple it calls for that is
absent, an event announces that pair (`AllCovered`), and the event a handler is at
counts only while the pair is still ahead of the handler (`WorkLeft`), for it is
acknowledged at the end. A delete is safe though its check is an await earlier: what
became owed in between is announced by events that the one worker has not begun
(`DeleteIsSafe`). This is where a second worker would break it. A revoke is final
until its tenant is gone (`RevokesAreFinal`), which is why the handler may leave its
own binding out of the check.

The converse is `LeaksExplained`, for every service call. Inductive is that a binding
answers for every tuple at a tenant that is left (`Accounted`): it still has the scope,
and is not revoked or its revoke is to come; or it lost the scope, and either it ended
as well, or the removal is to come, or an addition was handled later (`Held`). The
event of a handler counts only while the tuple is before that handler, whichever of the
two deleting kinds it is (`WillDelete`, `DeletesLeft`), and a writing handler works from
bindings and scopes that answer for what it will write (`WritesAreBacked`). Services
move tuples from one case to another, with an event or by the way of a named cause
(`ServiceEnds`); that a leaf of the tree is deleted takes all that its bindings reach
(`DeletedCovers`). Without expiry, removed scopes and deleted tenants
(`OnlyRevokesEnd`) none of the causes comes about (`Lasting`), which gives
`LeaksAnnounced`, and with `GrantsAnnounced` that an empty outbox means an exact store
(`OneWorkerInSync`): what the run `grants_removed` refutes without the condition.

Drain. A call under way has found all that stood in its way throughout, but for the
kinds it has yet to count (`ToCount`), and nothing that never stood; once it has
counted, what is active came late (`RunsWell`). At the write this turns into what the
properties say of a call that has ended (`EndsWell`). Principals stay, and bindings at
the master tenant keep their rows, which is what a bootstrap in progress relies on
(`RowsMove`).

DeadLetters. A call's snapshots are of deaths of their events; the matches it counted
are within the cap while none has joined; what has stood since the count is among the
ids it looked up, or the lookup was cut at the cap (`CallFits`). Two facts about
`Newest` carry the rest: it returns all or as many as the limit says, and what it
leaves comes after what it returns (`NewestOf`, `PageOf`). A walk has returned
nothing after its cursor, and everything before it that has stood (`WalkFits`). For the
contract one adds that what was purged has no row (`DiscardedAreGone`), so that what
the worker completes was never discarded; the statement that writes then takes the
rows that are dead at that moment from one status to one other (`WriteIsOneStep`).

Permissions. The rows are a tree in the form: every nonempty set of tenants has a
member whose parent is outside it (`TreeInv`). From it comes induction down the tree,
by the set of tenants that have a property (`DownTheTree`); with it the recursive
`Ancestors` satisfies its own equation, chains are lines that end at the master, and
the depth of a tenant is the size of its chain. The n-th round of a recursive query is
then what lies n levels up or down (`AscendRounds`, `DescendRounds`, by the first
round to differ), which gives both theorems about the queries. The first depth with a
hit is the nearest scope (`LookupIsNearest`), unique by the index on tenant and name
(`ScopesInv`, `OneIsNearest`). A step over tenants leaves the chains of the others
alone (`ChainsStay`), and a scope that is nearest neither before nor after hides
nothing (`HiddenScopeMovesNothing`): hence `NamesMoveLocally`, an action property.

Only model-checked: liveness (`KeepsPromiseEventually`, `Converges`,
`SignalledEnds`), which is beyond the prover. With more than one worker,
`GrantsAnnounced` and the properties of `Solo` are false, as section 4 tells.

## 6. Not modelled, and the plan

What is left, in the order of what it would show:

1. `StandardWebhooks`: the timestamp window and the list of signatures. The
   comparison is a pure function of one request; what it lets in is modelled
   (`Accounts`), whether it should is not.
2. API keys: hashing, lookup by prefix and the write of `last_used_at`, which
   nothing reads. That a key ends while a request is under way is in `Api`.
3. The system rows of the seeds: `role_scopes` are inserted anew at every start,
   without events, so that a scope added to a system role by a release reaches the
   store only with the next event of a binding of it.
4. The outbox observer: gauges read by one query each, on which no decision
   depends.

Left out for good: validation schemas, request bodies and OpenAPI (stateless
translation), health, metrics, logging, CORS and rate limits (no state of the
system depends on them), configuration, migrations and deployment files (read once).
