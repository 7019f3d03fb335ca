----------------------------- MODULE DrainProofs -----------------------------
(***************************************************************************)
(* Theorems about module Drain: for any number of callers and              *)
(* transactions, any tree and any bindings, the foreign keys hold, and     *)
(* every call that has ended told the truth about what stood in its way    *)
(* and took only what it may.                                              *)
(***************************************************************************)
EXTENDS Drain, FiniteSetTheorems, TLAPS

-----------------------------------------------------------------------------
(* The inductive invariant *)

\* The kinds that a call at this stage has not counted yet; it never counts "roles".
ToCount(stage) ==
  {"roles"} \union CASE stage = "get"                      -> Kinds
                     [] stage = "children"                 -> {"children", "keys", "bindings"}
                     [] stage = "keys"                     -> {"keys", "bindings"}
                     [] stage \in {"principal", "bindings"} -> {"bindings"}
                     [] OTHER                              -> {}

\* A call keeps to the statements of its operation.
StageFits(h) ==
  /\ h.op = "none" => h.stage = "done"
  /\ h.op = "tenant" =>
       h.on \in Tenants /\ h.stage \in Ended \union {"get", "children", "keys", "bindings", "write"}
  /\ h.op \in {"user", "revokeAll"} =>
       h.on \in Users /\ h.stage \in Ended \union {"get", "principal", "bindings", "write"}
  /\ h.op = "seed" =>
       /\ h.on \in Users /\ h.stage \in Ended \union {"ensure", "look", "bind"}
       /\ h.stage \in {"look", "bind"} => h.on \in principals

\* While a call h runs, s tells what has stood in its way, and it has found all of that
\* but what it has yet to count; once it has counted, what is active has come late.
RunsWell(h, s) ==
  h.stage \notin Ended =>
    /\ h.took = {}
    /\ s.always \subseteq Blockers[h.on] /\ Blockers[h.on] \subseteq s.ever
    /\ h.op \in {"tenant", "user"} =>
         /\ h.found \subseteq s.ever /\ s.always \subseteq h.found \union ToCount(h.stage)
         /\ h.on = Master /\ h.stage # "get" => h.found # {}
         /\ h.stage = "write" => h.found = {} /\ ActiveOf(h.on) \subseteq s.late
         /\ h.op = "user" => h.found = {}
    /\ h.op = "revokeAll" /\ h.stage = "write" => Cardinality(ActiveOf(h.on) \ s.late) <= Cap

\* What the properties say of a call that has ended.
EndsWell(h, s) ==
  /\ h.op \in {"tenant", "user"} =>
       /\ h.stage = "done" => h.took \subseteq s.late /\ s.always = {}
       /\ h.stage = "refused" =>
            /\ h.found # {} /\ h.found \subseteq s.ever
            /\ s.always \subseteq h.found \union {"roles"}
       /\ h.stage = "failed" =>
            h.found \subseteq s.ever /\ s.always \subseteq {"roles"} \intersect h.found
  /\ h.op = "revokeAll" => Cardinality(h.took \ s.late) <= Cap
  /\ h.op = "seed" =>
       /\ h.stage = "done" => s.admin
       /\ h.stage = "failed" => AdminBinding(h.on) \in bound

CallOK(h, s) == StageFits(h) /\ RunsWell(h, s) /\ EndsWell(h, s)

DrainInv ==
  /\ TypeOK
  /\ AdminRole \in roles
  /\ IsFiniteSet(bound)
  /\ \A c \in Callers : CallOK(call[c], seen[c])

-----------------------------------------------------------------------------
(* Types *)

CallRecords ==
  [op : {"none", "tenant", "user", "revokeAll", "seed"}, on : Tenants \union Users, stage : Stages,
   found : SUBSET Kinds, took : SUBSET Grants]

SeenRecords == [ever : SUBSET Kinds, always : SUBSET Kinds, late : SUBSET Grants, admin : BOOLEAN]

RowTypes ==
  /\ tenants \subseteq Tenants /\ Master \in tenants
  /\ \A t \in tenants \ {Master} : Parent[t] \in tenants
  /\ keys \subseteq Keys /\ \A k \in keys : KeyTenant[k] \in tenants
  /\ roles \subseteq Roles /\ \A r \in roles : RoleTenant[r] \in tenants
  /\ principals \subseteq Users \union keys
  /\ deleted \subseteq Users
  /\ bound \subseteq principals \X roles \X tenants
  /\ revoked \union expired \subseteq bound

CallTypes ==
  /\ call \in [Callers -> CallRecords]
  /\ seen \in [Callers -> SeenRecords]

BoundTypes == calls \in 0..MaxCalls /\ txns \in 0..MaxTxns

\* What every step does to the rows: principals and the seed's bindings stay, and a
\* binding that becomes active is a new row.
RowsMove ==
  /\ principals \subseteq principals'
  /\ \A b \in bound : b[3] = Master => b \in bound'
  /\ Active' \subseteq Active \union (bound' \ bound)
  /\ AdminRole \in roles'
  /\ IsFiniteSet(bound')

LEMMA TypeParts ==
  /\ TypeOK <=> RowTypes /\ CallTypes /\ BoundTypes
  /\ (TypeOK <=> RowTypes /\ CallTypes /\ BoundTypes)'
<1>1. TypeOK <=> RowTypes /\ CallTypes /\ BoundTypes
  BY DEF TypeOK, RowTypes, CallTypes, BoundTypes, CallRecords, SeenRecords
<1> QED
  BY <1>1, PTL

LEMMA ActiveTypes ==
  ASSUME RowTypes
  PROVE  /\ Active \subseteq bound /\ bound \subseteq Grants
         /\ \A x : ActiveOf(x) \subseteq Grants
         /\ \A x \in Tenants \union Users : Blockers[x] \subseteq Kinds
         /\ \A x \in Tenants \union Users : \A k : k \in Blockers[x] <=> k \in Kinds /\ Stands(k, x)
BY DEF RowTypes, Active, ActiveOf, Grants, Blockers

\* The same of the next state.
LEMMA ActiveTypesNext ==
  ASSUME RowTypes'
  PROVE  /\ Active' \subseteq bound' /\ bound' \subseteq Grants
         /\ \A x : ActiveOf(x)' \subseteq Grants
         /\ \A x \in Tenants \union Users : Blockers'[x] \subseteq Kinds
BY DEF RowTypes, Active, ActiveOf, Grants, Blockers

\* Only bindings can stand in the way of deleting a user, and there are none without a
\* principal.
LEMMA UserBlockers ==
  ASSUME RowTypes, NEW u \in Users
  PROVE  /\ Blockers[u] \subseteq {"bindings"}
         /\ "bindings" \in Blockers[u] <=> ActiveOf(u) # {}
         /\ u \notin principals => ActiveOf(u) = {}
<1>1. u \notin Tenants
  BY DrainAssumption
<1>2. Children(u) = {}
  BY <1>1 DEF Children, RowTypes
<1>3. KeysAt(u) = {}
  BY <1>1 DEF KeysAt, RowTypes
<1>4. UsedElsewhere(u) = {}
  BY <1>1 DEF UsedElsewhere, RowTypes
<1>5. u # Master
  BY <1>1 DEF RowTypes
<1>6. \A k \in Kinds : Stands(k, u) <=> k = "bindings" /\ ActiveOf(u) # {}
  BY <1>2, <1>3, <1>4, <1>5 DEF Stands, Kinds
<1>7. u \notin principals => ActiveOf(u) = {}
  BY <1>1 DEF ActiveOf, Active, RowTypes
<1> QED
  BY <1>6, <1>7 DEF Blockers, Kinds

-----------------------------------------------------------------------------
(* What a call has seen *)

\* The cases of Watch.
LEMMA Watches ==
  ASSUME CallTypes, RowTypes', call' \in [Callers -> CallRecords], Observe, NEW c \in Callers
  PROVE  /\ seen'[c] \in SeenRecords
         /\ call[c].stage \in Ended /\ call'[c].stage \in Ended => seen'[c] = seen[c]
         /\ call[c].stage \in Ended /\ call'[c].stage \notin Ended =>
              /\ seen'[c].ever = Blockers'[call'[c].on]
              /\ seen'[c].always = Blockers'[call'[c].on]
         /\ call[c].stage \notin Ended /\ call'[c].stage \in Ended =>
              /\ seen'[c].ever = seen[c].ever /\ seen'[c].always = seen[c].always
              /\ seen'[c].late = seen[c].late
              /\ AdminBinding(call'[c].on) \in bound' \ revoked' => seen'[c].admin
         /\ call[c].stage \notin Ended /\ call'[c].stage \notin Ended =>
              /\ seen'[c].ever = seen[c].ever \union Blockers'[call'[c].on]
              /\ seen'[c].always = seen[c].always \intersect Blockers'[call'[c].on]
              /\ seen[c].late \subseteq seen'[c].late
              /\ call[c].stage = "write" => bound' \ bound \subseteq seen'[c].late
              /\ call[c].stage # "write" => seen'[c].late = seen[c].late
<1> DEFINE x == call'[c].on
           now == Blockers'[x]
           admin == AdminBinding(x) \in bound' \ revoked'
           more == IF call[c].stage = "write" THEN bound' \ bound ELSE {}
<1>1. now \subseteq Kinds /\ bound' \subseteq Grants
  BY ActiveTypesNext DEF CallRecords
<1>2. seen'[c] = IF call[c].stage \in Ended THEN
                   IF call'[c].stage \in Ended THEN seen[c]
                   ELSE [ever |-> now, always |-> now, late |-> {}, admin |-> admin]
                 ELSE IF call'[c].stage \in Ended THEN [seen[c] EXCEPT !.admin = @ \/ admin]
                 ELSE [ever   |-> seen[c].ever \union now, always |-> seen[c].always \intersect now,
                       late   |-> seen[c].late \union more, admin  |-> seen[c].admin \/ admin]
  BY DEF Observe, Watch
<1>3. seen[c] \in SeenRecords /\ admin \in BOOLEAN /\ more \subseteq Grants
  BY <1>1 DEF CallTypes
<1> HIDE DEF now, admin, more
<1>4. CASE call[c].stage \in Ended
  BY <1>1, <1>2, <1>3, <1>4 DEF SeenRecords, now
<1>5. CASE call[c].stage \notin Ended /\ call'[c].stage \in Ended
  BY <1>2, <1>3, <1>5 DEF SeenRecords, admin
<1>6. CASE call[c].stage \notin Ended /\ call'[c].stage \notin Ended
  BY <1>1, <1>2, <1>3, <1>6 DEF SeenRecords, now, more
<1> QED
  BY <1>4, <1>5, <1>6

\* A caller that does nothing in a step only watches.
LEMMA Bystander ==
  ASSUME DrainInv, RowTypes', call' \in [Callers -> CallRecords], RowsMove, Observe,
         NEW c \in Callers, call'[c] = call[c]
  PROVE  CallOK(call[c], seen[c])'
<1> DEFINE h == call[c]
           s == seen[c]
<1>1. RowTypes /\ CallTypes /\ CallOK(h, s) /\ h \in CallRecords /\ s \in SeenRecords
  BY TypeParts DEF DrainInv, CallTypes
<1>2. StageFits(call[c])'
  BY <1>1 DEF CallOK, StageFits, RowsMove
<1>3. RunsWell(call[c], seen[c])'
  <2> SUFFICES ASSUME h.stage \notin Ended
               PROVE  /\ h.took = {}
                      /\ seen'[c].always \subseteq Blockers'[h.on] /\ Blockers'[h.on] \subseteq seen'[c].ever
                      /\ h.op \in {"tenant", "user"} =>
                           /\ h.found \subseteq seen'[c].ever
                           /\ seen'[c].always \subseteq h.found \union ToCount(h.stage)
                           /\ h.on = Master /\ h.stage # "get" => h.found # {}
                           /\ h.stage = "write" => h.found = {} /\ ActiveOf(h.on)' \subseteq seen'[c].late
                           /\ h.op = "user" => h.found = {}
                      /\ h.op = "revokeAll" /\ h.stage = "write" =>
                           Cardinality(ActiveOf(h.on)' \ seen'[c].late) <= Cap
    BY DEF RunsWell, ToCount, ActiveOf
  <2>1. /\ seen'[c].ever = s.ever \union Blockers'[h.on]
        /\ seen'[c].always = s.always \intersect Blockers'[h.on]
        /\ s.late \subseteq seen'[c].late
        /\ h.stage = "write" => bound' \ bound \subseteq seen'[c].late
    BY <1>1, Watches
  <2>2. RunsWell(h, s)
    BY <1>1 DEF CallOK
  <2>3. h.stage = "write" => ActiveOf(h.on)' \ seen'[c].late \subseteq ActiveOf(h.on) \ s.late
    BY <2>1 DEF ActiveOf, RowsMove
  <2>4. IsFiniteSet(ActiveOf(h.on) \ s.late)
    BY FS_Subset, <1>1 DEF ActiveOf, Active, DrainInv
  <2>5. h.op = "revokeAll" /\ h.stage = "write" => Cardinality(ActiveOf(h.on)' \ seen'[c].late) <= Cap
    <3> SUFFICES ASSUME h.op = "revokeAll", h.stage = "write"
                 PROVE  Cardinality(ActiveOf(h.on)' \ seen'[c].late) <= Cap
      OBVIOUS
    <3>1. Cardinality(ActiveOf(h.on) \ s.late) <= Cap
      BY <2>2 DEF RunsWell, Ended
    <3>2. /\ Cardinality(ActiveOf(h.on)' \ seen'[c].late) <= Cardinality(ActiveOf(h.on) \ s.late)
          /\ IsFiniteSet(ActiveOf(h.on)' \ seen'[c].late)
      BY <2>3, <2>4, FS_Subset
    <3> QED
      BY <2>4, <3>1, <3>2, FS_CardinalityType, DrainAssumption
  <2>6. h.op \in {"tenant", "user"} /\ h.stage = "write" => ActiveOf(h.on)' \subseteq seen'[c].late
    BY <2>1, <2>2, <2>3 DEF RunsWell
  <2> QED
    BY <2>1, <2>2, <2>5, <2>6 DEF RunsWell
<1>4. EndsWell(call[c], seen[c])'
  <2>1. CASE h.stage \in Ended
    <3>1. seen'[c] = seen[c]
      BY <1>1, <2>1, Watches
    <3>2. AdminBinding(h.on) \in bound => AdminBinding(h.on) \in bound'
      BY DEF RowsMove, AdminBinding
    <3> QED
      BY <1>1, <3>1, <3>2 DEF CallOK, EndsWell, AdminBinding
  <2>2. CASE h.stage \notin Ended
    <3>1. h.took = {}
      BY <1>1, <2>2 DEF CallOK, RunsWell
    <3>2. Cardinality(h.took \ seen'[c].late) <= Cap
      BY <3>1, FS_EmptySet, DrainAssumption
    <3> QED
      BY <2>2, <3>2 DEF EndsWell, Ended
  <2> QED
    BY <2>1, <2>2
<1> QED
  BY <1>2, <1>3, <1>4 DEF CallOK

\* A step of caller c: what is left to show of it.
LEMMA CallerKeeps ==
  ASSUME DrainInv, RowTypes', RowsMove, BoundTypes', Observe,
         NEW c \in Callers, NEW h \in CallRecords, Turns(c, h),
         CallOK(call[c], seen[c])'
  PROVE  DrainInv'
<1>1. CallTypes /\ RowTypes
  BY TypeParts DEF DrainInv
<1>2. call' \in [Callers -> CallRecords] /\ \A d \in Callers \ {c} : call'[d] = call[d]
  BY <1>1 DEF Turns, CallTypes
<1>3. seen' \in [Callers -> SeenRecords]
  <2>1. \A d \in Callers : seen'[d] \in SeenRecords
    BY <1>1, <1>2, Watches
  <2>2. seen' = [d \in Callers |-> Watch(d)]
    BY DEF Observe
  <2> QED
    BY <2>1, <2>2
<1>4. \A d \in Callers \ {c} : CallOK(call[d], seen[d])'
  BY <1>2, Bystander
<1> QED
  BY <1>2, <1>3, <1>4, TypeParts DEF DrainInv, CallTypes, RowsMove

\* The transactions of others.
LEMMA OthersKeep ==
  ASSUME DrainInv, RowTypes', RowsMove, BoundTypes', Observe, call' = call
  PROVE  DrainInv'
<1>1. CallTypes /\ RowTypes
  BY TypeParts DEF DrainInv
<1>2. call' \in [Callers -> CallRecords]
  BY <1>1 DEF CallTypes
<1>3. seen' \in [Callers -> SeenRecords]
  <2>1. \A d \in Callers : seen'[d] \in SeenRecords
    BY <1>1, <1>2, Watches
  <2>2. seen' = [d \in Callers |-> Watch(d)]
    BY DEF Observe
  <2> QED
    BY <2>1, <2>2
<1>4. \A d \in Callers : CallOK(call[d], seen[d])'
  BY <1>2, Bystander
<1> QED
  BY <1>2, <1>3, <1>4, TypeParts DEF DrainInv, CallTypes, RowsMove

LEMMA OthersStep == ASSUME DrainInv, Others PROVE DrainInv'
<1>1. /\ RowTypes /\ BoundTypes /\ AdminRole \in roles /\ IsFiniteSet(bound)
      /\ MaxTxns \in Nat
  BY TypeParts, DrainAssumption DEF DrainInv
<1>2. ASSUME Commits PROVE call' = call /\ Observe /\ BoundTypes' /\ UNCHANGED << dropped, deleted >>
  BY <1>1, <1>2 DEF Commits, BoundTypes
<1>3. ASSUME NEW t \in Tenants \ {Master}, CreateTenant(t) PROVE DrainInv'
  <2>1. RowTypes' /\ RowsMove
    BY <1>1, <1>2, <1>3 DEF CreateTenant, Creates, Commits, RowTypes, RowsMove, Active
  <2> QED
    BY <1>2, <1>3, <2>1, OthersKeep DEF CreateTenant, Creates
<1>4. ASSUME NEW k \in Keys, CreateKey(k) PROVE DrainInv'
  <2>1. RowTypes' /\ RowsMove
    BY <1>1, <1>2, <1>4 DEF CreateKey, Creates, Commits, RowTypes, RowsMove, Active
  <2> QED
    BY <1>2, <1>4, <2>1, OthersKeep DEF CreateKey, Creates
<1>5. ASSUME NEW r \in Roles, CreateRole(r) PROVE DrainInv'
  <2>1. RowTypes' /\ RowsMove
    BY <1>1, <1>2, <1>5 DEF CreateRole, Creates, Commits, RowTypes, RowsMove, Active
  <2> QED
    BY <1>2, <1>5, <2>1, OthersKeep DEF CreateRole, Creates
<1>6. ASSUME NEW u \in Users, FirstLogin(u) PROVE DrainInv'
  <2>1. RowTypes' /\ RowsMove
    BY <1>1, <1>2, <1>6 DEF FirstLogin, Creates, Commits, RowTypes, RowsMove, Active
  <2> QED
    BY <1>2, <1>6, <2>1, OthersKeep DEF FirstLogin, Creates
<1>7. ASSUME NEW b \in Bindings, Bind(b) PROVE DrainInv'
  <2>1. b = << b[1], b[2], b[3] >> /\ b[1] \in principals /\ b[2] \in roles /\ b[3] \in tenants
    BY <1>7, DrainAssumption DEF Bind, MayBind
  <2>2. RowTypes'
    BY <1>1, <1>7, <2>1 DEF Bind, Creates, Commits, RowTypes
  <2>3. RowsMove
    BY <1>1, <1>7, FS_AddElement DEF Bind, Creates, Commits, RowsMove, Active
  <2> QED
    BY <1>2, <1>7, <2>2, <2>3, OthersKeep DEF Bind, Creates
<1>8. ASSUME NEW b \in Bindings, Revoke(b) \/ Expire(b) PROVE DrainInv'
  <2>1. RowTypes' /\ RowsMove
    BY <1>1, <1>2, <1>8 DEF Revoke, Expire, Commits, RowTypes, RowsMove, Active
  <2> QED
    BY <1>2, <1>8, <2>1, OthersKeep DEF Revoke, Expire
<1> QED
  BY <1>3, <1>4, <1>5, <1>6, <1>7, <1>8 DEF Others

-----------------------------------------------------------------------------
(* The steps of a caller *)

\* What is known of the caller, and what its records are made of.
LEMMA CallerFacts ==
  ASSUME DrainInv, NEW c \in Callers
  PROVE  /\ RowTypes /\ CallTypes /\ BoundTypes /\ AdminRole \in roles /\ IsFiniteSet(bound)
         /\ call[c] \in CallRecords /\ seen[c] \in SeenRecords
         /\ StageFits(call[c]) /\ RunsWell(call[c], seen[c]) /\ EndsWell(call[c], seen[c])
BY TypeParts DEF DrainInv, CallTypes, CallOK

\* The row that a statement's caller has seen after it.
SeenNow(c, h) == [seen[c] EXCEPT !.admin = @ \/ AdminBinding(h.on) \in bound \ revoked]

\* A statement that only reads: no row changes, so nothing is seen that was not seen
\* before.
LEMMA StatementKeeps ==
  ASSUME DrainInv, NEW c \in Callers, NEW h \in CallRecords, Moves(c, h),
         call[c].stage \notin Ended, h.on = call[c].on,
         \A s \in SeenRecords :
           /\ s.ever = seen[c].ever /\ s.always = seen[c].always /\ s.late = seen[c].late
           /\ h.stage \in Ended /\ AdminBinding(h.on) \in bound \ revoked => s.admin
           => CallOK(h, s)
  PROVE  DrainInv'
<1>1. /\ UNCHANGED << tenants, dropped, keys, roles, principals, deleted, bound, revoked, expired >>
      /\ UNCHANGED << calls, txns >> /\ Turns(c, h) /\ Observe
  BY DEF Moves, rowVars
<1>2. /\ RowTypes /\ CallTypes /\ BoundTypes /\ RunsWell(call[c], seen[c])
      /\ AdminRole \in roles /\ IsFiniteSet(bound)
      /\ seen[c] \in SeenRecords
  BY CallerFacts
<1>3. RowTypes' /\ BoundTypes'
  BY <1>1, <1>2 DEF RowTypes, BoundTypes
<1>4. /\ Active' = Active /\ Blockers' = Blockers
      /\ \A x : ActiveOf(x)' = ActiveOf(x)
      /\ \A x : AdminBinding(x)' = AdminBinding(x)
  BY <1>1 DEF Active, Blockers, Stands, Children, KeysAt, ActiveOf, UsedElsewhere, AdminBinding
<1>5. RowsMove
  BY <1>1, <1>2, <1>4 DEF RowsMove
<1>6. call'[c] = h /\ call' \in [Callers -> CallRecords]
  BY <1>1, <1>2 DEF Turns, CallTypes
<1>7. /\ seen'[c] \in SeenRecords
      /\ seen'[c].ever = seen[c].ever /\ seen'[c].always = seen[c].always
      /\ seen'[c].late = seen[c].late
      /\ h.stage \in Ended /\ AdminBinding(h.on) \in bound \ revoked => seen'[c].admin
  <2>1. Blockers[h.on] \subseteq seen[c].ever /\ seen[c].always \subseteq Blockers[h.on]
    BY <1>2 DEF RunsWell
  <2>2. CASE h.stage \in Ended
    BY <1>1, <1>2, <1>3, <1>6, <2>2, Watches
  <2>3. CASE h.stage \notin Ended
    <3>1. /\ seen'[c] \in SeenRecords
          /\ seen'[c].ever = seen[c].ever \union Blockers'[h.on]
          /\ seen'[c].always = seen[c].always \intersect Blockers'[h.on]
          /\ seen[c].late \subseteq seen'[c].late
      BY <1>1, <1>2, <1>3, <1>6, <2>3, Watches
    <3>2. seen'[c].late = seen[c].late
      <4>1. seen'[c] = Watch(c)
        BY <1>1 DEF Observe
      <4>2. (IF call[c].stage = "write" THEN bound' \ bound ELSE {}) = {}
        BY <1>1
      <4> QED
        BY <1>2, <1>6, <2>3, <4>1, <4>2 DEF Watch, SeenRecords
    <3> QED
      BY <1>4, <2>1, <2>3, <3>1, <3>2
  <2> QED
    BY <2>2, <2>3
<1>8. CallOK(h, seen'[c])
  BY <1>7
<1>9. CallOK(call[c], seen[c])'
  BY <1>1, <1>4, <1>6, <1>8 DEF CallOK, StageFits, RunsWell, EndsWell, ToCount
<1> QED
  BY <1>1, <1>3, <1>5, <1>9, CallerKeeps

LEMMA BeginStep ==
  ASSUME DrainInv, NEW c \in Callers, NEW op, NEW x, Begin(c, op, x),
         \/ op = "tenant" /\ x \in Tenants
         \/ op \in {"user", "revokeAll", "seed"} /\ x \in Users
  PROVE  DrainInv'
<1> DEFINE h == [op |-> op, on |-> x, found |-> {}, took |-> {},
                 stage |-> IF op = "seed" THEN "ensure" ELSE "get"]
<1>1. /\ UNCHANGED << tenants, dropped, keys, roles, principals, deleted, bound, revoked, expired, txns >>
      /\ calls < MaxCalls /\ calls' = calls + 1 /\ Turns(c, h) /\ Observe /\ call[c].stage \in Ended
  BY DEF Begin, rowVars
<1>2. RowTypes /\ CallTypes /\ BoundTypes /\ AdminRole \in roles /\ IsFiniteSet(bound)
  BY CallerFacts
<1>3. RowTypes' /\ BoundTypes' /\ RowsMove
  BY <1>1, <1>2, DrainAssumption DEF RowTypes, BoundTypes, RowsMove, Active
<1>4. h \in CallRecords /\ h.stage \in {"get", "ensure"}
  BY DEF CallRecords, Stages
<1>5. /\ h.op = op /\ h.on = x /\ h.found = {} /\ h.took = {}
      /\ h.stage = "ensure" <=> op = "seed"
      /\ h.stage = "get" <=> op # "seed"
  OBVIOUS
<1>6. h.stage \notin Ended
  BY <1>4 DEF Ended
<1> HIDE DEF h
<1>7. call'[c] = h /\ call' \in [Callers -> CallRecords]
  BY <1>1, <1>2, <1>4 DEF Turns, CallTypes
<1>8. seen'[c].ever = Blockers'[x] /\ seen'[c].always = Blockers'[x] /\ Blockers'[x] \subseteq Kinds
  BY <1>1, <1>2, <1>3, <1>5, <1>6, <1>7, Watches, ActiveTypesNext
<1>9. StageFits(call[c])'
  BY <1>4, <1>5, <1>7 DEF StageFits
<1>10. RunsWell(call[c], seen[c])'
  BY <1>4, <1>5, <1>7, <1>8 DEF RunsWell, ToCount
<1>11. EndsWell(call[c], seen[c])'
  <2>1. Cardinality(h.took \ seen'[c].late) <= Cap
    BY <1>5, FS_EmptySet, DrainAssumption
  <2> QED
    BY <1>5, <1>6, <1>7, <2>1 DEF EndsWell, Ended
<1> QED
  BY <1>1, <1>3, <1>4, <1>9, <1>10, <1>11, CallerKeeps DEF CallOK

\* Nothing taken, nothing over the cap.
LEMMA NothingTaken == \A S : Cardinality({} \ S) <= Cap
BY FS_EmptySet, DrainAssumption

LEMMA GetStep == ASSUME DrainInv, NEW c \in Callers, Get(c) PROVE DrainInv'
<1> DEFINE old == call[c]
           x == old.on
           stage == CASE old.op = "tenant" -> IF x \in tenants THEN "children" ELSE "gone"
                      [] old.op = "user" /\ x \in deleted -> "gone"
                      [] OTHER -> "principal"
           found == IF old.op = "tenant" /\ x = Master THEN {"master"} ELSE {}
           h == [old EXCEPT !.stage = stage, !.found = found]
<1>1. /\ RowTypes /\ old \in CallRecords
      /\ StageFits(old) /\ RunsWell(old, seen[c]) /\ seen[c] \in SeenRecords
      /\ old.stage = "get" /\ Moves(c, h)
  BY CallerFacts DEF Get
<1>2. found \subseteq Kinds /\ stage \in {"children", "gone", "principal"}
      /\ (stage = "children" => old.op = "tenant")
      /\ (stage = "principal" => old.op # "tenant")
      /\ (old.op = "user" => found = {})
  BY DEF Kinds
<1>3. /\ old.op \in {"tenant", "user", "revokeAll"}
      /\ old.op = "tenant" => x \in Tenants
      /\ old.op \in {"user", "revokeAll"} => x \in Users
  BY <1>1 DEF StageFits, CallRecords, Ended
<1>4. /\ h \in CallRecords /\ h.stage = stage /\ h.found = found /\ h.on = x /\ h.op = old.op
      /\ h.took = old.took /\ old.stage \notin Ended /\ old.took = {}
  <2>1. stage \in Stages
    BY <1>2 DEF Stages, Ended
  <2> HIDE DEF stage, found
  <2> QED
    BY <1>1, <1>2, <2>1 DEF CallRecords, RunsWell, Ended
<1> HIDE DEF h
<1>5. StageFits(h)
  BY <1>2, <1>3, <1>4 DEF StageFits, Ended
<1>6. /\ seen[c].always \subseteq Blockers[x] /\ Blockers[x] \subseteq seen[c].ever
  BY <1>1, <1>4 DEF RunsWell
<1>7. old.op \in {"tenant", "user"} /\ stage # "gone" =>
        /\ found \subseteq Blockers[x]
        /\ Blockers[x] \subseteq found \union ToCount(stage)
        /\ x = Master => found # {}
  <2>1. CASE old.op = "tenant"
    <3>1. \A k : k \in Blockers[x] <=> k \in Kinds /\ Stands(k, x)
      BY <1>1, <1>3, <2>1, ActiveTypes
    <3>2. "master" \in Blockers[x] <=> x = Master
      BY <3>1 DEF Stands, Kinds
    <3>3. stage # "gone" => stage = "children"
      BY <2>1
    <3> QED
      BY <2>1, <3>1, <3>2, <3>3 DEF ToCount, Kinds
  <2>2. CASE old.op = "user"
    <3>1. Blockers[x] \subseteq {"bindings"} /\ x # Master
      BY <1>1, <1>3, <2>2, UserBlockers, DrainAssumption
    <3>2. stage # "gone" => stage = "principal"
      BY <2>2
    <3> QED
      BY <2>2, <3>1, <3>2 DEF ToCount
  <2> QED
    BY <2>1, <2>2
<1>8. ASSUME NEW s \in SeenRecords, s.ever = seen[c].ever, s.always = seen[c].always
      PROVE  CallOK(h, s)
  <2>1. RunsWell(h, s)
    <3>1. h.stage \notin Ended => stage # "gone" /\ stage # "write"
      BY <1>2, <1>4 DEF Ended
    <3> HIDE DEF stage, found
    <3> QED
      BY <1>2, <1>4, <1>6, <1>7, <1>8, <3>1 DEF RunsWell
  <2>2. EndsWell(h, s)
    BY <1>2, <1>3, <1>4, NothingTaken DEF EndsWell
  <2> QED
    BY <1>5, <2>1, <2>2 DEF CallOK
<1> QED
  BY <1>1, <1>4, <1>8, StatementKeeps

LEMMA FindPrincipalStep == ASSUME DrainInv, NEW c \in Callers, FindPrincipal(c) PROVE DrainInv'
<1> DEFINE old == call[c]
           x == old.on
           stage == IF x \in principals THEN "bindings"
                    ELSE IF old.op = "user" THEN "write" ELSE "done"
           h == [old EXCEPT !.stage = stage]
<1>1. /\ RowTypes /\ old \in CallRecords
      /\ StageFits(old) /\ RunsWell(old, seen[c]) /\ seen[c] \in SeenRecords
      /\ old.stage = "principal" /\ Moves(c, h)
  BY CallerFacts DEF FindPrincipal
<1>2. old.op \in {"user", "revokeAll"} /\ x \in Users /\ old.stage \notin Ended /\ old.took = {}
  BY <1>1 DEF StageFits, CallRecords, Ended, RunsWell
<1>3. /\ stage \in {"bindings", "write", "done"}
      /\ stage = "write" => old.op = "user" /\ x \notin principals
      /\ stage = "done" => old.op = "revokeAll"
  BY <1>2
<1> HIDE DEF stage
<1>4. /\ h \in CallRecords /\ h.stage = stage /\ h.found = old.found /\ h.on = x /\ h.op = old.op
      /\ h.took = {}
  BY <1>1, <1>2, <1>3 DEF CallRecords, Stages, Ended
<1> HIDE DEF h
<1>5. StageFits(h)
  BY <1>2, <1>3, <1>4 DEF StageFits, Ended
<1>6. /\ x # Master /\ Blockers[x] \subseteq {"bindings"}
      /\ stage = "write" => "bindings" \notin Blockers[x] /\ ActiveOf(x) = {}
  BY <1>1, <1>2, <1>3, UserBlockers, DrainAssumption
<1>7. ASSUME NEW s \in SeenRecords, s.ever = seen[c].ever, s.always = seen[c].always
      PROVE  CallOK(h, s)
  <2>1. /\ s.always \subseteq Blockers[x] /\ Blockers[x] \subseteq s.ever
        /\ old.op = "user" => old.found = {}
    BY <1>1, <1>2, <1>7 DEF RunsWell
  <2>2. ASSUME old.op = "user" PROVE RunsWell(h, s)
    <3>1. stage = "write" => s.always = {} /\ ActiveOf(x) = {}
      BY <1>6, <2>1
    <3>2. stage \in {"bindings", "write"} => s.always \subseteq ToCount(stage)
      BY <1>6, <2>1, <3>1 DEF ToCount
    <3> QED
      BY <1>2, <1>3, <1>4, <1>6, <2>1, <2>2, <3>1, <3>2 DEF RunsWell, Ended
  <2>3. ASSUME old.op = "revokeAll" PROVE RunsWell(h, s)
    BY <1>3, <1>4, <2>1, <2>3 DEF RunsWell
  <2>4. RunsWell(h, s)
    BY <1>2, <2>2, <2>3
  <2>5. EndsWell(h, s)
    BY <1>2, <1>3, <1>4, NothingTaken DEF EndsWell
  <2> QED
    BY <1>5, <2>4, <2>5 DEF CallOK
<1> QED
  BY <1>1, <1>2, <1>4, <1>7, StatementKeeps

LEMMA CountStep == ASSUME DrainInv, NEW c \in Callers, Count(c) PROVE DrainInv'
<1> DEFINE old == call[c]
           x == old.on
           k == old.stage
           found == old.found \union { j \in {k} : Counted(j, x) }
           stage == CASE k = "children" -> "keys"
                      [] k = "keys"     -> "bindings"
                      [] OTHER -> IF found = {} THEN "write" ELSE "refused"
           h == [old EXCEPT !.found = found, !.stage = stage]
<1>1. /\ RowTypes /\ old \in CallRecords
      /\ StageFits(old) /\ RunsWell(old, seen[c]) /\ seen[c] \in SeenRecords
      /\ k \in {"children", "keys", "bindings"} /\ old.op # "revokeAll" /\ Moves(c, h)
  BY CallerFacts DEF Count
<1>2. /\ old.op \in {"tenant", "user"} /\ old.stage \notin Ended /\ old.took = {}
      /\ old.op = "tenant" => x \in Tenants
      /\ old.op = "user" => x \in Users /\ k = "bindings"
  BY <1>1 DEF StageFits, CallRecords, Ended, RunsWell
<1>3. \A j : j \in Blockers[x] <=> j \in Kinds /\ Stands(j, x)
  BY <1>1, <1>2, ActiveTypes
<1>4. /\ old.found \subseteq found /\ found \subseteq old.found \union {k}
      /\ k \in found \ old.found => k \in Blockers[x]
      /\ k \in Blockers[x] => k \in found
      /\ k \in Kinds
  BY <1>1, <1>3 DEF Counted, Kinds
<1>5. /\ k = "children" => stage = "keys"
      /\ k = "keys" => stage = "bindings"
      /\ k = "bindings" => stage = IF found = {} THEN "write" ELSE "refused"
  BY <1>1
<1> HIDE DEF found, stage
<1>6. /\ h \in CallRecords /\ h.stage = stage /\ h.found = found /\ h.on = x /\ h.op = old.op
      /\ h.took = {}
  BY <1>1, <1>2, <1>4, <1>5 DEF CallRecords, Stages, Ended
<1> HIDE DEF h
<1>7. StageFits(h)
  BY <1>1, <1>2, <1>5, <1>6 DEF StageFits, Ended
<1>8. /\ seen[c].always \subseteq Blockers[x] /\ Blockers[x] \subseteq seen[c].ever
      /\ old.found \subseteq seen[c].ever
      /\ seen[c].always \subseteq old.found \union ToCount(k)
      /\ x = Master => old.found # {}
      /\ old.op = "user" => old.found = {}
  BY <1>1, <1>2 DEF RunsWell
<1>9. found \subseteq seen[c].ever /\ x = Master => found # {}
  BY <1>4, <1>8
<1>10. found \subseteq seen[c].ever
  BY <1>4, <1>8
<1>11. seen[c].always \subseteq found \union ToCount(stage)
  <2>1. ToCount(k) \subseteq ToCount(stage) \union {k}
    BY <1>1, <1>5 DEF ToCount
  <2> QED
    BY <1>4, <1>8, <2>1
<1>12. stage = "refused" => seen[c].always \subseteq found \union {"roles"}
  BY <1>11 DEF ToCount
<1>13. stage = "write" => k = "bindings" /\ found = {} /\ ActiveOf(x) = {}
  <2>1. stage = "write" => k = "bindings" /\ found = {}
    BY <1>1, <1>5
  <2> QED
    BY <1>3, <1>4, <2>1 DEF Stands
<1>14. stage = "refused" => found # {}
  BY <1>1, <1>5
<1>15. ASSUME NEW s \in SeenRecords, s.ever = seen[c].ever, s.always = seen[c].always
       PROVE  CallOK(h, s)
  <2>1. stage \in {"keys", "bindings", "write", "refused"} /\ (stage # "refused" /\ old.op = "user" => found = {})
    BY <1>1, <1>2, <1>5, <1>14
  <2>2. RunsWell(h, s)
    BY <1>2, <1>6, <1>8, <1>9, <1>10, <1>11, <1>13, <1>15, <2>1 DEF RunsWell, Ended
  <2>3. EndsWell(h, s)
    BY <1>2, <1>6, <1>10, <1>12, <1>14, <1>15, <2>1 DEF EndsWell
  <2> QED
    BY <1>7, <2>2, <2>3 DEF CallOK
<1> QED
  BY <1>1, <1>2, <1>6, <1>15, StatementKeeps

LEMMA CountToRevokeStep == ASSUME DrainInv, NEW c \in Callers, CountToRevoke(c) PROVE DrainInv'
<1> DEFINE old == call[c]
           n == Cardinality(ActiveOf(old.on))
           stage == CASE n > Cap -> "refused" [] n = 0 -> "done" [] OTHER -> "write"
           h == [old EXCEPT !.stage = stage]
<1>1. /\ RowTypes /\ old \in CallRecords /\ IsFiniteSet(bound)
      /\ StageFits(old) /\ RunsWell(old, seen[c]) /\ seen[c] \in SeenRecords
      /\ old.op = "revokeAll" /\ old.stage = "bindings" /\ Moves(c, h)
  BY CallerFacts DEF CountToRevoke
<1>2. IsFiniteSet(ActiveOf(old.on)) /\ n \in Nat
  BY <1>1, FS_Subset, FS_CardinalityType DEF ActiveOf, Active
<1>3. stage \in {"refused", "done", "write"} /\ (stage = "write" => n <= Cap)
  BY <1>2, DrainAssumption
<1> HIDE DEF stage
<1>4. /\ h \in CallRecords /\ h.stage = stage /\ h.found = old.found /\ h.on = old.on /\ h.op = old.op
      /\ h.took = {} /\ old.stage \notin Ended
  BY <1>1, <1>3 DEF CallRecords, Stages, Ended, RunsWell
<1> HIDE DEF h
<1>5. StageFits(h)
  BY <1>1, <1>3, <1>4 DEF StageFits, Ended
<1>6. stage = "write" => \A S : Cardinality(ActiveOf(old.on) \ S) <= Cap
  <2> SUFFICES ASSUME stage = "write", NEW S PROVE Cardinality(ActiveOf(old.on) \ S) <= Cap
    OBVIOUS
  <2>1. Cardinality(ActiveOf(old.on) \ S) <= n /\ Cardinality(ActiveOf(old.on) \ S) \in Nat
    BY <1>2, FS_Subset, FS_CardinalityType
  <2> HIDE DEF n
  <2> QED
    BY <1>2, <1>3, <2>1, DrainAssumption
<1>7. ASSUME NEW s \in SeenRecords, s.ever = seen[c].ever, s.always = seen[c].always
      PROVE  CallOK(h, s)
  <2>1. RunsWell(h, s)
    BY <1>1, <1>4, <1>6, <1>7 DEF RunsWell
  <2>2. EndsWell(h, s)
    BY <1>1, <1>4, NothingTaken DEF EndsWell
  <2> QED
    BY <1>5, <2>1, <2>2 DEF CallOK
<1> QED
  BY <1>1, <1>4, <1>7, StatementKeeps

LEMMA SeedLookStep == ASSUME DrainInv, NEW c \in Callers, SeedLook(c) PROVE DrainInv'
<1> DEFINE old == call[c]
           stage == IF AdminFound(old.on) THEN "done" ELSE "bind"
           h == [old EXCEPT !.stage = stage]
<1>1. /\ RowTypes /\ old \in CallRecords
      /\ StageFits(old) /\ RunsWell(old, seen[c]) /\ seen[c] \in SeenRecords
      /\ old.stage = "look" /\ Moves(c, h)
  BY CallerFacts DEF SeedLook
<1>2. /\ old.op = "seed" /\ old.on \in Users /\ old.on \in principals
      /\ old.stage \notin Ended /\ old.took = {}
  BY <1>1 DEF StageFits, CallRecords, Ended, RunsWell
<1>3. /\ h \in CallRecords /\ h.stage = stage /\ h.on = old.on /\ h.op = old.op /\ h.took = {}
  BY <1>1, <1>2 DEF CallRecords, Stages, Ended
<1>4. stage \in {"done", "bind"} /\ (stage = "done" => AdminBinding(old.on) \in bound \ revoked)
  BY DEF AdminFound
<1> HIDE DEF h, stage
<1>5. StageFits(h)
  BY <1>2, <1>3, <1>4 DEF StageFits, Ended
<1>6. ASSUME NEW s \in SeenRecords, s.ever = seen[c].ever, s.always = seen[c].always,
             h.stage \in Ended /\ AdminBinding(h.on) \in bound \ revoked => s.admin
      PROVE  CallOK(h, s)
  <2>1. RunsWell(h, s)
    BY <1>1, <1>2, <1>3, <1>6 DEF RunsWell
  <2>2. EndsWell(h, s)
    BY <1>2, <1>3, <1>4, <1>6 DEF EndsWell, Ended
  <2> QED
    BY <1>5, <2>1, <2>2 DEF CallOK
<1> QED
  BY <1>1, <1>2, <1>3, <1>6, StatementKeeps

\* A statement that writes and ends its call: the call is judged by what it has seen
\* before, and the seed's binding by the rows it leaves.
LEMMA EndsKeep ==
  ASSUME DrainInv, RowTypes', RowsMove, BoundTypes', Observe,
         NEW c \in Callers, NEW h \in CallRecords, Turns(c, h),
         call[c].stage \notin Ended, h.stage \in Ended, h.on = call[c].on, h.op = call[c].op,
         h.op # "seed" => EndsWell(h, seen[c]),
         h.op = "seed" =>
           AdminBinding(h.on) \in bound' /\ (h.stage = "done" => AdminBinding(h.on) \notin revoked')
  PROVE  DrainInv'
<1>1. /\ CallTypes /\ StageFits(call[c]) /\ h.op # "none"
  <2>1. call[c].op # "none"
    BY CallerFacts DEF StageFits, Ended
  <2> QED
    BY <2>1, CallerFacts
<1>2. call'[c] = h /\ call' \in [Callers -> CallRecords]
  BY <1>1 DEF Turns, CallTypes
<1>3. /\ seen'[c].ever = seen[c].ever /\ seen'[c].always = seen[c].always
      /\ seen'[c].late = seen[c].late
      /\ AdminBinding(h.on) \in bound' \ revoked' => seen'[c].admin
  BY <1>1, <1>2, Watches
<1>4. StageFits(call[c])'
  <2>1. h.stage \notin {"look", "bind"}
    BY DEF Ended
  <2> QED
    BY <1>1, <1>2, <2>1 DEF StageFits
<1>5. RunsWell(call[c], seen[c])'
  BY <1>2 DEF RunsWell
<1>6. EndsWell(call[c], seen[c])'
  <2>1. CASE h.op = "seed"
    BY <1>2, <1>3, <2>1 DEF EndsWell, AdminBinding
  <2>2. CASE h.op # "seed"
    <3>1. EndsWell(h, seen[c])
      BY <2>2
    <3> QED
      BY <1>2, <1>3, <2>2, <3>1 DEF EndsWell
  <2> QED
    BY <2>1, <2>2
<1> QED
  BY <1>4, <1>5, <1>6, CallerKeeps DEF CallOK

LEMMA RevokeAllStep == ASSUME DrainInv, NEW c \in Callers, RevokeAll(c) PROVE DrainInv'
<1> DEFINE old == call[c]
           h == [old EXCEPT !.stage = "done", !.took = ActiveOf(old.on)]
<1>1. /\ RowTypes /\ BoundTypes /\ AdminRole \in roles /\ IsFiniteSet(bound)
      /\ old \in CallRecords /\ RunsWell(old, seen[c])
      /\ old.op = "revokeAll" /\ old.stage = "write" /\ Turns(c, h) /\ Observe
      /\ revoked' = revoked \union ActiveOf(old.on)
      /\ UNCHANGED << tenants, dropped, keys, roles, principals, deleted, bound, expired, calls, txns >>
  BY CallerFacts DEF RevokeAll
<1>2. ActiveOf(old.on) \subseteq bound /\ ActiveOf(old.on) \subseteq Grants
  BY <1>1, ActiveTypes DEF ActiveOf
<1>3. RowTypes' /\ BoundTypes' /\ RowsMove
  BY <1>1, <1>2 DEF RowTypes, BoundTypes, RowsMove, Active
<1>4. /\ h \in CallRecords /\ h.stage = "done" /\ h.on = old.on /\ h.op = old.op
      /\ h.took = ActiveOf(old.on)
  BY <1>1, <1>2 DEF CallRecords, Stages, Ended
<1> HIDE DEF h
<1>5. EndsWell(h, seen[c])
  BY <1>1, <1>4 DEF EndsWell, RunsWell, Ended
<1> QED
  BY <1>1, <1>3, <1>4, <1>5, EndsKeep DEF Ended

LEMMA DeleteUserStep == ASSUME DrainInv, NEW c \in Callers, DeleteUser(c) PROVE DrainInv'
<1> DEFINE old == call[c]
           u == old.on
           h == IF u \in deleted THEN [old EXCEPT !.stage = "gone"]
                ELSE [old EXCEPT !.stage = "done", !.took = ActiveOf(u)]
<1>1. /\ RowTypes /\ BoundTypes /\ AdminRole \in roles /\ IsFiniteSet(bound)
      /\ old \in CallRecords /\ RunsWell(old, seen[c]) /\ StageFits(old)
      /\ old.op = "user" /\ old.stage = "write" /\ Turns(c, h) /\ Observe
      /\ deleted' = deleted \union {u}
      /\ UNCHANGED << tenants, dropped, keys, roles, principals, bound, revoked, expired, calls, txns >>
  BY CallerFacts DEF DeleteUser
<1>2. u \in Users /\ ActiveOf(u) \subseteq Grants
  BY <1>1, ActiveTypes DEF StageFits
<1>3. RowTypes' /\ BoundTypes' /\ RowsMove
  BY <1>1, <1>2 DEF RowTypes, BoundTypes, RowsMove, Active
<1>4. /\ h \in CallRecords /\ h.stage \in {"gone", "done"} /\ h.on = u /\ h.op = old.op
      /\ h.stage = "done" => h.took = ActiveOf(u)
  BY <1>1, <1>2 DEF CallRecords, Stages, Ended
<1> HIDE DEF h
<1>5. ActiveOf(u) \subseteq seen[c].late /\ seen[c].always = {}
  <2>1. /\ ActiveOf(u) \subseteq seen[c].late /\ seen[c].always \subseteq Blockers[u]
        /\ seen[c].always \subseteq ToCount("write") /\ old.found = {}
    BY <1>1 DEF RunsWell, Ended
  <2>2. Blockers[u] \subseteq {"bindings"}
    BY <1>1, <1>2, UserBlockers
  <2> QED
    BY <2>1, <2>2 DEF ToCount
<1>6. EndsWell(h, seen[c])
  BY <1>1, <1>4, <1>5 DEF EndsWell
<1> QED
  BY <1>1, <1>3, <1>4, <1>6, EndsKeep DEF Ended

\* The DELETE keeps the foreign keys: what is restricted keeps the tenant, and the
\* cascade takes the rest.
LEMMA DeleteTenantStep == ASSUME DrainInv, NEW c \in Callers, DeleteTenant(c) PROVE DrainInv'
<1> DEFINE old == call[c]
           t == old.on
           with == { b \in bound : b[3] = t }
           gone == [old EXCEPT !.stage = "gone"]
           fails == [old EXCEPT !.stage = "failed", !.found = Restricted(t)]
           done == [old EXCEPT !.stage = "done", !.took = with \intersect Active]
<1>1. /\ RowTypes /\ BoundTypes /\ AdminRole \in roles /\ IsFiniteSet(bound)
      /\ old \in CallRecords /\ RunsWell(old, seen[c]) /\ StageFits(old)
      /\ old.op = "tenant" /\ old.stage = "write" /\ Observe
      /\ UNCHANGED << keys, principals, deleted, calls, txns >>
  BY CallerFacts DEF DeleteTenant
<1>2. /\ t \in Tenants /\ t # Master /\ old.took = {}
      /\ ActiveOf(t) \subseteq seen[c].late
      /\ seen[c].always \subseteq Blockers[t] /\ Blockers[t] \subseteq seen[c].ever
      /\ seen[c].always \subseteq {"roles"}
  BY <1>1 DEF StageFits, RunsWell, Ended, ToCount
<1>3. /\ Restricted(t) \subseteq Blockers[t] /\ Restricted(t) \subseteq Kinds
      /\ "roles" \in Blockers[t] => "roles" \in Restricted(t)
  BY <1>1, <1>2, ActiveTypes DEF Restricted, Kinds
<1>4. CASE \/ t \notin tenants /\ Turns(c, gone) /\ UNCHANGED << tenants, dropped, roles, bound, revoked, expired >>
           \/ Turns(c, fails) /\ UNCHANGED << tenants, dropped, roles, bound, revoked, expired >>
  <2>1. RowTypes' /\ BoundTypes' /\ RowsMove
    BY <1>1, <1>4 DEF RowTypes, BoundTypes, RowsMove, Active
  <2>2. /\ gone \in CallRecords /\ gone.stage = "gone" /\ gone.on = t /\ gone.op = "tenant"
        /\ fails \in CallRecords /\ fails.stage = "failed" /\ fails.on = t /\ fails.op = "tenant"
        /\ fails.found = Restricted(t)
    BY <1>1, <1>3 DEF CallRecords, Stages, Ended
  <2> HIDE DEF gone, fails
  <2>3. EndsWell(gone, seen[c]) /\ EndsWell(fails, seen[c])
    BY <1>2, <1>3, <2>2 DEF EndsWell
  <2>4. CASE Turns(c, gone)
    BY <1>1, <2>1, <2>2, <2>3, <2>4, EndsKeep DEF Ended
  <2>5. CASE Turns(c, fails)
    BY <1>1, <2>1, <2>2, <2>3, <2>5, EndsKeep DEF Ended
  <2> QED
    BY <1>4, <2>4, <2>5
<1>5. CASE /\ t \in tenants /\ Restricted(t) = {} /\ Turns(c, done)
           /\ tenants' = tenants \ {t} /\ dropped' = dropped \union {t}
           /\ roles' = { r \in roles : RoleTenant[r] # t }
           /\ bound' = bound \ with /\ revoked' = revoked \ with /\ expired' = expired \ with
  <2>1. Children(t) = {} /\ KeysAt(t) = {} /\ UsedElsewhere(t) = {}
    BY <1>5 DEF Restricted, Stands
  <2>2. /\ \A s \in tenants \ {Master} : Parent[s] # t
        /\ \A k \in keys : KeyTenant[k] # t
        /\ \A b \in bound \ with : RoleTenant[b[2]] # t /\ b[3] # t
    BY <2>1 DEF Children, KeysAt, UsedElsewhere
  <2>3. RowTypes'
    BY <1>1, <1>2, <1>5, <2>2 DEF RowTypes
  <2>4. RowsMove
    <3>1. IsFiniteSet(bound')
      BY <1>1, <1>5, FS_Subset
    <3>2. AdminRole \in roles' /\ \A b \in bound : b[3] = Master => b \in bound'
      BY <1>1, <1>2, <1>5, DrainAssumption
    <3>3. Active' \subseteq Active
      BY <1>5 DEF Active
    <3> QED
      BY <1>1, <3>1, <3>2, <3>3 DEF RowsMove
  <2>5. BoundTypes'
    BY <1>1 DEF BoundTypes
  <2>6. with \intersect Active \subseteq ActiveOf(t) /\ ActiveOf(t) \subseteq Grants
    BY <1>1, ActiveTypes DEF ActiveOf
  <2>7. /\ done \in CallRecords /\ done.stage = "done" /\ done.on = t /\ done.op = "tenant"
        /\ done.took \subseteq ActiveOf(t)
    BY <1>1, <2>6 DEF CallRecords, Stages, Ended
  <2> HIDE DEF done
  <2>8. seen[c].always = {}
    BY <1>2, <1>3, <1>5
  <2>9. EndsWell(done, seen[c])
    BY <1>2, <2>7, <2>8 DEF EndsWell
  <2> QED
    BY <1>1, <1>5, <2>3, <2>4, <2>5, <2>7, <2>9, EndsKeep DEF Ended
<1> QED
  BY <1>4, <1>5 DEF DeleteTenant

LEMMA SeedEnsureStep == ASSUME DrainInv, NEW c \in Callers, SeedEnsure(c) PROVE DrainInv'
<1> DEFINE old == call[c]
           h == [old EXCEPT !.stage = "look"]
<1>1. /\ RowTypes /\ CallTypes /\ BoundTypes /\ AdminRole \in roles /\ IsFiniteSet(bound)
      /\ old \in CallRecords /\ RunsWell(old, seen[c]) /\ StageFits(old)
      /\ old.stage = "ensure" /\ Turns(c, h) /\ Observe
      /\ principals' = principals \union {old.on}
      /\ UNCHANGED << tenants, dropped, keys, roles, deleted, bound, revoked, expired, calls, txns >>
  BY CallerFacts DEF SeedEnsure
<1>2. old.op = "seed" /\ old.on \in Users /\ old.took = {}
  BY <1>1 DEF StageFits, CallRecords, RunsWell, Ended
<1>3. RowTypes' /\ BoundTypes' /\ RowsMove
  BY <1>1, <1>2 DEF RowTypes, BoundTypes, RowsMove, Active
<1>4. /\ h \in CallRecords /\ h.stage = "look" /\ h.on = old.on /\ h.op = "seed" /\ h.took = {}
  BY <1>1, <1>2 DEF CallRecords, Stages
<1> HIDE DEF h
<1>5. call'[c] = h /\ call' \in [Callers -> CallRecords]
  BY <1>1, <1>4 DEF Turns, CallTypes
<1>6. StageFits(call[c])'
  BY <1>1, <1>2, <1>4, <1>5 DEF StageFits
<1>7. /\ seen'[c].always \subseteq Blockers'[h.on] /\ Blockers'[h.on] \subseteq seen'[c].ever
  BY <1>1, <1>3, <1>4, <1>5, Watches DEF Ended
<1>8. RunsWell(call[c], seen[c])'
  BY <1>4, <1>5, <1>7 DEF RunsWell
<1>9. EndsWell(call[c], seen[c])'
  BY <1>4, <1>5 DEF EndsWell
<1> QED
  BY <1>1, <1>3, <1>4, <1>6, <1>8, <1>9, CallerKeeps DEF CallOK

\* The binding fails on the unique index only: the role and the tenant stay, and so
\* does the principal.
LEMMA SeedBindStep == ASSUME DrainInv, NEW c \in Callers, SeedBind(c) PROVE DrainInv'
<1> DEFINE old == call[c]
           b == AdminBinding(old.on)
           h == [old EXCEPT !.stage = IF MayBind(b) THEN "done" ELSE "failed"]
<1>1. /\ RowTypes /\ BoundTypes /\ AdminRole \in roles /\ IsFiniteSet(bound)
      /\ old \in CallRecords /\ RunsWell(old, seen[c]) /\ StageFits(old)
      /\ old.stage = "bind" /\ Turns(c, h) /\ Observe
      /\ bound' = bound \union {b}
      /\ UNCHANGED << tenants, dropped, keys, roles, principals, deleted, revoked, expired, calls, txns >>
  BY CallerFacts DEF SeedBind
<1>2. old.op = "seed" /\ old.on \in principals
  BY <1>1 DEF StageFits, CallRecords, Ended
<1>3. RowTypes' /\ BoundTypes'
  BY <1>1, <1>2 DEF RowTypes, BoundTypes, AdminBinding
<1>4. RowsMove
  BY <1>1, FS_AddElement DEF RowsMove, Active
<1>5. MayBind(b) => b \notin revoked
  BY <1>1 DEF MayBind, RowTypes
<1>6. /\ h \in CallRecords /\ h.stage \in {"done", "failed"}
      /\ h.stage = "done" => MayBind(b)
      /\ h.on = old.on /\ h.op = "seed"
  BY <1>1, <1>2 DEF CallRecords, Stages, Ended
<1> HIDE DEF h
<1> QED
  BY <1>1, <1>2, <1>3, <1>4, <1>5, <1>6, EndsKeep DEF Ended

-----------------------------------------------------------------------------
(* The theorems *)

LEMMA DrainInit == Init => DrainInv
<1> SUFFICES ASSUME Init PROVE DrainInv
  OBVIOUS
<1>1. RowTypes /\ BoundTypes
  BY DrainAssumption DEF Init, RowTypes, BoundTypes
<1>2. Idle \in CallRecords /\ Nothing \in SeenRecords
  BY DrainAssumption DEF CallRecords, SeenRecords, Idle, Nothing, Stages, Ended
<1>3. CallTypes
  BY <1>2 DEF Init, CallTypes
<1>4. CallOK(Idle, Nothing)
  BY DEF CallOK, StageFits, RunsWell, EndsWell, Idle, Ended
<1>5. \A c \in Callers : CallOK(call[c], seen[c])
  BY <1>4 DEF Init
<1>6. AdminRole \in roles /\ IsFiniteSet(bound)
  BY FS_EmptySet DEF Init
<1> QED
  BY <1>1, <1>3, <1>5, <1>6, TypeParts DEF DrainInv

LEMMA DrainStep == DrainInv /\ [Next]_vars => DrainInv'
<1> SUFFICES ASSUME DrainInv, [Next]_vars PROVE DrainInv'
  OBVIOUS
<1>1. CASE UNCHANGED vars
  <2>1. /\ UNCHANGED << tenants, dropped, keys, roles, principals, deleted, bound, revoked, expired >>
        /\ UNCHANGED << call, seen, calls, txns >>
    BY <1>1 DEF vars, rowVars
  <2>2. TypeOK'
    BY <2>1 DEF DrainInv, TypeOK
  <2>3. /\ Blockers' = Blockers
        /\ \A x : ActiveOf(x)' = ActiveOf(x)
        /\ \A x : AdminBinding(x)' = AdminBinding(x)
    BY <2>1 DEF Active, Blockers, Stands, Children, KeysAt, ActiveOf, UsedElsewhere, AdminBinding
  <2>4. ASSUME NEW c \in Callers PROVE CallOK(call[c], seen[c])'
    <3>1. StageFits(call[c]) /\ RunsWell(call[c], seen[c]) /\ EndsWell(call[c], seen[c])
      BY CallerFacts
    <3>2. StageFits(call[c])'
      BY <2>1, <3>1 DEF StageFits
    <3>3. RunsWell(call[c], seen[c])'
      BY <2>1, <2>3, <3>1 DEF RunsWell, ToCount
    <3>4. EndsWell(call[c], seen[c])'
      BY <2>1, <2>3, <3>1 DEF EndsWell
    <3> QED
      BY <3>2, <3>3, <3>4 DEF CallOK
  <2> QED
    BY <2>1, <2>2, <2>4 DEF DrainInv
<1>2. CASE Others
  BY <1>2, OthersStep
<1>3. ASSUME NEW c \in Callers, CallStep(c) PROVE DrainInv'
  <2>1. ASSUME NEW t \in Tenants, Begin(c, "tenant", t) PROVE DrainInv'
    BY <2>1, BeginStep
  <2>2. ASSUME NEW u \in Users, NEW op \in {"user", "revokeAll", "seed"}, Begin(c, op, u)
        PROVE  DrainInv'
    BY <2>2, BeginStep
  <2>3. CASE Get(c) \/ FindPrincipal(c) \/ Count(c) \/ CountToRevoke(c)
    BY <2>3, GetStep, FindPrincipalStep, CountStep, CountToRevokeStep
  <2>4. CASE RevokeAll(c) \/ DeleteUser(c) \/ DeleteTenant(c)
    BY <2>4, RevokeAllStep, DeleteUserStep, DeleteTenantStep
  <2>5. CASE SeedEnsure(c) \/ SeedLook(c) \/ SeedBind(c)
    BY <2>5, SeedEnsureStep, SeedLookStep, SeedBindStep
  <2> QED
    BY <1>3, <2>1, <2>2, <2>3, <2>4, <2>5 DEF CallStep
<1> QED
  BY <1>1, <1>2, <1>3 DEF Next

\* The foreign keys hold whichever creators, deletions, revokes and seeds overlap, each
\* statement of them on its own.
THEOREM RowsReferToRows == Spec => []TypeOK
<1>1. DrainInv => TypeOK
  BY DEF DrainInv
<1> QED
  BY <1>1, DrainInit, DrainStep, PTL DEF Spec

\* An active binding that a deletion takes along was granted after its count.
THEOREM OnlyLateGrantsAreTaken == Spec => []DrainedButForLateGrants
<1>1. DrainInv => DrainedButForLateGrants
  BY DEF DrainInv, CallOK, EndsWell, DrainedButForLateGrants
<1> QED
  BY <1>1, DrainInit, DrainStep, PTL DEF Spec

\* revokeAllBindings revokes no more than its cap, but for what came after its count.
THEOREM RevokesAreCapped == Spec => []RevokesWithinCap
<1>1. DrainInv => RevokesWithinCap
  BY DEF DrainInv, CallOK, EndsWell, RevokesWithinCap
<1> QED
  BY <1>1, DrainInit, DrainStep, PTL DEF Spec

\* A refusal names blockers there were and leaves out none that stood all the time, and
\* no deletion gets past one that did.
THEOREM RefusalsAreTrue == Spec => []BlockersToldTruly
<1>1. DrainInv => BlockersToldTruly
  BY DEF DrainInv, CallOK, EndsWell, BlockersToldTruly
<1> QED
  BY <1>1, DrainInit, DrainStep, PTL DEF Spec

\* A seed that succeeds has met the admin's binding unrevoked, and one that fails has
\* met it revoked or bound by another.
THEOREM SeedsAreTrue == Spec => []SeedsEndTruly
<1>1. DrainInv => SeedsEndTruly
  BY DEF DrainInv, CallOK, EndsWell, SeedsEndTruly
<1> QED
  BY <1>1, DrainInit, DrainStep, PTL DEF Spec
=============================================================================
