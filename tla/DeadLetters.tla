----------------------------- MODULE DeadLetters -----------------------------
(***************************************************************************)
(* Operators at the dead letters.  Each call of the service is one         *)
(* transaction at READ COMMITTED: a filter is counted, then its ids are    *)
(* looked up, then the rows are read one by one for the audit log, and     *)
(* then one statement revives or deletes what is still dead and commits    *)
(* with its audit entries.  Between these statements the worker buries     *)
(* more events, and other operators revive and purge.  Readers walk the    *)
(* list page by page meanwhile.                                            *)
(***************************************************************************)
EXTENDS Pagination

CONSTANTS
  Ids,         \* events, positive numbers in the order of their ids
  TypeOf,      \* event_type of each
  Operators,   \* concurrent calls
  Cap,         \* BULK_CAP
  Limit,       \* page size of the reader
  MaxDeaths,   \* bound: events that run out of attempts, counted again after a revive
  MaxCalls     \* bound: calls and walks in a behaviour

ASSUME DeadLettersAssumption ==
  /\ Ids \subseteq Nat \ {0} /\ IsFiniteSet(Ids)
  /\ DOMAIN TypeOf = Ids
  /\ Cap \in Nat \ {0} /\ Limit \in Nat \ {0}
  /\ MaxDeaths \in Nat /\ MaxCalls \in Nat

VARIABLES
  rows,     \* events still in the table
  deadAt,   \* column dead_at: the moment of the last death, 0 while pending
  clock,    \* the moment of the latest death
  audit,    \* entries of the audit log: the snapshot in `before` (0 if null), and what
            \* dead_at really was when the statement ran
  call,     \* what each operator's call is doing
  reader,   \* a walk over the pages
  died,     \* history: the moments at which each event died
  stays,    \* history: matches of a call that have stood since its count and are left
  grew,     \* history: calls whose filter found a new match since its count
  calls     \* bound

tableVars == << rows, deadAt, clock, audit, died >>
vars == << tableVars, call, reader, stays, grew, calls >>

Dead == { e \in rows : deadAt[e] # 0 }

Types == { TypeOf[e] : e \in Ids }

\* deadFilterPredicates: a type, and the latest dead_at.
Matching(f) == { e \in Dead : TypeOf[e] \in f.types /\ deadAt[e] <= f.until }

\* deadBefore is a moment that has passed, or is not given; a type is given or not.
Filters == [types : { Types } \union { { t } : t \in Types }, until : { clock, MaxDeaths }]

Everything == [types |-> Types, until |-> MaxDeaths]

\* The snapshot of each event, 0 for none.
NoSnapshots == [e \in Ids |-> 0]

Idle == [op |-> "none", stage |-> "idle", by |-> "ids", filter |-> Everything,
         ids |-> {}, left |-> {}, before |-> NoSnapshots, hit |-> {}]

\* `got` counts how often each event was returned.
Walk == [stage |-> "idle", filter |-> Everything, cursor |-> NoCursor, got |-> [e \in Ids |-> 0],
         dead |-> {}]

Init ==
  /\ rows = Ids /\ deadAt = [e \in Ids |-> 0] /\ clock = 0
  /\ audit = {} /\ died = [e \in Ids |-> {}]
  /\ call = [o \in Operators |-> Idle]
  /\ reader = Walk
  /\ stays = [o \in Operators |-> {}] /\ grew = {}
  /\ calls = 0

\* Every step is watched by the calls that have counted their filter.
Counted == { o \in Operators : /\ call[o].by = "filter"
                               /\ call[o].stage \in {"find", "read", "write"} }

Observe ==
  /\ stays' = [o \in Operators |->
       IF o \in Counted THEN { e \in stays[o] : e \in rows' /\ deadAt'[e] = deadAt[e] }
       ELSE IF call'[o].stage = "find" THEN Matching(call[o].filter)
       ELSE IF call'[o].stage = "done" THEN stays[o] ELSE {}]
  /\ grew' = { o \in Operators :
       \/ o \in grew /\ call'[o].stage # "idle"
       \/ /\ call[o].stage = "find"
          /\ \E e \in Ids : /\ deadAt'[e] \notin {0, deadAt[e]}
                            /\ TypeOf[e] \in call[o].filter.types
                            /\ deadAt'[e] <= call[o].filter.until }

Turns(o, h) == call' = [call EXCEPT ![o] = h]

\* A statement that only reads.
Moves(o, h) == Turns(o, h) /\ UNCHANGED << tableVars, reader, calls >> /\ Observe

-----------------------------------------------------------------------------
\* The worker: an event runs out of attempts, or is processed and is no concern
\* of these calls any more.
Dies(e) ==
  /\ e \in rows /\ deadAt[e] = 0 /\ clock < MaxDeaths
  /\ clock' = clock + 1
  /\ deadAt' = [deadAt EXCEPT ![e] = clock + 1]
  /\ died' = [died EXCEPT ![e] = @ \union {clock + 1}]
  /\ UNCHANGED << rows, audit, call, reader, calls >>
  /\ Observe

Succeeds(e) ==
  /\ e \in rows /\ deadAt[e] = 0
  /\ rows' = rows \ {e}
  /\ UNCHANGED << deadAt, clock, audit, died, call, reader, calls >>
  /\ Observe

-----------------------------------------------------------------------------
(* resolveSelector.  A single call is a call by one id.  A call over the   *)
(* cap answers at once.                                                     *)

\* After the ids are known, only a revive reads the rows before it writes.
Resolved(h, ids) ==
  [h EXCEPT !.ids = ids, !.left = ids,
            !.stage = IF h.op = "revive" /\ ids # {} THEN "read" ELSE "write"]

\* Mutation: a list of ids is taken at any length.
ByIds_Uncapped(op, ids) == Resolved([Idle EXCEPT !.op = op], ids)

ByIds(op, ids) ==
  IF Cardinality(ids) > Cap THEN Idle
  ELSE Resolved([Idle EXCEPT !.op = op], ids)

Begin(o) ==
  /\ call[o].stage = "idle" /\ calls < MaxCalls
  /\ \E op \in {"revive", "purge"} :
       \/ \E ids \in (SUBSET Ids) \ {{}} : Turns(o, ByIds(op, ids))
       \/ \E f \in Filters :
            Turns(o, [Idle EXCEPT !.op = op, !.stage = "count", !.by = "filter", !.filter = f])
  /\ calls' = calls + 1
  /\ UNCHANGED << tableVars, reader >>
  /\ Observe

\* countDeadMatching
Count(o) ==
  /\ call[o].stage = "count"
  /\ Moves(o, IF Cardinality(Matching(call[o].filter)) > Cap THEN Idle
              ELSE [call[o] EXCEPT !.stage = "find"])

\* Mutation: the limit of the query is one less than the cap.
FindDeadIdsMatching_Less(filter) == Newest(Matching(filter), Cap - 1)

FindDeadIdsMatching(filter) == Newest(Matching(filter), Cap)

Find(o) ==
  /\ call[o].stage = "find"
  /\ Moves(o, Resolved(call[o], FindDeadIdsMatching(call[o].filter)))

\* getDead, one id after the other: what is not dead leaves no snapshot.
Read(o) ==
  /\ call[o].stage = "read"
  /\ \E e \in call[o].left :
       Moves(o, [call[o] EXCEPT !.left = @ \ {e},
                   !.before[e] = IF e \in Dead THEN deadAt[e] ELSE 0,
                   !.stage = IF call[o].left = {e} THEN "write" ELSE "read"])

\* Mutation: the statement takes every row of the list.
Hit_Any(ids) == ids \intersect rows

\* The rows an update or delete takes: dead ones, when the statement runs.
Hit(ids) == ids \intersect Dead

\* Mutation: snapshots and updated rows are paired by their position.
Entries_ByPosition(h) ==
  { [act |-> h.op, id |-> e, was |-> deadAt[e],
     before |-> IF h.op = "purge" THEN deadAt[e]
                ELSE IF h.before = NoSnapshots THEN 0
                ELSE h.before[CHOOSE d \in Ids : h.before[d] # 0]] : e \in Hit(h.ids) }

\* One entry per row: a deleted row is its own snapshot.
Entries(h) ==
  { [act |-> h.op, id |-> e, was |-> deadAt[e],
     before |-> IF h.op = "purge" THEN deadAt[e] ELSE h.before[e]] : e \in Hit(h.ids) }

\* reviveBulk, purgeBulk and the audit entries, and the commit.
Write(o) ==
  LET h == call[o]
  IN  /\ h.stage = "write"
      /\ rows' = IF h.op = "purge" THEN rows \ Hit(h.ids) ELSE rows
      /\ deadAt' = [e \in Ids |-> IF e \in Hit(h.ids) THEN 0 ELSE deadAt[e]]
      /\ audit' = audit \union Entries(h)
      /\ Turns(o, [h EXCEPT !.stage = "done", !.hit = Hit(h.ids)])
      /\ UNCHANGED << clock, died, reader, calls >>
      /\ Observe

\* A statement fails, and with it the transaction; or the call has answered.
Ends(o) ==
  /\ call[o].stage # "idle"
  /\ Moves(o, Idle)

-----------------------------------------------------------------------------
\* pageDead, page after page.  `dead` is what has matched since the walk began.
Page ==
  /\ \/ reader.stage = "walking"
     \/ reader.stage = "idle" /\ calls < MaxCalls
  /\ \E f \in IF reader.stage = "idle" THEN Filters ELSE { reader.filter } :
       LET page  == PageDescending(Matching(f), reader.cursor, Limit)
           since == IF reader.stage = "idle" THEN { [id |-> e, at |-> deadAt[e]] : e \in Matching(f) }
                    ELSE reader.dead
       IN  reader' = [stage |-> IF page.next = NoCursor THEN "done" ELSE "walking",
                      filter |-> f, cursor |-> page.next,
                      got |-> [e \in Ids |-> reader.got[e] + IF e \in page.items THEN 1 ELSE 0],
                      dead |-> { r \in since : r.id \in Dead /\ deadAt[r.id] = r.at }]
  /\ calls' = IF reader.stage = "idle" THEN calls + 1 ELSE calls
  /\ UNCHANGED << tableVars, call >>
  /\ Observe

Next ==
  \/ \E e \in Ids : Dies(e) \/ Succeeds(e)
  \/ \E o \in Operators : Begin(o) \/ Count(o) \/ Find(o) \/ Read(o) \/ Write(o)
                            \/ Ends(o)
  \/ Page

Spec == Init /\ [][Next]_vars

-----------------------------------------------------------------------------
FilterRecords == [types : SUBSET Types, until : Nat]

CallRecords ==
  [op : {"none", "revive", "purge"}, stage : {"idle", "count", "find", "read", "write", "done"},
   by : {"ids", "filter"}, filter : FilterRecords, ids : SUBSET Ids, left : SUBSET Ids,
   before : [Ids -> Nat], hit : SUBSET Ids]

WalkRecords ==
  [stage : {"idle", "walking", "done"}, filter : FilterRecords, cursor : Ids \union {NoCursor},
   got : [Ids -> Nat], dead : SUBSET [id : Ids, at : Nat]]

EntryRecords == [act : {"revive", "purge"}, id : Ids, was : Nat, before : Nat]

\* The variables keep their shape; no call names more than BULK_CAP events, and
\* the dead_at of an event, which has a row then, is the latest of its deaths.
TypeOK ==
  /\ rows \subseteq Ids /\ deadAt \in [Ids -> Nat] /\ clock \in Nat
  /\ audit \subseteq EntryRecords /\ died \in [Ids -> SUBSET (1..clock)]
  /\ call \in [Operators -> CallRecords] /\ reader \in WalkRecords
  /\ stays \in [Operators -> SUBSET Ids] /\ grew \subseteq Operators /\ calls \in Nat
  /\ \A e \in Ids : deadAt[e] # 0 =>
       e \in rows /\ deadAt[e] \in died[e] /\ \A d \in died[e] : d <= deadAt[e]
  /\ \A o \in Operators : Cardinality(call[o].ids) <= Cap /\ call[o].hit \subseteq call[o].ids

\* However revives, purges and the worker interleave, the audit log tells of
\* every death that an operator undid or removed, exactly once, and of nothing
\* else: a call commits with its entries, and skips what is not dead any more.
EveryDeathLogged ==
  \A e \in Ids :
    LET told == { x \in audit : x.id = e }
    IN  /\ { x.was : x \in told } = died[e] \ {deadAt[e]}
        /\ \A x, y \in told : x.was = y.was => x = y

\* The snapshot of a revive is read before the update.  Where it is not of the
\* death that was undone, it is missing or of an earlier death, and then the log
\* holds the entry of the call that undid that one in between.
SnapshotsAreEarlier ==
  \A x \in audit : x.before # x.was =>
    \/ x.before = 0
    \/ x.before < x.was /\ \E y \in audit : y.id = x.id /\ y.was = x.before

\* A bulk call by filter takes every match that has stood since the count, though
\* the ids are looked up by a later statement under the cap; a match may be left
\* only when others joined in between and the lookup was cut at the cap.
BulkTakesAllOrCap ==
  \A o \in Operators : call[o].by = "filter" /\ call[o].stage = "done" =>
    \/ stays[o] = {}
    \/ o \in grew /\ Cardinality(call[o].ids) = Cap

\* A walk over the pages returns no event twice, and every one that stayed dead
\* while it went on, whatever dies, is revived or is purged between two pages.
WalkIsComplete ==
  reader.stage = "done" =>
    /\ \A e \in Ids : reader.got[e] <= 1
    /\ \A r \in reader.dead : reader.got[r.id] = 1

\* Where an event stands in the contract of module Delivery.
StatusOf(e) ==
  IF e \in Dead THEN "dead"
  ELSE IF e \in rows THEN "pending"
  ELSE IF \E x \in audit : x.id = e /\ x.act = "purge" THEN "purged" ELSE "done"

Contract == INSTANCE Delivery WITH Events <- Ids, delivered <- Ids,
                                   status <- [e \in Ids |-> StatusOf(e)]

ContractStep(S) ==
  Contract!Revive(S) \/ Contract!Purge(S) \/ \E e \in S : Contract!Settle(e)

\* A call of four statements or more is to everybody else one revive or one purge of
\* the contract, and of dead letters only: nothing pending is discarded, nothing
\* discarded or processed comes back, and the log says which of the two has happened.
CallsAreOneStep ==
  [][\/ UNCHANGED << rows, deadAt, audit >>
     \/ ContractStep({ e \in Ids : StatusOf(e)' # StatusOf(e) })]_vars
=============================================================================
