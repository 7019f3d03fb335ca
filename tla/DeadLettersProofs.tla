-------------------------- MODULE DeadLettersProofs --------------------------
(***************************************************************************)
(* The dead letters, for any events, operators, cap and page size: the     *)
(* audit log against the deaths that were undone, the snapshots, what a    *)
(* bulk call takes, and a walk over the pages.                             *)
(***************************************************************************)
EXTENDS DeadLetters, FiniteSetTheorems, WellFoundedInduction, TLAPS

-----------------------------------------------------------------------------
(* Rows in the order of their ids.                                         *)

\* A finite set of ids that is not empty has a first and a last member.
LEMMA HasEnds ==
  ASSUME NEW S \in SUBSET Nat, IsFiniteSet(S), S # {}
  PROVE  /\ \E m \in S : \A i \in S : m <= i
         /\ \E m \in S : \A i \in S : i <= m
<1> DEFINE Below(m) == { i \in S : i < m }
           Above(m) == { i \in S : i > m }
           R == StrictSubsetOrdering(S)
<1>0. /\ \A i \in S : i \in Nat /\ ~(i < i) /\ ~(i > i)
      /\ \A i, j \in S : (i < j <=> j > i) /\ (~(i <= j) <=> j < i) /\ (i # j => i < j \/ j < i)
      /\ \A i, j, k \in S : i < j /\ j < k => i < k
  OBVIOUS
<1>1. IsWellFoundedOn(R, FiniteSubsetsOf(S))
  BY FS_StrictSubsetOrderingWellFounded
<1>2. \A T \in SUBSET S : T \in FiniteSubsetsOf(S)
  BY FS_Subset DEF FiniteSubsetsOf
<1>3. \A U, T \in SUBSET S : U \subseteq T /\ U # T => << U, T >> \in R
  BY DEF StrictSubsetOrdering
<1> HIDE DEF R
<1>4. \E m \in S : \A i \in S : m <= i
  <2> DEFINE C == { Below(m) : m \in S }
  <2>1. C \subseteq FiniteSubsetsOf(S) /\ C # {}
    BY <1>2
  <2>2. PICK T \in C : \A U \in C : ~ (<< U, T >> \in R)
    BY <1>1, <2>1, WFMin
  <2>3. PICK m \in S : T = Below(m)
    OBVIOUS
  <2>4. ASSUME NEW i \in S, ~(m <= i) PROVE FALSE
    <3>1. i < m
      BY <1>0, <2>3, <2>4
    <3>2. Below(i) \subseteq T /\ i \in T /\ i \notin Below(i)
      BY <1>0, <2>3, <3>1
    <3>3. << Below(i), T >> \in R
      BY <1>3, <2>3, <3>2
    <3> QED
      BY <2>2, <3>3
  <2> QED
    BY <2>3, <2>4
<1>5. \E m \in S : \A i \in S : i <= m
  <2> DEFINE C == { Above(m) : m \in S }
  <2>1. C \subseteq FiniteSubsetsOf(S) /\ C # {}
    BY <1>2
  <2>2. PICK T \in C : \A U \in C : ~ (<< U, T >> \in R)
    BY <1>1, <2>1, WFMin
  <2>3. PICK m \in S : T = Above(m)
    OBVIOUS
  <2>4. ASSUME NEW i \in S, ~(i <= m) PROVE FALSE
    <3>1. m < i
      BY <1>0, <2>3, <2>4
    <3>2. Above(i) \subseteq T /\ i \in T /\ i \notin Above(i)
      BY <1>0, <2>3, <3>1
    <3>3. << Above(i), T >> \in R
      BY <1>3, <2>3, <3>2
    <3> QED
      BY <2>2, <3>3
  <2> QED
    BY <2>3, <2>4
<1> QED
  BY <1>4, <1>5

\* A query with a limit returns all rows or as many as the limit says, and the
\* rows that it leaves come after all that it returns.
LEMMA NewestOf ==
  ASSUME NEW S \in SUBSET Nat, IsFiniteSet(S), NEW n \in Nat
  PROVE  /\ Newest(S, n) \subseteq S /\ IsFiniteSet(Newest(S, n))
         /\ Cardinality(Newest(S, n)) \in Nat /\ Cardinality(Newest(S, n)) <= n
         /\ Newest(S, n) = S \/ Cardinality(Newest(S, n)) = n
         /\ \A i \in S \ Newest(S, n), j \in Newest(S, n) : i < j
         /\ Cardinality(S) <= n => Newest(S, n) = S
<1> DEFINE N == Newest(S, n)
           Above(m) == { i \in S : i > m }
<1>0. /\ \A i \in S : i \in Nat /\ ~(i < i) /\ ~(i > i)
      /\ \A i, j \in S : (i < j <=> j > i) /\ (~(i <= j) <=> j < i) /\ (i # j => i < j \/ j < i)
      /\ \A i, j, k \in S : i < j /\ j < k => i < k
  OBVIOUS
<1>1. N \subseteq S /\ N = { i \in S : Cardinality(Above(i)) < n }
  BY DEF Newest
<1> HIDE DEF N
<1>2. IsFiniteSet(N) /\ Cardinality(N) \in Nat /\ Cardinality(S) \in Nat
  BY <1>1, FS_Subset, FS_CardinalityType
<1>3. \A m \in S : IsFiniteSet(Above(m)) /\ Cardinality(Above(m)) \in Nat
  BY FS_Subset, FS_CardinalityType
<1>4. Cardinality(N) <= n
  <2>1. CASE N = {}
    BY <2>1, FS_EmptySet
  <2>2. CASE N # {}
    <3>1. PICK m \in N : \A i \in N : m <= i
      BY <1>1, <1>2, <2>2, HasEnds
    <3>2. N \ {m} \in SUBSET Above(m)
      BY <1>0, <1>1, <3>1
    <3>3. Cardinality(N \ {m}) <= Cardinality(Above(m))
      BY <1>1, <1>3, <3>2, FS_Subset
    <3>4. Cardinality(N \ {m}) = Cardinality(N) - 1
      BY <1>2, <3>1, FS_RemoveElement
    <3>5. Cardinality(Above(m)) < n
      BY <1>1, <3>1
    <3>6. Cardinality(Above(m)) \in Nat
      BY <1>1, <1>3, <3>1
    <3> HIDE DEF Above
    <3> QED
      BY <1>2, <3>1, <3>3, <3>4, <3>5, <3>6
  <2> QED
    BY <2>1, <2>2
<1>5. ASSUME N # S PROVE Cardinality(N) = n
  <2>1. S \ N \in SUBSET Nat /\ IsFiniteSet(S \ N) /\ S \ N # {}
    BY <1>1, <1>5, FS_Subset
  <2>2. PICK m \in S \ N : \A i \in S \ N : i <= m
    BY <2>1, HasEnds
  <2>3. Above(m) \in SUBSET N
    BY <1>0, <2>2
  <2>4. Cardinality(Above(m)) <= Cardinality(N)
    BY <1>2, <2>3, FS_Subset
  <2>5. ~(Cardinality(Above(m)) < n)
    BY <1>1, <2>2
  <2> QED
    BY <1>2, <1>3, <1>4, <2>2, <2>4, <2>5
<1>6. ASSUME NEW i \in S \ N, NEW j \in N, ~(i < j) PROVE FALSE
  <2>1. j < i
    BY <1>0, <1>1, <1>6
  <2>2. Above(i) \in SUBSET Above(j)
    BY <1>0, <1>1, <2>1
  <2>3. Cardinality(Above(i)) <= Cardinality(Above(j)) /\ Cardinality(Above(j)) < n
    BY <1>1, <1>3, <2>2, FS_Subset
  <2>4. Cardinality(Above(i)) \in Nat /\ Cardinality(Above(j)) \in Nat
    BY <1>1, <1>3
  <2>5. Cardinality(Above(i)) < n
    BY <2>3, <2>4
  <2> QED
    BY <1>1, <2>5
<1>7. ASSUME Cardinality(S) <= n PROVE N = S
  <2>1. ASSUME NEW i \in S PROVE Cardinality(Above(i)) < n
    <3>1. Cardinality(S \ {i}) = Cardinality(S) - 1 /\ IsFiniteSet(S \ {i})
      BY FS_RemoveElement
    <3>2. Above(i) \in SUBSET (S \ {i})
      OBVIOUS
    <3>3. Cardinality(Above(i)) <= Cardinality(S \ {i})
      BY <3>1, <3>2, FS_Subset
    <3> QED
      BY <1>2, <1>3, <1>7, <3>1, <3>3
  <2> QED
    BY <1>1, <2>1
<1> QED
  BY <1>1, <1>2, <1>4, <1>5, <1>6, <1>7 DEF N


-----------------------------------------------------------------------------
(* The inductive invariant.                                                *)

\* Matches joined since the count, and the lookup was cut.
CutAtCap(o) == o \in grew /\ Cardinality(call[o].ids) = Cap

\* What a call has found out so far.  A snapshot is of a death of its event.  The
\* matches that a call by filter counted are at most the cap while nothing joins them,
\* and what has stood since is found with them, or else the lookup was cut at the cap.
CallFits(o) ==
  LET h == call[o]
  IN  /\ \A e \in Ids : h.before[e] # 0 => h.before[e] \in died[e]
      /\ h.stage \in {"count", "find"} => h.by = "filter" /\ h.hit = {}
      /\ h.stage # "idle" => h.op # "none"
      /\ h.stage = "find" =>
           /\ stays[o] \subseteq Matching(h.filter)
           /\ o \notin grew => Cardinality(Matching(h.filter)) <= Cap
      /\ h.by = "filter" /\ h.stage \in {"read", "write"} =>
           /\ stays[o] \subseteq Dead
           /\ stays[o] \subseteq h.ids \/ CutAtCap(o)
      /\ h.by = "filter" /\ h.stage = "done" =>
           stays[o] = {} \/ CutAtCap(o)

\* A walk has returned nothing before it began; under way, nothing that comes after its
\* cursor, and everything before it that is still to be returned at its end.
WalkFits ==
  /\ reader.stage = "idle" => reader.cursor = NoCursor /\ \A e \in Ids : reader.got[e] = 0
  /\ reader.stage = "walking" =>
       /\ reader.cursor # NoCursor
       /\ \A e \in Ids : reader.got[e] <= 1 /\ (e < reader.cursor => reader.got[e] = 0)
       /\ \A r \in reader.dead :
            /\ TypeOf[r.id] \in reader.filter.types /\ r.at <= reader.filter.until
            /\ r.id >= reader.cursor => reader.got[r.id] = 1
  /\ WalkIsComplete

DeadInv ==
  /\ TypeOK
  /\ EveryDeathLogged
  /\ SnapshotsAreEarlier
  /\ \A o \in Operators : CallFits(o)
  /\ WalkFits

-----------------------------------------------------------------------------
(* The variables keep their shape.                                         *)

\* Sets of events are finite and are counted by natural numbers.
LEMMA EventSets ==
  ASSUME NEW S \in SUBSET Ids
  PROVE  /\ S \in SUBSET Nat /\ IsFiniteSet(S) /\ Cardinality(S) \in Nat
         /\ \A T \in SUBSET S : Cardinality(T) <= Cardinality(S)
<1>1. S \in SUBSET Nat /\ IsFiniteSet(S) /\ IsFiniteSet(Ids)
  BY FS_Subset, DeadLettersAssumption
<1> QED
  BY <1>1, FS_Subset, FS_CardinalityType

\* What a filter matches are dead rows.
LEMMA Matches ==
  ASSUME TypeOK, NEW f
  PROVE  Matching(f) \subseteq Dead /\ Dead \subseteq rows /\ rows \subseteq Ids
BY DEF Matching, Dead, TypeOK

\* A call may be given these filters.
LEMMA FilterTypes ==
  ASSUME TypeOK
  PROVE  Filters \subseteq FilterRecords /\ Everything \in FilterRecords
BY DeadLettersAssumption DEF TypeOK, Filters, FilterRecords, Everything, Types

\* What a call in good shape is.
GoodCall(h) == h \in CallRecords /\ Cardinality(h.ids) <= Cap /\ h.hit \subseteq h.ids

\* A call that is over, or has failed, is in good shape.
LEMMA IdleIsGood ==
  ASSUME TypeOK
  PROVE  GoodCall(Idle)
<1>1. Cardinality({}) = 0
  BY FS_EmptySet
<1>2. Idle \in CallRecords /\ Idle.ids = {} /\ Idle.hit = {}
  BY FilterTypes DEF Idle, CallRecords, NoSnapshots
<1> QED
  BY <1>1, <1>2, DeadLettersAssumption DEF GoodCall

\* One call turns, the others stay as they are.
LEMMA CallsTurn ==
  ASSUME TypeOK, NEW o \in Operators, NEW h, GoodCall(h), Turns(o, h)
  PROVE  /\ call' \in [Operators -> CallRecords]
         /\ \A p \in Operators : /\ Cardinality(call'[p].ids) <= Cap
                                 /\ call'[p].hit \subseteq call'[p].ids
         /\ call'[o] = h
         /\ \A p \in Operators \ {o} : call'[p] = call[p]
BY DEF TypeOK, Turns, GoodCall

\* What is watched for the properties keeps its shape.
LEMMA ObserveTypes ==
  ASSUME TypeOK, Observe
  PROVE  stays' \in [Operators -> SUBSET Ids] /\ grew' \subseteq Operators
<1>1. \A f : Matching(f) \subseteq Ids
  BY Matches
<1>2. grew' \subseteq Operators
  BY DEF Observe
<1>3. \A o \in Operators : stays[o] \subseteq Ids
  BY DEF TypeOK
<1> QED
  BY <1>1, <1>2, <1>3 DEF Observe

\* A statement that only reads leaves everything in shape.
LEMMA MovesTypes ==
  ASSUME TypeOK, NEW o \in Operators, NEW h, GoodCall(h), Moves(o, h)
  PROVE  TypeOK'
<1>1. /\ call' \in [Operators -> CallRecords]
      /\ \A p \in Operators : Cardinality(call'[p].ids) <= Cap /\ call'[p].hit \subseteq call'[p].ids
  BY CallsTurn DEF Moves
<1>2. stays' \in [Operators -> SUBSET Ids] /\ grew' \subseteq Operators
  BY ObserveTypes DEF Moves
<1> QED
  BY <1>1, <1>2 DEF TypeOK, Moves, tableVars

\* With its ids known, a call by at most BULK_CAP of them goes on.
LEMMA ResolvedIsGood ==
  ASSUME NEW h, GoodCall(h), h.hit = {}, NEW ids \in SUBSET Ids, Cardinality(ids) <= Cap
  PROVE  /\ GoodCall(Resolved(h, ids))
         /\ Resolved(h, ids).ids = ids
         /\ Resolved(h, ids).stage \in {"read", "write"}
         /\ \A field \in {"op", "by", "filter", "before"} : Resolved(h, ids)[field] = h[field]
BY DEF Resolved, GoodCall, CallRecords

\* A new call is in good shape, by ids or by a filter.
LEMMA BegunIsGood ==
  ASSUME TypeOK, NEW op \in {"revive", "purge"}
  PROVE  /\ \A ids \in SUBSET Ids : GoodCall(ByIds(op, ids))
         /\ \A f \in Filters :
              GoodCall([Idle EXCEPT !.op = op, !.stage = "count", !.by = "filter", !.filter = f])
<1>1. GoodCall(Idle) /\ Idle.hit = {}
  BY IdleIsGood DEF Idle
<1>2. GoodCall([Idle EXCEPT !.op = op]) /\ [Idle EXCEPT !.op = op].hit = {}
  BY <1>1 DEF GoodCall, CallRecords
<1>3. ASSUME NEW ids \in SUBSET Ids PROVE GoodCall(ByIds(op, ids))
  <2>1. CASE Cardinality(ids) > Cap
    BY <1>1, <2>1 DEF ByIds
  <2>2. CASE ~(Cardinality(ids) > Cap)
    <3>1. Cardinality(ids) <= Cap
      BY <2>2, EventSets, DeadLettersAssumption
    <3> QED
      BY <1>2, <2>2, <3>1, ResolvedIsGood DEF ByIds
  <2> QED
    BY <2>1, <2>2
<1>4. ASSUME NEW f \in Filters
      PROVE  GoodCall([Idle EXCEPT !.op = op, !.stage = "count", !.by = "filter", !.filter = f])
  BY <1>1, <1>4, FilterTypes DEF GoodCall, CallRecords
<1> QED
  BY <1>3, <1>4

\* The rows a lookup finds are at most BULK_CAP.
LEMMA FoundIsGood ==
  ASSUME TypeOK, NEW o \in Operators, call[o].stage = "find", call[o].hit = {}
  PROVE  /\ FindDeadIdsMatching(call[o].filter) \in SUBSET Matching(call[o].filter)
         /\ Cardinality(FindDeadIdsMatching(call[o].filter)) <= Cap
         /\ GoodCall(Resolved(call[o], FindDeadIdsMatching(call[o].filter)))
<1> DEFINE M == Matching(call[o].filter)
<1>1. M \in SUBSET Ids
  BY Matches
<1>2. M \in SUBSET Nat /\ IsFiniteSet(M) /\ Cap \in Nat
  BY <1>1, EventSets, DeadLettersAssumption
<1> HIDE DEF M
<1>3. Newest(M, Cap) \subseteq M /\ Cardinality(Newest(M, Cap)) <= Cap
  BY <1>2, NewestOf
<1>4. GoodCall(call[o])
  BY DEF TypeOK, GoodCall
<1>5. GoodCall(Resolved(call[o], Newest(M, Cap)))
  BY <1>1, <1>3, <1>4, ResolvedIsGood
<1> QED
  BY <1>3, <1>5 DEF M, FindDeadIdsMatching

\* What the calls do keeps the shape.
LEMMA CallTypes ==
  ASSUME TypeOK, NEW o \in Operators, CallFits(o),
         Begin(o) \/ Count(o) \/ Find(o) \/ Read(o) \/ Write(o) \/ Ends(o)
  PROVE  TypeOK'
<1>1. GoodCall(call[o]) /\ GoodCall(Idle)
  BY IdleIsGood DEF TypeOK, GoodCall
<1>2. CASE Begin(o)
  <2>1. PICK h : GoodCall(h) /\ Turns(o, h)
    BY <1>2, BegunIsGood DEF Begin
  <2>2. /\ call' \in [Operators -> CallRecords]
        /\ \A p \in Operators : Cardinality(call'[p].ids) <= Cap /\ call'[p].hit \subseteq call'[p].ids
    BY <2>1, CallsTurn
  <2>3. stays' \in [Operators -> SUBSET Ids] /\ grew' \subseteq Operators
    BY <1>2, ObserveTypes DEF Begin
  <2>4. UNCHANGED << tableVars, reader >> /\ calls' = calls + 1
    BY <1>2 DEF Begin
  <2> QED
    BY <2>2, <2>3, <2>4 DEF TypeOK, tableVars
<1>3. CASE Count(o)
  <2>1. GoodCall([call[o] EXCEPT !.stage = "find"])
    BY <1>1 DEF GoodCall, CallRecords
  <2>2. PICK h : GoodCall(h) /\ Moves(o, h)
    BY <1>1, <1>3, <2>1 DEF Count
  <2> QED
    BY <2>2, MovesTypes
<1>4. CASE Find(o)
  <2>1. GoodCall(Resolved(call[o], FindDeadIdsMatching(call[o].filter)))
    BY <1>4, FoundIsGood DEF Find, CallFits
  <2> QED
    BY <1>4, <2>1, MovesTypes DEF Find
<1>5. CASE Read(o)
  <2> DEFINE next(e) == [call[o] EXCEPT !.left = @ \ {e},
                           !.before[e] = IF e \in Dead THEN deadAt[e] ELSE 0,
                           !.stage = IF call[o].left = {e} THEN "write" ELSE "read"]
  <2>1. PICK e \in call[o].left : Moves(o, next(e))
    BY <1>5 DEF Read
  <2>2. e \in Ids
    BY DEF TypeOK, CallRecords
  <2>3. GoodCall(next(e))
    BY <1>1, <2>2 DEF GoodCall, CallRecords, TypeOK
  <2> QED
    BY <2>1, <2>3, MovesTypes
<1>6. CASE Write(o)
  <2> DEFINE h == [call[o] EXCEPT !.stage = "done", !.hit = Hit(call[o].ids)]
  <2>1. GoodCall(h)
    BY <1>1 DEF GoodCall, CallRecords, Hit
  <2>2. Turns(o, h) /\ Observe
    BY <1>6 DEF Write
  <2>3. /\ call' \in [Operators -> CallRecords]
        /\ \A p \in Operators : Cardinality(call'[p].ids) <= Cap /\ call'[p].hit \subseteq call'[p].ids
    BY <2>1, <2>2, CallsTurn
  <2>4. stays' \in [Operators -> SUBSET Ids] /\ grew' \subseteq Operators
    BY <2>2, ObserveTypes
  <2>5. Entries(call[o]) \subseteq EntryRecords
    <3>1. call[o].op \in {"revive", "purge"}
      BY <1>1, <1>6 DEF GoodCall, CallRecords, CallFits, Write
    <3>2. call[o].before \in [Ids -> Nat]
      BY <1>1 DEF GoodCall, CallRecords
    <3>3. Hit(call[o].ids) \subseteq Ids /\ deadAt \in [Ids -> Nat]
      BY DEF Hit, Dead, TypeOK
    <3> QED
      BY <3>1, <3>2, <3>3 DEF Entries, EntryRecords
  <2>6. rows' \subseteq rows /\ deadAt' \in [Ids -> Nat] /\ audit' \subseteq EntryRecords
    BY <1>6, <2>5 DEF Write, TypeOK
  <2>7. ASSUME NEW e \in Ids, deadAt'[e] # 0
        PROVE  e \in rows' /\ deadAt'[e] = deadAt[e]
    <3>1. e \notin Hit(call[o].ids) /\ deadAt'[e] = deadAt[e]
      BY <1>6, <2>7 DEF Write
    <3> QED
      BY <1>6, <2>7, <3>1 DEF Write, TypeOK
  <2> QED
    BY <1>6, <2>3, <2>4, <2>6, <2>7 DEF TypeOK, Write
<1>7. CASE Ends(o)
  BY <1>1, <1>7, MovesTypes DEF Ends
<1> QED
  BY <1>2, <1>3, <1>4, <1>5, <1>6, <1>7

\* The rows of S that come after the cursor in the order of the pages.
Before(S, cursor) == { i \in S : cursor # NoCursor => i < cursor }

\* A page of at least one row: some of the rows asked for, and all of them unless a
\* cursor tells where it ends.
LEMMA PageOf ==
  ASSUME NEW S \in SUBSET Ids, NEW cursor \in Ids \union {NoCursor}, NEW page,
         page = PageDescending(S, cursor, Limit)
  PROVE  /\ page.items \subseteq Before(S, cursor)
         /\ page.next \in Ids \union {NoCursor}
         /\ page.next = NoCursor => page.items = Before(S, cursor)
         /\ page.next # NoCursor =>
              /\ page.next \in page.items
              /\ \A i \in page.items : page.next <= i
              /\ \A i \in Before(S, cursor) \ page.items : i < page.next
<1> DEFINE before == Before(S, cursor)
           B == Newest(before, Limit + 1)
           N == Newest(B, Limit)
<1>1. before \in SUBSET Nat /\ IsFiniteSet(before) /\ before \subseteq Ids
  <2>1. before \in SUBSET Ids
    BY DEF Before
  <2> QED
    BY <2>1, EventSets
<1>2. Limit \in Nat \ {0} /\ Limit + 1 \in Nat /\ Limit + 1 > Limit
  BY DeadLettersAssumption
<1>3. page = IF Cardinality(B) > Limit THEN [items |-> N, next |-> Min(N)]
             ELSE [items |-> B, next |-> NoCursor]
  BY DEF PageDescending, Paginate, Before
<1> HIDE DEF before
<1>4. /\ B \subseteq before /\ IsFiniteSet(B) /\ Cardinality(B) \in Nat
      /\ B = before \/ Cardinality(B) = Limit + 1
      /\ \A i \in before \ B, j \in B : i < j
  BY <1>1, <1>2, NewestOf
<1> HIDE DEF B
<1>5. CASE Cardinality(B) > Limit
  <2>1. B \in SUBSET Nat
    BY <1>1, <1>4
  <2>2. /\ N \subseteq B /\ IsFiniteSet(N) /\ Cardinality(N) <= Limit
        /\ N = B \/ Cardinality(N) = Limit
        /\ \A i \in B \ N, j \in N : i < j
    BY <1>2, <1>4, <2>1, NewestOf
  <2> HIDE DEF N
  <2>3. N # {}
    BY <1>2, <1>4, <1>5, <2>2, FS_EmptySet
  <2>4. N \in SUBSET Nat
    BY <2>1, <2>2
  <2>5. \E m \in N : \A i \in N : m <= i
    BY <2>2, <2>3, <2>4, HasEnds
  <2>6. Min(N) \in N /\ \A i \in N : Min(N) <= i
    BY <2>5 DEF Min
  <2> DEFINE m == Min(N)
  <2>7. page.items = N /\ page.next = m /\ m \in N /\ \A i \in N : m <= i
    BY <1>3, <1>5, <2>6
  <2> HIDE DEF m
  <2>8. m \in Ids /\ m # NoCursor
    BY <1>1, <1>4, <2>2, <2>7, DeadLettersAssumption DEF NoCursor
  <2>9. \A i \in before \ N : i < m
    BY <1>4, <2>2, <2>7
  <2> QED
    BY <1>4, <2>2, <2>7, <2>8, <2>9 DEF before
<1>6. CASE ~(Cardinality(B) > Limit)
  <2>1. B = before
    BY <1>2, <1>4, <1>6
  <2> QED
    BY <1>3, <1>6, <2>1 DEF before
<1> QED
  BY <1>5, <1>6

\* The filter of a page: a new walk's, or that of the walk under way.
PageFilters == IF reader.stage = "idle" THEN Filters ELSE { reader.filter }

\* What matched when the walk began and has stood since.
Since(f) == IF reader.stage = "idle" THEN { [id |-> e, at |-> deadAt[e]] : e \in Matching(f) }
            ELSE reader.dead

\* The walk after a page.
Paged(f, page) ==
  [stage |-> IF page.next = NoCursor THEN "done" ELSE "walking", filter |-> f, cursor |-> page.next,
   got |-> [e \in Ids |-> reader.got[e] + IF e \in page.items THEN 1 ELSE 0],
   dead |-> { r \in Since(f) : r.id \in Dead /\ deadAt[r.id] = r.at }]

\* A page moves the reader only.
LEMMA PageStep ==
  ASSUME TypeOK, Page
  PROVE  /\ reader.stage \in {"idle", "walking"}
         /\ UNCHANGED << tableVars, call >> /\ Observe /\ calls' \in Nat
         /\ \E f \in PageFilters :
              /\ f \in FilterRecords
              /\ reader' = Paged(f, PageDescending(Matching(f), reader.cursor, Limit))
<1>1. PageFilters \subseteq FilterRecords
  BY FilterTypes DEF PageFilters, TypeOK, WalkRecords
<1>2. calls' \in Nat
  BY DEF Page, TypeOK
<1>3. \E f \in PageFilters : reader' = Paged(f, PageDescending(Matching(f), reader.cursor, Limit))
  BY DEF Page, PageFilters, Since, Paged
<1> QED
  BY <1>1, <1>2, <1>3 DEF Page

\* Readers keep the shape.
LEMMA PageTypes ==
  ASSUME TypeOK, Page
  PROVE  TypeOK'
<1>1. PICK f \in PageFilters :
        /\ f \in FilterRecords
        /\ reader' = Paged(f, PageDescending(Matching(f), reader.cursor, Limit))
  BY PageStep
<1>9. PICK page : page = PageDescending(Matching(f), reader.cursor, Limit)
  OBVIOUS
<1>2. Matching(f) \in SUBSET Ids /\ reader.cursor \in Ids \union {NoCursor}
  BY Matches DEF TypeOK, WalkRecords
<1>3. page.items \subseteq Ids /\ page.next \in Ids \union {NoCursor}
  <2>1. page.items \subseteq Before(Matching(f), reader.cursor) /\ page.next \in Ids \union {NoCursor}
    BY <1>2, <1>9, PageOf
  <2> QED
    BY <1>2, <2>1 DEF Before
<1>4. Since(f) \subseteq [id : Ids, at : Nat]
  BY <1>2 DEF Since, TypeOK, WalkRecords
<1>5. reader.got \in [Ids -> Nat]
  BY DEF TypeOK, WalkRecords
<1>6. Paged(f, page) \in WalkRecords
  BY <1>1, <1>3, <1>4, <1>5 DEF Paged, WalkRecords
<1>7. stays' \in [Operators -> SUBSET Ids] /\ grew' \subseteq Operators
  BY PageStep, ObserveTypes
<1>8. reader' \in WalkRecords
  BY <1>1, <1>6, <1>9
<1> QED
  BY <1>7, <1>8, PageStep DEF TypeOK, tableVars

\* The worker keeps the shape: the moment of a death is later than all before it.
LEMMA WorkerTypes ==
  ASSUME TypeOK, NEW e \in Ids, Dies(e) \/ Succeeds(e)
  PROVE  TypeOK'
<1>1. stays' \in [Operators -> SUBSET Ids] /\ grew' \subseteq Operators
  BY ObserveTypes DEF Dies, Succeeds
<1>2. CASE Dies(e)
  <2>1. /\ clock' = clock + 1 /\ clock \in Nat /\ e \in rows
        /\ deadAt' = [deadAt EXCEPT ![e] = clock + 1]
        /\ died' = [died EXCEPT ![e] = @ \union {clock + 1}]
        /\ UNCHANGED << rows, audit, call, reader, calls >>
    BY <1>2 DEF Dies, TypeOK
  <2>2. died' \in [Ids -> SUBSET (1..clock')] /\ deadAt' \in [Ids -> Nat]
    BY <2>1 DEF TypeOK
  <2>3. ASSUME NEW d \in Ids, deadAt'[d] # 0
        PROVE  d \in rows' /\ deadAt'[d] \in died'[d] /\ \A m \in died'[d] : m <= deadAt'[d]
    <3>1. CASE d = e
      BY <2>1, <3>1 DEF TypeOK
    <3>2. CASE d # e
      BY <2>1, <2>3, <3>2 DEF TypeOK
    <3> QED
      BY <3>1, <3>2
  <2> QED
    BY <1>1, <2>1, <2>2, <2>3 DEF TypeOK
<1>3. CASE Succeeds(e)
  BY <1>1, <1>3 DEF Succeeds, TypeOK
<1> QED
  BY <1>2, <1>3

\* Every step keeps the shape.
LEMMA TypesKept ==
  ASSUME TypeOK, \A o \in Operators : CallFits(o), [Next]_vars
  PROVE  TypeOK'
<1>1. CASE UNCHANGED vars
  BY <1>1 DEF TypeOK, vars, tableVars
<1>2. CASE \E e \in Ids : Dies(e) \/ Succeeds(e)
  BY <1>2, WorkerTypes
<1>3. CASE \E o \in Operators : Begin(o) \/ Count(o) \/ Find(o) \/ Read(o) \/ Write(o) \/ Ends(o)
  BY <1>3, CallTypes
<1>4. CASE Page
  BY <1>4, PageTypes
<1> QED
  BY <1>1, <1>2, <1>3, <1>4 DEF Next

-----------------------------------------------------------------------------
(* The audit log.                                                          *)

\* Only the worker and a statement that writes change the tables.
LEMMA WhoWrites ==
  ASSUME [Next]_vars
  PROVE  \/ UNCHANGED << deadAt, audit, died, rows >>
         \/ \E e \in Ids : Dies(e) \/ Succeeds(e)
         \/ \E o \in Operators : Write(o)
BY DEF Next, vars, tableVars, Begin, Count, Find, Read, Ends, Moves, Page


\* A death joins the history, and the log has no entry of it yet.
LEMMA DeathKeepsLog ==
  ASSUME TypeOK, EveryDeathLogged, SnapshotsAreEarlier, NEW e \in Ids, Dies(e)
  PROVE  EveryDeathLogged' /\ SnapshotsAreEarlier'
<1>1. /\ clock \in Nat /\ deadAt[e] = 0 /\ audit' = audit
      /\ deadAt' = [deadAt EXCEPT ![e] = clock + 1]
      /\ died' = [died EXCEPT ![e] = @ \union {clock + 1}]
  BY DEF Dies, TypeOK
<1>2. clock + 1 \notin died[e] /\ 0 \notin died[e]
  BY <1>1 DEF TypeOK
<1>3. ASSUME NEW d \in Ids PROVE died'[d] \ {deadAt'[d]} = died[d] \ {deadAt[d]}
  BY <1>1, <1>2 DEF TypeOK
<1> QED
  BY <1>1, <1>3 DEF EveryDeathLogged, SnapshotsAreEarlier

\* A statement that writes adds the entries of the deaths it takes, and takes each of
\* them once: what the log tells of already is not what is dead now.
LEMMA WriteKeepsLog ==
  ASSUME TypeOK, EveryDeathLogged, SnapshotsAreEarlier,
         NEW o \in Operators, CallFits(o), Write(o)
  PROVE  EveryDeathLogged' /\ SnapshotsAreEarlier'
<1> DEFINE h == call[o]
           H == Hit(h.ids)
<1>1. /\ deadAt' = [e \in Ids |-> IF e \in H THEN 0 ELSE deadAt[e]]
      /\ audit' = audit \union Entries(h) /\ died' = died
  BY DEF Write
<1>2. ASSUME NEW e \in H
      PROVE  /\ e \in Ids /\ deadAt[e] # 0 /\ deadAt[e] \in died[e] /\ deadAt[e] \in Nat
             /\ \A d \in died[e] : d <= deadAt[e] /\ d \in Nat
  BY <1>2 DEF Hit, Dead, TypeOK
<1>3. \A x \in Entries(h) : /\ x.id \in H /\ x.was = deadAt[x.id]
                            /\ x.before # x.was => x.before = h.before[x.id]
  BY DEF Entries
<1>4. \A e \in H : \E x \in Entries(h) : x.id = e
  <2> DEFINE entry(e) == [act |-> h.op, id |-> e, was |-> deadAt[e],
                          before |-> IF h.op = "purge" THEN deadAt[e] ELSE h.before[e]]
  <2>1. \A e \in H : entry(e) \in Entries(h)
    BY DEF Entries
  <2> QED
    BY <2>1
<1>5. \A x, y \in Entries(h) : x.id = y.id => x = y
  BY DEF Entries
<1> HIDE DEF H, h
<1>6. EveryDeathLogged'
  <2> SUFFICES ASSUME NEW e \in Ids
               PROVE  /\ { x.was : x \in { y \in audit' : y.id = e } } = died'[e] \ {deadAt'[e]}
                      /\ \A x, y \in { z \in audit' : z.id = e } : x.was = y.was => x = y
    BY DEF EveryDeathLogged
  <2>1. /\ \A x \in audit : x.id = e => x.was \in died[e] \ {deadAt[e]}
        /\ \A d \in died[e] \ {deadAt[e]} : \E x \in audit : x.id = e /\ x.was = d
        /\ \A x, y \in audit : x.id = e /\ y.id = e /\ x.was = y.was => x = y
    <3>1. { x.was : x \in { y \in audit : y.id = e } } = died[e] \ {deadAt[e]}
      BY DEF EveryDeathLogged
    <3>2. \A x, y \in { z \in audit : z.id = e } : x.was = y.was => x = y
      BY DEF EveryDeathLogged
    <3> QED
      BY <3>1, <3>2
  <2>2. CASE e \in H
    <3>1. died'[e] \ {deadAt'[e]} = died[e] /\ deadAt[e] \in died[e]
      <4>1. deadAt'[e] = 0 /\ 0 \notin died[e]
        BY <1>1, <2>2 DEF TypeOK
      <4> QED
        BY <1>1, <1>2, <2>2, <4>1
    <3>2. \A x \in audit' : x.id = e => x \in audit \/ (x \in Entries(h) /\ x.was = deadAt[e])
      BY <1>1, <1>3
    <3>3. \A x \in audit' : x.id = e => x.was \in died[e]
      BY <2>1, <3>1, <3>2
    <3>4. \A d \in died[e] : \E x \in audit' : x.id = e /\ x.was = d
      BY <1>1, <1>3, <1>4, <2>1, <2>2
    <3>5. \A x, y \in audit' : x.id = e /\ y.id = e /\ x.was = y.was => x = y
      BY <1>5, <2>1, <3>2
    <3> QED
      BY <3>1, <3>3, <3>4, <3>5
  <2>3. CASE e \notin H
    <3>1. died'[e] = died[e] /\ deadAt'[e] = deadAt[e]
      BY <1>1, <2>3
    <3>2. \A x : x \in audit' /\ x.id = e <=> x \in audit /\ x.id = e
      BY <1>1, <1>3, <2>3
    <3> QED
      BY <2>1, <3>1, <3>2
  <2> QED
    BY <2>2, <2>3
<1>7. SnapshotsAreEarlier'
  <2> SUFFICES ASSUME NEW x \in audit', x.before # x.was, x.before # 0
               PROVE  x.before < x.was /\ \E y \in audit' : y.id = x.id /\ y.was = x.before
    BY DEF SnapshotsAreEarlier
  <2>1. CASE x \in audit
    BY <1>1, <2>1 DEF SnapshotsAreEarlier
  <2>2. CASE x \in Entries(h)
    <3>1. x.id \in H /\ x.was = deadAt[x.id] /\ x.before = h.before[x.id]
      BY <1>3, <2>2
    <3>2. x.before \in died[x.id]
      BY <1>2, <3>1 DEF CallFits, h
    <3>3. x.before \in died[x.id] \ {deadAt[x.id]}
      BY <3>1, <3>2
    <3>4. \E y \in audit : y.id = x.id /\ y.was = x.before
      <4>1. { z.was : z \in { y \in audit : y.id = x.id } } = died[x.id] \ {deadAt[x.id]}
        BY <1>2, <3>1 DEF EveryDeathLogged
      <4> QED
        BY <3>3, <4>1
    <3>5. x.before < x.was
      BY <1>2, <3>1, <3>2
    <3> QED
      BY <1>1, <3>4, <3>5
  <2> QED
    BY <1>1, <2>1, <2>2
<1> QED
  BY <1>6, <1>7

\* Every step keeps the log true.
LEMMA LogKept ==
  ASSUME TypeOK, EveryDeathLogged, SnapshotsAreEarlier,
         \A o \in Operators : CallFits(o), [Next]_vars
  PROVE  EveryDeathLogged' /\ SnapshotsAreEarlier'
<1>1. CASE UNCHANGED << deadAt, audit, died, rows >>
  BY <1>1 DEF EveryDeathLogged, SnapshotsAreEarlier
<1>2. ASSUME NEW e \in Ids, Dies(e) \/ Succeeds(e)
      PROVE  EveryDeathLogged' /\ SnapshotsAreEarlier'
  <2>1. CASE Dies(e)
    BY <2>1, DeathKeepsLog
  <2>2. CASE Succeeds(e)
    BY <2>2 DEF Succeeds, EveryDeathLogged, SnapshotsAreEarlier
  <2> QED
    BY <1>2, <2>1, <2>2
<1>3. ASSUME NEW o \in Operators, Write(o)
      PROVE  EveryDeathLogged' /\ SnapshotsAreEarlier'
  BY <1>3, WriteKeepsLog
<1> QED
  BY <1>1, <1>2, <1>3, WhoWrites

-----------------------------------------------------------------------------
(* What a bulk call takes.                                                 *)

\* A call whose turn it is not: its snapshots stay deaths of their events, what stood
\* and still stands matches, and who joins its matches is seen.
LEMMA OthersFit ==
  ASSUME TypeOK, Observe, NEW o \in Operators, CallFits(o), call'[o] = call[o],
         rows' \subseteq rows, \A e \in Ids : died[e] \subseteq died'[e]
  PROVE  CallFits(o)'
<1> DEFINE h == call[o]
<1>1. h.before \in [Ids -> Nat] /\ h.filter \in FilterRecords /\ stays[o] \subseteq Ids
  BY DEF TypeOK, CallRecords
<1>2. CutAtCap(o) /\ h.stage # "idle" => CutAtCap(o)'
  BY DEF CutAtCap, Observe
<1>3. o \in Counted => stays'[o] = { e \in stays[o] : e \in rows' /\ deadAt'[e] = deadAt[e] }
  BY DEF Observe
<1>4. ASSUME h.stage = "find"
      PROVE  /\ stays'[o] \subseteq Matching(h.filter)'
             /\ o \notin grew' => Cardinality(Matching(h.filter)') <= Cap
  <2>1. o \in Counted
    BY <1>4 DEF Counted, CallFits
  <2>2. stays[o] \subseteq Matching(h.filter)
    BY <1>4 DEF CallFits
  <2>3. stays'[o] \subseteq Matching(h.filter)'
    BY <1>3, <2>1, <2>2 DEF Matching, Dead
  <2>4. ASSUME o \notin grew' PROVE Cardinality(Matching(h.filter)') <= Cap
    <3>1. o \notin grew
      BY <1>4, <2>4 DEF Observe
    <3>2. \A e \in Ids : ~ /\ deadAt'[e] \notin {0, deadAt[e]}
                           /\ TypeOf[e] \in h.filter.types /\ deadAt'[e] <= h.filter.until
      BY <1>4, <2>4 DEF Observe
    <3>3. rows \subseteq Ids /\ \A e \in Ids : deadAt[e] # 0 => e \in rows
      BY DEF TypeOK
    <3>4. Matching(h.filter)' \subseteq Matching(h.filter)
      BY <3>2, <3>3 DEF Matching, Dead
    <3>5. Matching(h.filter) \in SUBSET Ids /\ Matching(h.filter)' \in SUBSET Matching(h.filter)
      BY <3>4, Matches
    <3>6. /\ Cardinality(Matching(h.filter)') <= Cardinality(Matching(h.filter))
          /\ Cardinality(Matching(h.filter)) \in Nat /\ Cardinality(Matching(h.filter)') \in Nat
      BY <3>5, EventSets
    <3>7. Cardinality(Matching(h.filter)) <= Cap
      BY <1>4, <3>1 DEF CallFits
    <3> QED
      BY <3>6, <3>7, DeadLettersAssumption
  <2> QED
    BY <2>3, <2>4
<1>5. ASSUME h.by = "filter", h.stage \in {"read", "write"}
      PROVE  /\ stays'[o] \subseteq Dead'
             /\ stays'[o] \subseteq h.ids \/ CutAtCap(o)'
  <2>1. o \in Counted
    BY <1>5 DEF Counted
  <2>2. stays[o] \subseteq Dead /\ (stays[o] \subseteq h.ids \/ CutAtCap(o))
    BY <1>5 DEF CallFits
  <2> QED
    BY <1>2, <1>3, <1>5, <2>1, <2>2 DEF Dead
<1>6. ASSUME h.by = "filter", h.stage = "done"
      PROVE  stays'[o] = {} \/ CutAtCap(o)'
  <2>1. stays'[o] = stays[o]
    BY <1>6 DEF Observe, Counted
  <2> QED
    BY <1>2, <1>6, <2>1 DEF CallFits
<1> QED
  BY <1>1, <1>4, <1>5, <1>6 DEF CallFits

\* A call that begins, has answered or has failed has found out nothing.
LEMMA FreshFits ==
  ASSUME TypeOK, NEW o \in Operators, call'[o] \in CallRecords,
         call'[o].stage # "idle" => call'[o].op # "none", call'[o].hit = {},
         call'[o].before = NoSnapshots, call'[o].stage # "find",
         call'[o].stage = "count" => call'[o].by = "filter",
         call'[o].by = "filter" => call'[o].stage = "count"
  PROVE  CallFits(o)'
BY DEF CallFits, NoSnapshots

\* The step of a call keeps to what it has found out.
LEMMA BeginFits ==
  ASSUME TypeOK, NEW o \in Operators, Begin(o)
  PROVE  CallFits(o)'
<1>1. PICK op \in {"revive", "purge"} :
        \/ \E ids \in (SUBSET Ids) \ {{}} : Turns(o, ByIds(op, ids))
        \/ \E f \in Filters :
             Turns(o, [Idle EXCEPT !.op = op, !.stage = "count", !.by = "filter", !.filter = f])
  BY DEF Begin
<1>2. GoodCall(Idle) /\ Idle.before = NoSnapshots /\ Idle.hit = {} /\ Idle.stage = "idle"
      /\ Idle.by = "ids"
  BY IdleIsGood DEF Idle
<1>3. ASSUME NEW ids \in (SUBSET Ids) \ {{}}, Turns(o, ByIds(op, ids))
      PROVE  CallFits(o)'
  <2>1. GoodCall(ByIds(op, ids)) /\ call'[o] = ByIds(op, ids)
    BY <1>3, BegunIsGood, CallsTurn
  <2> DEFINE h == ByIds(op, ids)
  <2>2. /\ h \in CallRecords /\ h.hit = {} /\ h.by = "ids" /\ h.before = NoSnapshots
        /\ h.stage = "idle" \/ (h.stage \in {"read", "write"} /\ h.op = op)
    BY <1>2, <2>1 DEF ByIds, Resolved, GoodCall, CallRecords
  <2> HIDE DEF h
  <2>3. call'[o] = h
    BY <2>1 DEF h
  <2> QED
    BY <2>2, <2>3, FreshFits
<1>4. ASSUME NEW f \in Filters,
             Turns(o, [Idle EXCEPT !.op = op, !.stage = "count", !.by = "filter", !.filter = f])
      PROVE  CallFits(o)'
  <2> DEFINE h == [Idle EXCEPT !.op = op, !.stage = "count", !.by = "filter", !.filter = f]
  <2>1. GoodCall(h) /\ call'[o] = h
    BY <1>4, BegunIsGood, CallsTurn
  <2>2. /\ h \in CallRecords /\ h.hit = {} /\ h.by = "filter" /\ h.before = NoSnapshots
        /\ h.stage = "count" /\ h.op = op
    BY <1>2, <2>1 DEF GoodCall, CallRecords
  <2> HIDE DEF h
  <2> QED
    BY <2>1, <2>2, FreshFits
<1> QED
  BY <1>1, <1>3, <1>4

LEMMA EndsFits ==
  ASSUME TypeOK, NEW o \in Operators, Moves(o, Idle)
  PROVE  CallFits(o)'
<1>1. GoodCall(Idle) /\ call'[o] = Idle
  BY IdleIsGood, CallsTurn DEF Moves
<1>2. /\ Idle \in CallRecords /\ Idle.before = NoSnapshots /\ Idle.hit = {}
      /\ Idle.stage = "idle" /\ Idle.by = "ids"
  BY <1>1 DEF Idle, GoodCall
<1> QED
  BY <1>1, <1>2, FreshFits

\* What is counted under the cap is what stands from then on.
LEMMA CountFits ==
  ASSUME TypeOK, NEW o \in Operators, CallFits(o), Count(o)
  PROVE  CallFits(o)'
<1> DEFINE h == call[o]
           M == Matching(h.filter)
<1>1. CASE Cardinality(M) > Cap
  BY <1>1, EndsFits DEF Count
<1>2. CASE ~(Cardinality(M) > Cap)
  <2> DEFINE g == [h EXCEPT !.stage = "find"]
  <2>1. GoodCall(g) /\ g.by = h.by /\ g.filter = h.filter /\ g.before = h.before /\ g.hit = h.hit
        /\ g.op = h.op /\ g.stage = "find"
    <3>1. GoodCall(h)
      BY DEF GoodCall, TypeOK
    <3> HIDE DEF h
    <3> QED
      BY <3>1 DEF GoodCall, CallRecords
  <2>2. Moves(o, g) /\ h.stage = "count"
    BY <1>2 DEF Count
  <2> HIDE DEF g
  <2>3. call'[o] = g /\ UNCHANGED tableVars
    BY <2>1, <2>2, CallsTurn DEF Moves
  <2>4. h.by = "filter" /\ h.hit = {} /\ h.op # "none"
        /\ \A e \in Ids : h.before[e] # 0 => h.before[e] \in died[e]
    BY <2>2 DEF CallFits
  <2>5. stays'[o] = M
    BY <2>1, <2>2, <2>3 DEF Moves, Observe, Counted
  <2>6. call'[o].filter = h.filter /\ UNCHANGED << rows, deadAt >>
    BY <2>1, <2>3 DEF tableVars
  <2>7. M \in SUBSET Ids
    BY Matches
  <2>8. Cardinality(M) <= Cap
    BY <1>2, <2>7, EventSets, DeadLettersAssumption
  <2>9. Matching(call[o].filter)' = M
    BY <2>6 DEF Matching, Dead
  <2> HIDE DEF M
  <2> QED
    BY <2>1, <2>3, <2>4, <2>5, <2>8, <2>9 DEF CallFits, tableVars
<1> QED
  BY <1>1, <1>2

\* The lookup finds every match, or as many as the cap; the latter only when more
\* matched than were counted, and then somebody has joined.
LEMMA FindFits ==
  ASSUME TypeOK, NEW o \in Operators, CallFits(o), Find(o)
  PROVE  CallFits(o)'
<1> DEFINE h == call[o]
           M == Matching(h.filter)
           found == FindDeadIdsMatching(h.filter)
           g == Resolved(h, found)
<1>1. /\ h.stage = "find" /\ h.by = "filter" /\ h.hit = {} /\ h.op # "none"
      /\ stays[o] \subseteq M
      /\ o \notin grew => Cardinality(M) <= Cap
      /\ \A e \in Ids : h.before[e] # 0 => h.before[e] \in died[e]
  BY DEF Find, CallFits
<1>2. found \in SUBSET M /\ Cardinality(found) <= Cap
  BY <1>1, FoundIsGood
<1>3. M \in SUBSET Ids /\ M \subseteq Dead /\ Cap \in Nat
  BY Matches, DeadLettersAssumption
<1>4. found = M \/ (Cardinality(found) = Cap /\ ~(Cardinality(M) <= Cap))
  <2>1. M \in SUBSET Nat /\ IsFiniteSet(M)
    BY <1>3, EventSets
  <2> HIDE DEF M
  <2>2. \/ Newest(M, Cap) = M
        \/ Cardinality(Newest(M, Cap)) = Cap /\ ~(Cardinality(M) <= Cap)
    BY <1>3, <2>1, NewestOf
  <2> QED
    BY <2>2 DEF FindDeadIdsMatching, M
<1>5. /\ GoodCall(g) /\ g.ids = found /\ g.stage \in {"read", "write"}
      /\ g.op = h.op /\ g.by = h.by /\ g.filter = h.filter /\ g.before = h.before
  <2>1. GoodCall(h)
    BY DEF GoodCall, TypeOK
  <2>2. found \in SUBSET Ids
    BY <1>2, <1>3
  <2> HIDE DEF h, found
  <2>3. /\ GoodCall(Resolved(h, found)) /\ Resolved(h, found).ids = found
        /\ Resolved(h, found).stage \in {"read", "write"}
        /\ \A field \in {"op", "by", "filter", "before"} : Resolved(h, found)[field] = h[field]
    BY <1>1, <1>2, <2>1, <2>2, ResolvedIsGood
  <2> QED
    BY <2>3
<1>6. Moves(o, g)
  BY DEF Find
<1> HIDE DEF g, found
<1>7. call'[o] = g /\ UNCHANGED << rows, deadAt, died >>
  BY <1>5, <1>6, CallsTurn DEF Moves, tableVars
<1>8. stays'[o] \subseteq stays[o] /\ (o \in grew => o \in grew')
  BY <1>1, <1>5, <1>6, <1>7 DEF Moves, Observe, Counted
<1>9. Dead' = Dead
  BY <1>7 DEF Dead
<1>10. stays'[o] \subseteq found \/ CutAtCap(o)'
  BY <1>1, <1>4, <1>5, <1>7, <1>8 DEF CutAtCap
<1>11. stays'[o] \subseteq Dead'
  BY <1>1, <1>3, <1>8, <1>9
<1> HIDE DEF M
<1> QED
  BY <1>1, <1>5, <1>7, <1>10, <1>11 DEF CallFits

\* A snapshot is of a death of its event: of the last one when it is read.
LEMMA ReadFits ==
  ASSUME TypeOK, NEW o \in Operators, CallFits(o), Read(o)
  PROVE  CallFits(o)'
<1> DEFINE h == call[o]
           next(e) == [call[o] EXCEPT !.left = @ \ {e},
                         !.before[e] = IF e \in Dead THEN deadAt[e] ELSE 0,
                         !.stage = IF call[o].left = {e} THEN "write" ELSE "read"]
<1>1. PICK e \in h.left : Moves(o, next(e))
  BY DEF Read
<1>2. /\ h \in CallRecords /\ h.stage = "read" /\ h.op # "none" /\ e \in Ids
      /\ \A d \in Ids : h.before[d] # 0 => h.before[d] \in died[d]
      /\ h.by = "filter" => /\ stays[o] \subseteq Dead
                            /\ stays[o] \subseteq h.ids \/ CutAtCap(o)
  BY DEF TypeOK, CallRecords, Read, CallFits
<1>3. GoodCall(h)
  BY DEF GoodCall, TypeOK
<1>4. /\ GoodCall(next(e)) /\ next(e).stage \in {"read", "write"}
      /\ next(e).op = h.op /\ next(e).by = h.by /\ next(e).ids = h.ids
      /\ next(e).before[e] = (IF e \in Dead THEN deadAt[e] ELSE 0)
      /\ \A d \in Ids \ {e} : next(e).before[d] = h.before[d]
  BY <1>2, <1>3 DEF GoodCall, CallRecords, TypeOK
<1> DEFINE g == next(e)
<1>5. call'[o] = g /\ UNCHANGED << rows, deadAt, died >>
  BY <1>1, <1>4, CallsTurn DEF Moves, tableVars
<1>6. /\ GoodCall(g) /\ g.stage \in {"read", "write"} /\ g.op = h.op /\ g.by = h.by
      /\ g.ids = h.ids /\ Moves(o, g)
  BY <1>1, <1>4
<1>7. \A d \in Ids : g.before[d] # 0 => g.before[d] \in died[d]
  BY <1>2, <1>4 DEF TypeOK, Dead
<1> HIDE DEF g, next
<1>8. h.by = "filter" => stays'[o] \subseteq stays[o] /\ (o \in grew => o \in grew')
  BY <1>2, <1>5, <1>6 DEF Moves, Observe, Counted
<1>9. Dead' = Dead
  BY <1>5 DEF Dead
<1>10. h.by = "filter" => /\ stays'[o] \subseteq Dead'
                          /\ stays'[o] \subseteq g.ids \/ CutAtCap(o)'
  BY <1>2, <1>5, <1>6, <1>8, <1>9 DEF CutAtCap
<1> QED
  BY <1>2, <1>5, <1>6, <1>7, <1>10 DEF CallFits

\* The statement takes what stands and was found.
LEMMA WriteFits ==
  ASSUME TypeOK, NEW o \in Operators, CallFits(o), Write(o)
  PROVE  CallFits(o)'
<1> DEFINE h == call[o]
           g == [h EXCEPT !.stage = "done", !.hit = Hit(h.ids)]
<1>1. /\ h \in CallRecords /\ h.stage = "write" /\ h.op # "none"
      /\ \A d \in Ids : h.before[d] # 0 => h.before[d] \in died[d]
      /\ h.by = "filter" => /\ stays[o] \subseteq Dead
                            /\ stays[o] \subseteq h.ids \/ CutAtCap(o)
  BY DEF TypeOK, Write, CallFits
<1>2. call'[o] = g
  BY DEF Write, Turns, TypeOK
<1>3. /\ g.stage = "done" /\ g.op = h.op /\ g.by = h.by /\ g.ids = h.ids /\ g.before = h.before
  BY <1>1 DEF CallRecords
<1>4. died' = died /\ deadAt' = [e \in Ids |-> IF e \in Hit(h.ids) THEN 0 ELSE deadAt[e]] /\ Observe
  BY DEF Write
<1> HIDE DEF g
<1>5. ASSUME h.by = "filter" PROVE stays'[o] = {} \/ CutAtCap(o)'
  <2>1. stays'[o] = { e \in stays[o] : e \in rows' /\ deadAt'[e] = deadAt[e] }
    BY <1>1, <1>4, <1>5 DEF Observe, Counted
  <2>2. CASE stays[o] \subseteq h.ids
    <3>1. ASSUME NEW e \in stays[o] PROVE deadAt'[e] # deadAt[e]
      BY <1>1, <1>4, <1>5, <2>2 DEF Hit, Dead, TypeOK
    <3> QED
      BY <2>1, <3>1
  <2>3. CASE CutAtCap(o)
    BY <1>2, <1>3, <1>4, <2>3 DEF CutAtCap, Observe
  <2> QED
    BY <1>1, <1>5, <2>2, <2>3
<1> QED
  BY <1>1, <1>2, <1>3, <1>4, <1>5 DEF CallFits

\* Every step keeps every call to what it has found out.
LEMMA CallsKept ==
  ASSUME TypeOK, TypeOK', \A o \in Operators : CallFits(o), [Next]_vars,
         NEW o \in Operators
  PROVE  CallFits(o)'
<1>1. CASE UNCHANGED vars
  BY <1>1 DEF CallFits, CutAtCap, Matching, Dead, vars, tableVars
<1>2. \A e \in Ids : deadAt'[e] # 0 => e \in rows'
  BY DEF TypeOK
<1>3. CASE \E e \in Ids : Dies(e) \/ Succeeds(e)
  <2>1. PICK e \in Ids : Dies(e) \/ Succeeds(e)
    BY <1>3
  <2>2. /\ Observe /\ call' = call /\ rows' \subseteq rows
        /\ \A d \in Ids : died[d] \subseteq died'[d]
    BY <2>1 DEF Dies, Succeeds, TypeOK
  <2> QED
    BY <2>2, OthersFit
<1>4. ASSUME NEW p \in Operators,
             Begin(p) \/ Count(p) \/ Find(p) \/ Read(p) \/ Write(p) \/ Ends(p)
      PROVE  CallFits(o)'
  <2>1. CASE p = o
    <3>1. CASE Begin(o)
      BY <3>1, BeginFits
    <3>2. CASE Count(o)
      BY <3>2, CountFits
    <3>3. CASE Find(o)
      BY <3>3, FindFits
    <3>4. CASE Read(o)
      BY <3>4, ReadFits
    <3>5. CASE Write(o)
      BY <3>5, WriteFits
    <3>6. CASE Ends(o)
      BY <3>6, EndsFits DEF Ends
    <3> QED
      BY <1>4, <2>1, <3>1, <3>2, <3>3, <3>4, <3>5, <3>6
  <2>2. CASE p # o
    <3>1. call'[o] = call[o]
      BY <1>4, <2>2 DEF Begin, Count, Find, Read, Write, Ends, Moves, Turns, TypeOK
    <3>2. Observe /\ rows' \subseteq rows /\ died' = died
      BY <1>4 DEF Begin, Count, Find, Read, Write, Ends, Moves, tableVars
    <3> QED
      BY <3>1, <3>2, OthersFit
  <2> QED
    BY <2>1, <2>2
<1>5. CASE Page
  <2>1. Observe /\ call' = call /\ rows' = rows /\ died' = died
    BY <1>5 DEF Page, tableVars
  <2> QED
    BY <2>1, OthersFit
<1> QED
  BY <1>1, <1>3, <1>4, <1>5 DEF Next

-----------------------------------------------------------------------------
(* A walk over the pages.                                                  *)

\* A page returns what comes after the cursor and has not been returned, and its own
\* cursor leaves nothing behind that still matches.
LEMMA PageFits ==
  ASSUME TypeOK, WalkFits, Page
  PROVE  WalkFits'
<1>1. PICK f \in PageFilters :
        /\ f \in FilterRecords
        /\ reader' = Paged(f, PageDescending(Matching(f), reader.cursor, Limit))
  BY PageStep
<1>2. PICK page : page = PageDescending(Matching(f), reader.cursor, Limit)
  OBVIOUS
<1>3. Matching(f) \in SUBSET Ids /\ reader.cursor \in Ids \union {NoCursor}
      /\ reader.got \in [Ids -> Nat] /\ reader.stage \in {"idle", "walking"}
  BY Matches, PageStep DEF TypeOK, WalkRecords
<1> DEFINE B == Before(Matching(f), reader.cursor)
<1>4. /\ page.items \subseteq B
      /\ page.next \in Ids \union {NoCursor}
      /\ page.next = NoCursor => page.items = B
      /\ page.next # NoCursor =>
           /\ page.next \in page.items
           /\ \A i \in page.items : page.next <= i
           /\ \A i \in B \ page.items : i < page.next
  BY <1>2, <1>3, PageOf
<1>5. /\ reader'.stage = IF page.next = NoCursor THEN "done" ELSE "walking"
      /\ reader'.filter = f /\ reader'.cursor = page.next
      /\ reader'.got = [e \in Ids |-> reader.got[e] + IF e \in page.items THEN 1 ELSE 0]
      /\ reader'.dead = { r \in Since(f) : r.id \in Dead /\ deadAt[r.id] = r.at }
  BY <1>1, <1>2 DEF Paged
<1>6. /\ \A e \in B : e \in Matching(f)
      /\ \A e \in Matching(f) : e \in B <=> (reader.cursor # NoCursor => e < reader.cursor)
  BY DEF Before
<1>0. /\ \A i \in Ids : i \in Nat /\ i # 0
      /\ \A i, j \in Ids : (~(i < j) <=> i >= j) /\ (i < j <=> ~(j <= i)) /\ ~(i < i)
      /\ \A i, j, k \in Ids : i < j /\ j < k => i < k
  BY DeadLettersAssumption
\* Nothing that the page returns was returned before.
<1>7. ASSUME NEW e \in Ids
      PROVE  /\ reader.got[e] <= 1
             /\ reader.cursor = NoCursor \/ e < reader.cursor => reader.got[e] = 0
  <2>1. CASE reader.stage = "idle"
    BY <2>1, <1>3 DEF WalkFits
  <2>2. CASE reader.stage = "walking"
    BY <2>2, <1>3 DEF WalkFits
  <2> QED
    BY <1>3, <2>1, <2>2
<1>8. ASSUME NEW e \in Ids
      PROVE  /\ e \in page.items => reader.got[e] = 0 /\ reader'.got[e] = 1
             /\ e \notin page.items => reader'.got[e] = reader.got[e]
  <2>1. e \in page.items => reader.got[e] = 0
    BY <1>4, <1>6, <1>7 DEF Before
  <2>2. reader.got[e] \in Nat
    BY <1>3
  <2> QED
    BY <1>5, <2>1, <2>2
\* What has stood since the walk began still matches, and has been returned unless it
\* comes after the cursor.
<1>9. ASSUME NEW r \in reader'.dead
      PROVE  /\ r.id \in Matching(f) /\ TypeOf[r.id] \in f.types /\ r.at <= f.until
             /\ r.id \notin B => reader.got[r.id] = 1
  <2>1. r \in Since(f) /\ r.id \in Dead /\ deadAt[r.id] = r.at
    BY <1>5
  <2>2. CASE reader.stage = "idle"
    <3>1. PICK e \in Matching(f) : r = [id |-> e, at |-> deadAt[e]]
      BY <2>1, <2>2 DEF Since
    <3>2. r.id \in B
      BY <1>6, <2>2, <3>1 DEF WalkFits
    <3> QED
      BY <3>1, <3>2 DEF Matching
  <2>3. CASE reader.stage = "walking"
    <3>1. f = reader.filter /\ r \in reader.dead
      BY <2>1, <2>3 DEF Since, PageFilters
    <3>2. /\ TypeOf[r.id] \in f.types /\ r.at <= f.until
          /\ r.id >= reader.cursor => reader.got[r.id] = 1
      BY <2>3, <3>1 DEF WalkFits
    <3>3. r.id \in Matching(f)
      BY <2>1, <3>2 DEF Matching
    <3>4. r.id \notin B => r.id >= reader.cursor
      BY <1>0, <1>3, <1>6, <3>3 DEF NoCursor
    <3> QED
      BY <3>2, <3>3, <3>4
  <2> QED
    BY <1>3, <2>2, <2>3
<1>10. CASE page.next = NoCursor
  <2>1. reader'.stage = "done"
    BY <1>5, <1>10
  <2>2. \A e \in Ids : reader'.got[e] <= 1
    BY <1>7, <1>8
  <2>3. ASSUME NEW r \in reader'.dead PROVE reader'.got[r.id] = 1
    BY <1>3, <1>4, <1>8, <1>9, <1>10
  <2> QED
    BY <2>1, <2>2, <2>3 DEF WalkFits, WalkIsComplete
<1>11. CASE page.next # NoCursor
  <2>1. reader'.stage = "walking" /\ reader'.cursor # NoCursor
    BY <1>5, <1>11
  <2>2. /\ page.next \in Ids /\ page.next \in page.items
        /\ reader.cursor # NoCursor => page.next < reader.cursor
    BY <1>0, <1>3, <1>4, <1>6, <1>11 DEF Before
  <2>3. ASSUME NEW e \in Ids, e < page.next PROVE e \notin page.items /\ reader.got[e] = 0
    <3>1. e \notin page.items
      BY <1>0, <1>3, <1>4, <1>6, <1>11, <2>2, <2>3
    <3>2. reader.cursor # NoCursor => e < reader.cursor
      BY <1>0, <1>3, <1>6, <2>2, <2>3
    <3> QED
      BY <1>7, <3>1, <3>2
  <2>4. \A e \in Ids : reader'.got[e] <= 1 /\ (e < reader'.cursor => reader'.got[e] = 0)
    BY <1>5, <1>7, <1>8, <2>3
  <2>5. ASSUME NEW r \in reader'.dead, r.id >= page.next PROVE reader'.got[r.id] = 1
    <3>1. r.id \in Ids
      BY <1>3, <1>9
    <3>2. r.id \in B => r.id \in page.items
      BY <1>0, <1>3, <1>4, <1>6, <1>11, <2>2, <2>5, <3>1
    <3> QED
      BY <1>8, <1>9, <3>1, <3>2
  <2> QED
    BY <1>5, <1>9, <2>1, <2>4, <2>5 DEF WalkFits, WalkIsComplete
<1> QED
  BY <1>10, <1>11

\* Nothing but a page moves a walk.
LEMMA WalkKept ==
  ASSUME TypeOK, WalkFits, [Next]_vars
  PROVE  WalkFits'
<1>1. CASE Page
  BY <1>1, PageFits
<1>2. CASE ~Page
  <2>1. reader' = reader
    BY <1>2 DEF Next, vars, Dies, Succeeds, Begin, Count, Find, Read, Write, Ends, Moves
  <2> QED
    BY <2>1 DEF WalkFits, WalkIsComplete
<1> QED
  BY <1>1, <1>2

-----------------------------------------------------------------------------
(* The invariant holds, and the properties follow.                         *)

\* At first nothing is dead, called, logged or read.
LEMMA DeadInit == Init => DeadInv
<1> SUFFICES ASSUME Init PROVE DeadInv
  OBVIOUS
<1>1. /\ rows = Ids /\ deadAt = [e \in Ids |-> 0] /\ clock = 0
      /\ audit = {} /\ died = [e \in Ids |-> {}]
      /\ call = [o \in Operators |-> Idle] /\ reader = Walk
      /\ stays = [o \in Operators |-> {}] /\ grew = {} /\ calls = 0
  BY DEF Init
<1>2. Everything \in FilterRecords
  BY DeadLettersAssumption DEF FilterRecords, Everything
<1>3. /\ Idle \in CallRecords /\ Idle.ids = {} /\ Idle.hit = {} /\ Idle.stage = "idle"
      /\ Idle.by = "ids" /\ Idle.before = NoSnapshots
  BY <1>2 DEF Idle, CallRecords, NoSnapshots
<1>4. /\ Walk \in WalkRecords /\ Walk.stage = "idle" /\ Walk.cursor = NoCursor
      /\ \A e \in Ids : Walk.got[e] = 0
  BY <1>2 DEF Walk, WalkRecords
<1>5. Cardinality({}) = 0 /\ Cap \in Nat
  BY FS_EmptySet, DeadLettersAssumption
<1> HIDE DEF Idle, Walk
<1>6. TypeOK
  BY <1>1, <1>3, <1>4, <1>5 DEF TypeOK
<1>7. EveryDeathLogged /\ SnapshotsAreEarlier
  BY <1>1 DEF EveryDeathLogged, SnapshotsAreEarlier
<1>8. \A o \in Operators : CallFits(o)
  BY <1>1, <1>3 DEF CallFits, NoSnapshots
<1>9. WalkFits
  BY <1>1, <1>4 DEF WalkFits, WalkIsComplete
<1> QED
  BY <1>6, <1>7, <1>8, <1>9 DEF DeadInv

\* No step breaks it.
LEMMA DeadStep == DeadInv /\ [Next]_vars => DeadInv'
<1> SUFFICES ASSUME DeadInv, [Next]_vars PROVE DeadInv'
  OBVIOUS
<1>1. TypeOK'
  BY TypesKept DEF DeadInv
<1>2. EveryDeathLogged' /\ SnapshotsAreEarlier'
  BY LogKept DEF DeadInv
<1>3. \A o \in Operators : CallFits(o)'
  BY <1>1, CallsKept DEF DeadInv
<1>4. WalkFits'
  BY WalkKept DEF DeadInv
<1> QED
  BY <1>1, <1>2, <1>3, <1>4 DEF DeadInv

\* No call names more than BULK_CAP events, and dead_at is the last death of a row.
THEOREM CallsStayCapped == Spec => []TypeOK
<1>1. DeadInv => TypeOK
  BY DEF DeadInv
<1> QED
  BY <1>1, DeadInit, DeadStep, PTL DEF Spec

\* The audit log tells of every death that an operator undid or removed, once, however
\* many operators, the worker and readers interleave.
THEOREM DeathsAreLogged == Spec => []EveryDeathLogged
<1>1. DeadInv => EveryDeathLogged
  BY DEF DeadInv
<1> QED
  BY <1>1, DeadInit, DeadStep, PTL DEF Spec

\* A snapshot that is not of the death that was undone is missing, or of an earlier one
\* that the log tells of.
THEOREM SnapshotsAreOfDeaths == Spec => []SnapshotsAreEarlier
<1>1. DeadInv => SnapshotsAreEarlier
  BY DEF DeadInv
<1> QED
  BY <1>1, DeadInit, DeadStep, PTL DEF Spec

\* A bulk call by filter leaves a match that has stood since its count only when others
\* have joined in between, and then it has taken as many as the cap.
THEOREM BulkIsCompleteUpToCap == Spec => []BulkTakesAllOrCap
<1>1. DeadInv => BulkTakesAllOrCap
  BY DEF DeadInv, CallFits, BulkTakesAllOrCap, CutAtCap
<1> QED
  BY <1>1, DeadInit, DeadStep, PTL DEF Spec

\* A walk of any page size over a list that changes returns no event twice and leaves
\* out none that has stayed dead.
THEOREM WalksAreComplete == Spec => []WalkIsComplete
<1>1. DeadInv => WalkIsComplete
  BY DEF DeadInv, WalkFits
<1> QED
  BY <1>1, DeadInit, DeadStep, PTL DEF Spec

-----------------------------------------------------------------------------
(* The contract of module Delivery.                                        *)

\* What an operator has discarded has no row, and never gets one again.
DiscardedAreGone == \A x \in audit : x.act = "purge" => x.id \notin rows

LEMMA DiscardedStay ==
  ASSUME DiscardedAreGone, [Next]_vars
  PROVE  DiscardedAreGone'
<1>1. CASE UNCHANGED << deadAt, audit, died, rows >>
  BY <1>1 DEF DiscardedAreGone
<1>2. ASSUME NEW e \in Ids, Dies(e) \/ Succeeds(e) PROVE DiscardedAreGone'
  BY <1>2 DEF Dies, Succeeds, DiscardedAreGone
<1>3. ASSUME NEW o \in Operators, Write(o) PROVE DiscardedAreGone'
  <2>1. /\ rows' = IF call[o].op = "purge" THEN rows \ Hit(call[o].ids) ELSE rows
        /\ audit' = audit \union Entries(call[o])
    BY <1>3 DEF Write
  <2>2. \A x \in Entries(call[o]) : x.act = call[o].op /\ x.id \in Hit(call[o].ids)
    BY DEF Entries
  <2> QED
    BY <2>1, <2>2 DEF DiscardedAreGone
<1> QED
  BY <1>1, <1>2, <1>3, WhoWrites

\* The events whose status a step changes.
Changed == { e \in Ids : StatusOf(e)' # StatusOf(e) }

\* A step that takes the events of S from one status to another, and leaves the others
\* theirs.
LEMMA BecomesStatus ==
  ASSUME NEW S \in SUBSET Ids, NEW s, NEW t, s # t,
         \A e \in S : StatusOf(e) = t,
         \A e \in Ids : StatusOf(e)' = IF e \in S THEN s ELSE StatusOf(e)
  PROVE  Changed = S /\ Contract!Become(S, s)
<1>1. Contract!Become(S, s)
  BY DEF Contract!Become
<1>2. \A e \in Ids : StatusOf(e)' # StatusOf(e) <=> e \in S
  OBVIOUS
<1> QED
  BY <1>1, <1>2 DEF Changed

\* What a call or the worker does is a step of the contract.
LEMMA ContractSteps ==
  ASSUME NEW S \in SUBSET Ids, ContractStep(S)
  PROVE  Contract!Next
BY DEF ContractStep, Contract!Next

\* The tables decide the status.
LEMMA SameStatus ==
  ASSUME UNCHANGED << deadAt, audit, rows >>
  PROVE  UNCHANGED Contract!vars
BY DEF Contract!vars, StatusOf, Dead

\* The statement that writes is one revive or one purge of the dead letters it takes.
LEMMA WriteIsOneStep ==
  ASSUME TypeOK, DiscardedAreGone, NEW o \in Operators, CallFits(o), Write(o)
  PROVE  ContractStep(Changed)
<1> DEFINE h == call[o]
           S == Hit(h.ids)
<1>1. /\ h.op \in {"revive", "purge"}
      /\ rows' = IF h.op = "purge" THEN rows \ S ELSE rows
      /\ deadAt' = [e \in Ids |-> IF e \in S THEN 0 ELSE deadAt[e]]
      /\ audit' = audit \union Entries(h)
  BY DEF Write, CallFits, TypeOK, CallRecords
<1>2. S \subseteq Dead /\ S \in SUBSET Ids /\ Dead \subseteq rows
  BY DEF Hit, Dead, TypeOK
<1>3. \A e \in S : StatusOf(e) = "dead"
  BY <1>2 DEF StatusOf
<1>4. /\ \A x \in Entries(h) : x.act = h.op /\ x.id \in S
      /\ \A e \in S : \E x \in Entries(h) : x.act = h.op /\ x.id = e
  <2> DEFINE entry(e) == [act |-> h.op, id |-> e, was |-> deadAt[e],
                          before |-> IF h.op = "purge" THEN deadAt[e] ELSE h.before[e]]
  <2>1. Entries(h) = { entry(e) : e \in S }
    BY DEF Entries
  <2>2. \A e \in S : entry(e).act = h.op /\ entry(e).id = e
    OBVIOUS
  <2> HIDE DEF entry, S, h
  <2> QED
    BY <2>1, <2>2
<1> HIDE DEF S, h
<1>5. Dead' = Dead \ S
  BY <1>1, <1>2 DEF Dead, TypeOK
<1>6. CASE h.op = "revive"
  <2>1. rows' = rows
    BY <1>1, <1>6
  <2>2. ASSUME NEW e \in Ids
        PROVE  (\E x \in audit' : x.id = e /\ x.act = "purge")
                 <=> (\E x \in audit : x.id = e /\ x.act = "purge")
    BY <1>1, <1>4, <1>6
  <2>3. ASSUME NEW e \in Ids PROVE StatusOf(e)' = IF e \in S THEN "pending" ELSE StatusOf(e)
    BY <1>2, <1>5, <2>1, <2>2 DEF StatusOf
  <2>4. Changed = S /\ Contract!Become(S, "pending")
    BY <1>2, <1>3, <2>3, BecomesStatus
  <2>5. Contract!Revive(S)
    BY <1>2, <1>3, <2>4 DEF Contract!Revive
  <2> QED
    BY <2>4, <2>5 DEF ContractStep
<1>7. CASE h.op = "purge"
  <2>1. rows' = rows \ S
    BY <1>1, <1>7
  <2>2. ASSUME NEW e \in S
        PROVE  \E x \in audit' : x.id = e /\ x.act = "purge"
    BY <1>1, <1>4, <1>7
  <2>3. ASSUME NEW e \in Ids \ S
        PROVE  (\E x \in audit' : x.id = e /\ x.act = "purge")
                 <=> (\E x \in audit : x.id = e /\ x.act = "purge")
    BY <1>1, <1>4
  <2>4. ASSUME NEW e \in Ids PROVE StatusOf(e)' = IF e \in S THEN "purged" ELSE StatusOf(e)
    <3>1. CASE e \in S
      BY <1>5, <2>1, <2>2, <3>1 DEF StatusOf
    <3>2. CASE e \notin S
      BY <1>5, <2>1, <2>3, <3>2 DEF StatusOf
    <3> QED
      BY <3>1, <3>2
  <2>5. Changed = S /\ Contract!Become(S, "purged")
    BY <1>2, <1>3, <2>4, BecomesStatus
  <2>6. Contract!Purge(S)
    BY <1>2, <1>3, <2>5 DEF Contract!Purge
  <2> QED
    BY <2>5, <2>6 DEF ContractStep
<1> QED
  BY <1>1, <1>6, <1>7

\* The worker retires and completes.
LEMMA WorkerKeepsContract ==
  ASSUME TypeOK, DiscardedAreGone, NEW e \in Ids, Dies(e) \/ Succeeds(e)
  PROVE  ContractStep(Changed)
<1>1. e \in rows /\ deadAt[e] = 0 /\ e \notin Dead /\ StatusOf(e) = "pending" /\ audit' = audit
  BY DEF Dies, Succeeds, Dead, StatusOf
<1>2. CASE Dies(e)
  <2>1. rows' = rows /\ deadAt' = [deadAt EXCEPT ![e] = clock + 1] /\ clock \in Nat
    BY <1>2 DEF Dies, TypeOK
  <2>2. Dead' = Dead \union {e}
    BY <1>1, <2>1 DEF Dead, TypeOK
  <2>3. \A d \in Ids : StatusOf(d)' = IF d \in {e} THEN "dead" ELSE StatusOf(d)
    BY <1>1, <2>1, <2>2 DEF StatusOf
  <2>4. Changed = {e} /\ Contract!Become({e}, "dead")
    BY <1>1, <2>3, BecomesStatus
  <2>5. Contract!Retire(e)
    BY <1>1, <2>4 DEF Contract!Retire
  <2> QED
    BY <2>4, <2>5 DEF ContractStep, Contract!Settle
<1>3. CASE Succeeds(e)
  <2>1. rows' = rows \ {e} /\ deadAt' = deadAt
    BY <1>3 DEF Succeeds
  <2>2. Dead' = Dead
    BY <1>1, <2>1 DEF Dead
  <2>3. ~ \E x \in audit : x.id = e /\ x.act = "purge"
    BY <1>1 DEF DiscardedAreGone
  <2>4. \A d \in Ids : StatusOf(d)' = IF d \in {e} THEN "done" ELSE StatusOf(d)
    BY <1>1, <2>1, <2>2, <2>3 DEF StatusOf
  <2>5. Changed = {e} /\ Contract!Become({e}, "done")
    BY <1>1, <2>4, BecomesStatus
  <2>6. Contract!Complete(e)
    BY <1>1, <2>5 DEF Contract!Complete
  <2> QED
    BY <2>5, <2>6 DEF ContractStep, Contract!Settle
<1> QED
  BY <1>2, <1>3

\* However many operators, each call is to everybody else one revive or one purge of dead
\* letters, no other step is seen but the worker's, and so each step is one of the
\* contract or a stutter.
THEOREM CallsKeepContract == Spec => CallsAreOneStep /\ [][Contract!Next]_(Contract!vars)
<1>1. Init => DiscardedAreGone
  BY DEF Init, DiscardedAreGone
<1>2. DiscardedAreGone /\ [Next]_vars => DiscardedAreGone'
  BY DiscardedStay
<1>3. ASSUME DeadInv, DiscardedAreGone, [Next]_vars
      PROVE  UNCHANGED << rows, deadAt, audit >> \/ ContractStep(Changed)
  <2>1. ASSUME NEW e \in Ids, Dies(e) \/ Succeeds(e) PROVE ContractStep(Changed)
    BY <1>3, <2>1, WorkerKeepsContract DEF DeadInv
  <2>2. ASSUME NEW o \in Operators, Write(o) PROVE ContractStep(Changed)
    BY <1>3, <2>2, WriteIsOneStep DEF DeadInv
  <2> QED
    BY <1>3, <2>1, <2>2, WhoWrites
<1>4. DeadInv /\ DiscardedAreGone /\ [Next]_vars
        => [\/ UNCHANGED << rows, deadAt, audit >>
            \/ ContractStep({ e \in Ids : StatusOf(e)' # StatusOf(e) })]_vars
  BY <1>3 DEF Changed
<1>5. DeadInv /\ DiscardedAreGone /\ [Next]_vars => [Contract!Next]_(Contract!vars)
  <2>1. Changed \in SUBSET Ids
    BY DEF Changed
  <2> QED
    BY <1>3, <2>1, SameStatus, ContractSteps
<1> QED
  BY <1>1, <1>2, <1>4, <1>5, DeadInit, DeadStep, PTL DEF Spec, CallsAreOneStep
=============================================================================
