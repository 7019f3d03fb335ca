-------------------------- MODULE PermissionsProofs --------------------------
(***************************************************************************)
(* The tenant tree, its recursive queries and what names mean in it, for   *)
(* any number of tenants, scopes and names: the queries end and find what  *)
(* the rule of inheritance says, a name means one scope, and grants and    *)
(* names meet.                                                             *)
(***************************************************************************)
EXTENDS Permissions, FiniteSetTheorems, WellFoundedInduction, TLAPS

-----------------------------------------------------------------------------
(* The inductive invariant.                                                *)

\* The rows are a tree: every parent is a row, only the master has none, and no set of
\* tenants has all its parents within itself.
TreeInv ==
  /\ Master \in rows /\ rows \subseteq issued /\ issued \subseteq Ids \union {Master}
  /\ IsFiniteSet(rows)
  /\ parent \in [rows -> rows \union {NoTenant}] /\ inherit \in [rows -> BOOLEAN]
  /\ \A t \in rows : parent[t] = NoTenant <=> t = Master
  /\ \A S \in SUBSET rows : S # {} => \E t \in S : parent[t] \notin S

\* A scope is of a tenant that exists, and no other scope of that tenant has its name.
ScopesInv ==
  /\ scopes \subseteq drawn
  /\ home \in [scopes -> rows] /\ name \in [scopes -> Names]
  /\ \A r, s \in scopes : home[r] = home[s] /\ name[r] = name[s] => r = s

PermissionsInv == TreeInv /\ ScopesInv

-----------------------------------------------------------------------------
(* The tree.                                                               *)

LEMMA TreeInit == Init => TreeInv
<1> SUFFICES ASSUME Init PROVE TreeInv
  OBVIOUS
<1>1. /\ rows = {Master} /\ issued = {Master}
      /\ parent = [t \in {Master} |-> NoTenant] /\ inherit = [t \in {Master} |-> TRUE]
  BY DEF Init
<1>2. IsFiniteSet({Master}) /\ Master # NoTenant
  BY FS_Singleton, TreeAssumption
<1>3. \A S \in SUBSET rows : S # {} => Master \in S /\ parent[Master] \notin S
  BY <1>1, <1>2
<1> QED
  BY <1>1, <1>2, <1>3 DEF TreeInv

\* A new leaf closes no cycle, since nothing refers to it.
LEMMA CreateKeepsTree ==
  ASSUME TreeInv, NEW t \in Ids, NEW p \in rows, NEW inh \in BOOLEAN, Create(t, p, inh)
  PROVE  TreeInv'
<1>1. /\ t \notin rows /\ rows' = rows \union {t} /\ issued' = issued \union {t}
      /\ parent' = [u \in rows' |-> IF u = t THEN p ELSE parent[u]]
      /\ inherit' = [u \in rows' |-> IF u = t THEN inh ELSE inherit[u]]
      /\ NoTenant \notin rows' /\ p # t /\ t # Master
  BY TreeAssumption DEF Create, TreeInv
<1>2. IsFiniteSet(rows')
  BY <1>1, FS_AddElement DEF TreeInv
<1>3. /\ parent' \in [rows' -> rows' \union {NoTenant}] /\ inherit' \in [rows' -> BOOLEAN]
      /\ \A u \in rows : parent'[u] = parent[u]
      /\ parent'[t] = p
  BY <1>1 DEF TreeInv
<1>4. ASSUME NEW S \in SUBSET rows', S # {} PROVE \E u \in S : parent'[u] \notin S
  <2>1. CASE S \ {t} = {}
    BY <1>1, <1>3, <1>4, <2>1
  <2>2. CASE S \ {t} # {}
    <3>1. S \ {t} \in SUBSET rows
      BY <1>1
    <3>2. PICK u \in S \ {t} : parent[u] \notin S \ {t}
      BY <2>2, <3>1 DEF TreeInv
    <3>3. u \in rows /\ parent[u] # t
      BY <1>1, <3>1, <3>2, TreeAssumption DEF TreeInv
    <3> QED
      BY <1>3, <3>2, <3>3
  <2> QED
    BY <2>1, <2>2
<1>5. \A u \in rows' : parent'[u] = NoTenant <=> u = Master
  BY <1>1, <1>3 DEF TreeInv
<1>6. Master \in rows' /\ rows' \subseteq issued' /\ issued' \subseteq Ids \union {Master}
  BY <1>1 DEF TreeInv
<1> QED
  BY <1>2, <1>3, <1>4, <1>5, <1>6 DEF TreeInv

\* A row without children is nobody's parent.
LEMMA DeleteKeepsTree ==
  ASSUME TreeInv, NEW t \in Ids, Delete(t)
  PROVE  TreeInv'
<1>1. /\ t \in rows \ {Master} /\ \A c \in rows : parent[c] # t
      /\ rows' = rows \ {t} /\ issued' = issued
      /\ parent' = [u \in rows' |-> parent[u]] /\ inherit' = [u \in rows' |-> inherit[u]]
  BY DEF Delete
<1>2. IsFiniteSet(rows')
  BY <1>1, FS_RemoveElement DEF TreeInv
<1>3. /\ parent' \in [rows' -> rows' \union {NoTenant}] /\ inherit' \in [rows' -> BOOLEAN]
      /\ \A u \in rows' : parent'[u] = parent[u]
  BY <1>1 DEF TreeInv
<1>4. ASSUME NEW S \in SUBSET rows', S # {} PROVE \E u \in S : parent'[u] \notin S
  BY <1>1, <1>3, <1>4 DEF TreeInv
<1> QED
  BY <1>1, <1>2, <1>3, <1>4 DEF TreeInv

-----------------------------------------------------------------------------
(* Ancestors.                                                              *)

\* What holds of a tenant when it holds of its parent, if any, holds of all.
LEMMA DownTheTree ==
  ASSUME TreeInv, NEW S \in SUBSET rows,
         \A t \in rows : parent[t] = NoTenant \/ parent[t] \in S => t \in S
  PROVE  S = rows
<1>1. rows \ S = {}
  <2> SUFFICES ASSUME rows \ S # {} PROVE FALSE
    OBVIOUS
  <2>1. PICK t \in rows \ S : parent[t] \notin rows \ S
    BY DEF TreeInv
  <2>2. parent[t] \in rows \union {NoTenant}
    BY DEF TreeInv
  <2> QED
    BY <2>1, <2>2
<1> QED
  BY <1>1

\* The equation of the recursive function: the smallest sets that contain a tenant and
\* with each tenant its parent satisfy it.
LEMMA ChainDef ==
  ASSUME TreeInv
  PROVE  \A t \in rows : Chain(t) = {t} \union (IF parent[t] = NoTenant THEN {} ELSE Chain(parent[t]))
<1> DEFINE Closed(C) == \A c \in C : parent[c] = NoTenant \/ parent[c] \in C
           Up(t) == { u \in rows : \A C \in SUBSET rows : t \in C /\ Closed(C) => u \in C }
           f == [t \in rows |-> Up(t)]
           Rec(g) == [t \in rows |-> {t} \union (IF parent[t] = NoTenant THEN {} ELSE g[parent[t]])]
<1>0. parent \in [rows -> rows \union {NoTenant}]
  BY DEF TreeInv
<1>1. ASSUME NEW t \in rows
      PROVE  Up(t) = {t} \union (IF parent[t] = NoTenant THEN {} ELSE Up(parent[t]))
  <2>1. t \in Up(t) /\ Closed(Up(t))
    BY <1>0
  <2>2. parent[t] # NoTenant => parent[t] \in rows /\ Up(parent[t]) \subseteq Up(t)
    BY <1>0
  <2>3. CASE parent[t] = NoTenant
    <3>1. {t} \in SUBSET rows /\ Closed({t})
      BY <2>3
    <3> QED
      BY <2>1, <2>3, <3>1
  <2>4. CASE parent[t] # NoTenant
    <3> DEFINE C == {t} \union Up(parent[t])
    <3>1. parent[t] \in Up(parent[t]) /\ Closed(Up(parent[t]))
      BY <1>0, <2>2, <2>4
    <3>2. C \in SUBSET rows /\ Closed(C) /\ t \in C
      BY <3>1
    <3>3. Up(t) \subseteq C
      BY <3>2
    <3> QED
      BY <2>1, <2>2, <2>4, <3>3
  <2> QED
    BY <2>3, <2>4
<1>2. \A t \in rows : parent[t] # NoTenant => parent[t] \in rows
  BY <1>0
<1> HIDE DEF Up
<1>3. f = Rec(f)
  BY <1>1, <1>2
<1>4. Rule!Ancestors = CHOOSE g : g = Rec(g)
  BY DEF Rule!Ancestors
<1> HIDE DEF f, Rec
<1>5. Rule!Ancestors = Rec(Rule!Ancestors)
  BY <1>3, <1>4, Zenon
<1> QED
  BY <1>5 DEF Rec, Chain

\* A tenant is in its chain, which consists of rows; so is its parent's chain.
LEMMA ChainStep ==
  ASSUME TreeInv, NEW t \in rows
  PROVE  /\ t \in Chain(t)
         /\ parent[t] = NoTenant => Chain(t) = {t}
         /\ parent[t] # NoTenant => parent[t] \in rows /\ Chain(t) = {t} \union Chain(parent[t])
BY ChainDef DEF TreeInv

\* The chains of a tree: rows, with all that is above each of them, and the master.
LEMMA ChainRows ==
  ASSUME TreeInv, NEW t \in rows
  PROVE  Chain(t) \subseteq rows /\ Master \in Chain(t) /\ \A u \in Chain(t) : Chain(u) \subseteq Chain(t)
<1> DEFINE S == { x \in rows : /\ Chain(x) \subseteq rows /\ Master \in Chain(x)
                               /\ \A u \in Chain(x) : Chain(u) \subseteq Chain(x) }
<1>1. ASSUME NEW x \in rows, parent[x] = NoTenant \/ parent[x] \in S PROVE x \in S
  <2>1. CASE parent[x] = NoTenant
    <3>1. Chain(x) = {x} /\ x = Master
      BY <2>1, ChainStep DEF TreeInv
    <3> QED
      BY <3>1
  <2>2. CASE parent[x] # NoTenant
    <3>1. Chain(x) = {x} \union Chain(parent[x]) /\ parent[x] \in S
      BY <1>1, <2>2, ChainStep
    <3> QED
      BY <3>1
  <2> QED
    BY <2>1, <2>2
<1> HIDE DEF S
<1>2. S \in SUBSET rows
  BY DEF S
<1>3. S = rows
  BY <1>1, <1>2, DownTheTree
<1> QED
  BY <1>3 DEF S

\* No tenant is above its own parent.
LEMMA NotAboveItself ==
  ASSUME TreeInv, NEW t \in rows, parent[t] # NoTenant
  PROVE  t \notin Chain(parent[t])
<1> SUFFICES ASSUME t \in Chain(parent[t]) PROVE FALSE
  OBVIOUS
<1> DEFINE S == { x \in Chain(t) : t \in Chain(x) }
<1>1. t \in S /\ S \in SUBSET rows
  BY ChainStep, ChainRows
<1>2. PICK x \in S : parent[x] \notin S
  BY <1>1 DEF TreeInv
<1>3. x \in rows /\ x \in Chain(t) /\ t \in Chain(x)
  BY <1>1
<1>4. CASE x = t
  <2>1. parent[t] \in rows /\ Chain(t) = {t} \union Chain(parent[t])
    BY ChainStep
  <2>2. parent[t] \in Chain(parent[t])
    BY <2>1, ChainStep
  <2> QED
    BY <1>2, <1>4, <2>1, <2>2
<1>5. CASE x # t
  <2>1. /\ parent[x] # NoTenant /\ parent[x] \in rows
        /\ Chain(x) = {x} \union Chain(parent[x])
    BY <1>3, <1>5, ChainStep
  <2>2. parent[x] \in Chain(x) /\ t \in Chain(parent[x])
    BY <1>3, <1>5, <2>1, ChainStep
  <2>3. parent[x] \in Chain(t)
    BY <1>3, <2>2, ChainRows
  <2> QED
    BY <1>2, <2>2, <2>3
<1> QED
  BY <1>4, <1>5

\* Of two tenants in a chain, one is above the other, and not both.
LEMMA ChainIsLine ==
  ASSUME TreeInv, NEW t \in rows
  PROVE  /\ \A u, v \in Chain(t) : u \in Chain(v) \/ v \in Chain(u)
         /\ \A u \in Chain(t) : t \in Chain(u) => u = t
<1> DEFINE S == { x \in rows : \A u, v \in Chain(x) : u \in Chain(v) \/ v \in Chain(u) }
<1>1. ASSUME NEW x \in rows, parent[x] = NoTenant \/ parent[x] \in S PROVE x \in S
  <2>1. CASE parent[x] = NoTenant
    BY <2>1, ChainStep
  <2>2. CASE parent[x] # NoTenant
    <3>1. Chain(x) = {x} \union Chain(parent[x]) /\ parent[x] \in S
      BY <1>1, <2>2, ChainStep
    <3> QED
      BY <3>1
  <2> QED
    BY <2>1, <2>2
<1> HIDE DEF S
<1>2. S \in SUBSET rows
  BY DEF S
<1>3. S = rows
  BY <1>1, <1>2, DownTheTree
<1>4. ASSUME NEW u \in Chain(t), t \in Chain(u), u # t PROVE FALSE
  <2>1. /\ parent[t] # NoTenant /\ parent[t] \in rows
        /\ Chain(t) = {t} \union Chain(parent[t])
    BY <1>4, ChainStep
  <2>2. Chain(u) \subseteq Chain(parent[t])
    BY <1>4, <2>1, ChainRows
  <2> QED
    BY <1>4, <2>1, <2>2, NotAboveItself
<1> QED
  BY <1>3, <1>4 DEF S

\* On the way up to a tenant there is a child of it.
LEMMA ChildInChain ==
  ASSUME TreeInv, NEW t \in rows, NEW u \in Chain(t), u # t
  PROVE  \E c \in Chain(t) : parent[c] = u
<1> DEFINE S == { x \in rows : u \in Chain(x) /\ u # x => \E c \in Chain(x) : parent[c] = u }
<1>1. ASSUME NEW x \in rows, parent[x] = NoTenant \/ parent[x] \in S PROVE x \in S
  <2> SUFFICES ASSUME u \in Chain(x), u # x PROVE \E c \in Chain(x) : parent[c] = u
    OBVIOUS
  <2>1. /\ parent[x] # NoTenant /\ parent[x] \in S
        /\ Chain(x) = {x} \union Chain(parent[x])
    BY <1>1, ChainStep
  <2>2. CASE parent[x] = u
    BY <2>1, <2>2
  <2>3. CASE parent[x] # u
    BY <2>1, <2>3
  <2> QED
    BY <2>2, <2>3
<1> HIDE DEF S
<1>2. S \in SUBSET rows
  BY DEF S
<1>3. S = rows
  BY <1>1, <1>2, DownTheTree
<1> QED
  BY <1>3 DEF S

\* How many tenants are at or above one.
Depth(t) == Cardinality(Chain(t))

\* A child is one deeper than its parent, and whoever is below is deeper.
LEMMA Depths ==
  ASSUME TreeInv, NEW t \in rows
  PROVE  /\ Depth(t) \in Nat /\ 1 <= Depth(t) /\ Depth(t) <= Cardinality(rows)
         /\ parent[t] # NoTenant => Depth(t) = Depth(parent[t]) + 1
         /\ \A u \in Chain(t) : Depth(u) \in Nat /\ Depth(u) <= Depth(t) /\ (Depth(u) = Depth(t) => u = t)
<1>1. \A x \in rows : Chain(x) \in SUBSET rows /\ IsFiniteSet(Chain(x)) /\ Depth(x) \in Nat
                        /\ Depth(x) <= Cardinality(rows)
  BY ChainRows, FS_Subset, FS_CardinalityType DEF TreeInv, Depth
<1>2. 1 <= Depth(t)
  <2>1. Chain(t) # {}
    BY ChainStep
  <2>2. Depth(t) # 0
    BY <1>1, <2>1, FS_EmptySet DEF Depth
  <2> QED
    BY <1>1, <2>2
<1>3. ASSUME parent[t] # NoTenant PROVE Depth(t) = Depth(parent[t]) + 1
  <2>1. /\ parent[t] \in rows /\ Chain(t) = Chain(parent[t]) \union {t}
        /\ t \notin Chain(parent[t])
    BY <1>3, ChainStep, NotAboveItself
  <2> QED
    BY <1>1, <2>1, FS_AddElement DEF Depth
<1>4. ASSUME NEW u \in Chain(t)
      PROVE  Depth(u) \in Nat /\ Depth(u) <= Depth(t) /\ (Depth(u) = Depth(t) => u = t)
  <2>1. u \in rows /\ Chain(u) \in SUBSET Chain(t)
    BY <1>4, ChainRows
  <2>2. Depth(u) <= Depth(t) /\ (Depth(u) = Depth(t) => Chain(u) = Chain(t))
    BY <1>1, <2>1, FS_Subset DEF Depth
  <2>3. Chain(u) = Chain(t) => u = t
    BY <1>4, ChainStep, ChainIsLine
  <2> QED
    BY <1>1, <2>1, <2>2, <2>3
<1> QED
  BY <1>1, <1>2, <1>3, <1>4

-----------------------------------------------------------------------------
(* The scopes, and the invariant of every behaviour.                       *)

LEMMA ScopeStepKeepsInv ==
  ASSUME PermissionsInv, ScopeStep
  PROVE  PermissionsInv'
<1>1. PICK s \in ScopeIds, n \in Names : RenameScope(s, n) \/ \E t \in rows : CreateScope(s, t, n)
  BY DEF ScopeStep
<1>2. UNCHANGED vars
  BY <1>1 DEF RenameScope, CreateScope
<1>3. TreeInv'
  BY <1>2 DEF PermissionsInv, TreeInv, vars
<1>4. CASE RenameScope(s, n)
  <2>1. /\ s \in scopes /\ \A r \in scopes : ~(home[r] = home[s] /\ name[r] = n)
        /\ name' = [name EXCEPT ![s] = n]
        /\ scopes' = scopes /\ drawn' = drawn /\ home' = home /\ rows' = rows
    BY <1>4 DEF RenameScope, NameFree, vars
  <2> QED
    BY <1>3, <2>1 DEF PermissionsInv, ScopesInv
<1>5. ASSUME NEW t \in rows, CreateScope(s, t, n) PROVE PermissionsInv'
  <2>1. /\ s \notin drawn /\ \A r \in scopes : ~(home[r] = t /\ name[r] = n)
        /\ scopes' = scopes \union {s} /\ drawn' = drawn \union {s} /\ rows' = rows
        /\ home' = [r \in scopes' |-> IF r = s THEN t ELSE home[r]]
        /\ name' = [r \in scopes' |-> IF r = s THEN n ELSE name[r]]
    BY <1>5 DEF CreateScope, NameFree, vars
  <2>2. home' \in [scopes' -> rows'] /\ name' \in [scopes' -> Names]
    BY <2>1 DEF PermissionsInv, ScopesInv
  <2>3. /\ s \notin scopes /\ home'[s] = t /\ name'[s] = n
        /\ \A r \in scopes : home'[r] = home[r] /\ name'[r] = name[r]
    BY <2>1 DEF PermissionsInv, ScopesInv
  <2>4. \A r, q \in scopes' : home'[r] = home'[q] /\ name'[r] = name'[q] => r = q
    BY <2>1, <2>3 DEF PermissionsInv, ScopesInv
  <2> QED
    BY <1>3, <2>1, <2>2, <2>4 DEF PermissionsInv, ScopesInv
<1> QED
  BY <1>1, <1>4, <1>5

\* What a step does to the invariant: a deleted tenant takes its scopes along.
LEMMA StepKeepsInv ==
  ASSUME PermissionsInv, [PermissionsNext]_allVars
  PROVE  PermissionsInv'
<1>1. CASE ScopeStep
  BY <1>1, ScopeStepKeepsInv
<1>2. ASSUME NEW t \in Ids, NEW p \in rows, NEW inh \in BOOLEAN, Create(t, p, inh), UNCHANGED scopeVars
      PROVE  PermissionsInv'
  <2>1. TreeInv'
    BY <1>2, CreateKeepsTree DEF PermissionsInv
  <2>2. rows \subseteq rows'
    BY <1>2 DEF Create
  <2> QED
    BY <1>2, <2>1, <2>2 DEF PermissionsInv, ScopesInv, scopeVars
<1>3. ASSUME NEW t \in Ids, Delete(t), CascadeScopes, UNCHANGED drawn PROVE PermissionsInv'
  <2>1. TreeInv'
    BY <1>3, DeleteKeepsTree DEF PermissionsInv
  <2>2. /\ scopes' \subseteq scopes /\ drawn' = drawn
        /\ \A s \in scopes' : home[s] \in rows' /\ home'[s] = home[s] /\ name'[s] = name[s]
        /\ home' = [s \in scopes' |-> home[s]] /\ name' = [s \in scopes' |-> name[s]]
    BY <1>3 DEF CascadeScopes
  <2>3. home' \in [scopes' -> rows'] /\ name' \in [scopes' -> Names]
    BY <2>2 DEF PermissionsInv, ScopesInv
  <2> QED
    BY <2>1, <2>2, <2>3 DEF PermissionsInv, ScopesInv
<1>4. CASE UNCHANGED allVars
  BY <1>4 DEF PermissionsInv, TreeInv, ScopesInv, allVars, vars, scopeVars
<1> QED
  BY <1>1, <1>2, <1>3, <1>4 DEF PermissionsNext

LEMMA InvHolds == PermissionsSpec => []PermissionsInv
<1>1. PermissionsInit => PermissionsInv
  BY TreeInit DEF PermissionsInit, PermissionsInv, ScopesInv
<1>2. PermissionsInv /\ [PermissionsNext]_allVars => PermissionsInv'
  BY StepKeepsInv
<1> QED
  BY <1>1, <1>2, PTL DEF PermissionsSpec

-----------------------------------------------------------------------------
(* The rounds of the two recursive queries.                                *)

\* A finite set of numbers that is not empty has a least member.
LEMMA HasLeast ==
  ASSUME NEW S \in SUBSET Nat, IsFiniteSet(S), S # {}
  PROVE  \E m \in S : \A i \in S : m <= i
<1> DEFINE Below(m) == { i \in S : i < m }
           C == { Below(m) : m \in S }
           R == StrictSubsetOrdering(S)
<1>1. /\ \A i \in S : ~(i < i)
      /\ \A i, j \in S : ~(i <= j) => j < i
      /\ \A i, j, k \in S : i < j /\ j < k => i < k
  OBVIOUS
<1>2. IsWellFoundedOn(R, FiniteSubsetsOf(S))
  BY FS_StrictSubsetOrderingWellFounded
<1>3. C \subseteq FiniteSubsetsOf(S) /\ C # {}
  <2>1. \A T \in SUBSET S : T \in FiniteSubsetsOf(S)
    BY FS_Subset DEF FiniteSubsetsOf
  <2> QED
    BY <2>1
<1>4. \A U, T \in SUBSET S : U \subseteq T /\ U # T => << U, T >> \in R
  BY DEF StrictSubsetOrdering
<1> HIDE DEF R
<1>5. PICK T \in C : \A U \in C : ~ (<< U, T >> \in R)
  BY <1>2, <1>3, WFMin
<1>6. PICK m \in S : T = Below(m)
  OBVIOUS
<1>7. ASSUME NEW i \in S, ~(m <= i) PROVE FALSE
  <2>1. Below(i) \subseteq T /\ i \in T /\ i \notin Below(i)
    BY <1>1, <1>6, <1>7
  <2>2. << Below(i), T >> \in R
    BY <1>4, <1>6, <2>1
  <2> QED
    BY <1>5, <2>2
<1> QED
  BY <1>7

\* Two functions of the rounds that agree at first, and at each round if at the one
\* before, are the same.
LEMMA RoundsAgree ==
  ASSUME NEW N \in Nat, NEW f, NEW g, f[0] = g[0],
         \A n \in 1 .. N : f[n - 1] = g[n - 1] => f[n] = g[n]
  PROVE  \A n \in 0 .. N : f[n] = g[n]
<1> DEFINE Bad == { n \in 0 .. N : f[n] # g[n] }
<1> SUFFICES ASSUME Bad # {} PROVE FALSE
  OBVIOUS
<1>1. Bad \in SUBSET Nat /\ IsFiniteSet(Bad)
  <2>1. IsFiniteSet(0 .. N)
    BY FS_Interval
  <2> QED
    BY <2>1, FS_Subset
<1>2. PICK m \in Bad : \A i \in Bad : m <= i
  BY <1>1, HasLeast
<1>3. m \in 1 .. N /\ m - 1 \in 0 .. N /\ ~(m <= m - 1)
  OBVIOUS
<1>4. f[m - 1] = g[m - 1]
  BY <1>2, <1>3
<1> QED
  BY <1>3, <1>4

\* The ascent from a tenant reaches in its n-th round the ancestor n levels above.
LEMMA AscendRounds ==
  ASSUME TreeInv, NEW t \in rows
  PROVE  /\ DOMAIN Ascend(t) = 0 .. Cardinality(rows)
         /\ \A n \in 0 .. Cardinality(rows) : Ascend(t)[n] = { u \in Chain(t) : Depth(t) = Depth(u) + n }
<1> DEFINE N == Cardinality(rows)
           Above(n) == { u \in Chain(t) : Depth(t) = Depth(u) + n }
           After(R) == rows \intersect { parent[c] : c \in R }
           Rec(f) == [n \in 0 .. N |-> IF n = 0 THEN {t} \intersect rows ELSE After(f[n - 1])]
           g == [n \in 0 .. N |-> Above(n)]
<1>0. N \in Nat
  BY FS_CardinalityType DEF TreeInv
<1>1. Above(0) = {t}
  BY Depths, ChainStep
<1>2. ASSUME NEW n \in 1 .. N PROVE Above(n) = After(Above(n - 1))
  <2>1. ASSUME NEW c \in Above(n - 1), parent[c] \in rows PROVE parent[c] \in Above(n)
    <3>1. /\ c \in Chain(t) /\ c \in rows /\ parent[c] # NoTenant /\ parent[c] \in Chain(c)
      BY <2>1, ChainRows, ChainStep, TreeAssumption DEF TreeInv
    <3>2. parent[c] \in Chain(t)
      BY <3>1, ChainRows
    <3>3. /\ Depth(t) = Depth(c) + (n - 1) /\ Depth(c) = Depth(parent[c]) + 1
          /\ Depth(parent[c]) \in Nat
      BY <2>1, <3>1, Depths
    <3> QED
      BY <3>2, <3>3
  <2>2. ASSUME NEW u \in Above(n) PROVE u \in After(Above(n - 1))
    <3>1. u \in Chain(t) /\ u \in rows /\ Depth(t) = Depth(u) + n /\ Depth(u) \in Nat
      BY <2>2, ChainRows, Depths
    <3>2. u # t
      BY <3>1
    <3>3. PICK c \in Chain(t) : parent[c] = u
      BY <3>1, <3>2, ChildInChain
    <3>4. c \in rows /\ parent[c] # NoTenant
      BY <3>1, <3>3, ChainRows, TreeAssumption DEF TreeInv
    <3>5. Depth(c) = Depth(u) + 1
      BY <3>3, <3>4, Depths
    <3>6. Depth(t) = Depth(c) + (n - 1)
      BY <3>1, <3>5
    <3> QED
      BY <3>1, <3>3, <3>6
  <2> HIDE DEF Above
  <2> QED
    BY <2>1, <2>2, ChainRows DEF Above
<1> HIDE DEF Above
<1>3. g = Rec(g)
  <2>1. \A n \in 0 .. N : n # 0 => n \in 1 .. N /\ n - 1 \in 0 .. N /\ g[n - 1] = Above(n - 1)
    BY <1>0
  <2>2. \A n \in 0 .. N : Above(n) = IF n = 0 THEN {t} \intersect rows ELSE After(g[n - 1])
    BY <1>1, <1>2, <2>1
  <2> QED
    BY <2>2
<1>4. Ascend(t) = CHOOSE f : f = Rec(f)
  BY DEF Ascend
<1> HIDE DEF g, Rec
<1>5. Ascend(t) = Rec(Ascend(t))
  BY <1>3, <1>4, Zenon
<1>6. PICK a : a = Ascend(t)
  OBVIOUS
<1>7. DOMAIN a = 0 .. N /\ a[0] = {t} /\ \A n \in 1 .. N : a[n] = After(a[n - 1])
  BY <1>0, <1>5, <1>6 DEF Rec
<1>8. g[0] = {t} /\ \A n \in 1 .. N : g[n] = After(g[n - 1])
  BY <1>0, <1>1, <1>2 DEF g
<1> HIDE DEF N, After
<1>9. \A n \in 0 .. N : a[n] = g[n]
  <2>1. \A n \in 1 .. N : a[n - 1] = g[n - 1] => a[n] = g[n]
    BY <1>7, <1>8
  <2>2. a[0] = g[0]
    BY <1>7, <1>8
  <2> QED
    BY <1>0, <2>1, <2>2, RoundsAgree
<1> QED
  BY <1>6, <1>7, <1>9 DEF g, Above, N

\* A grant reaches its own tenant, and a tenant below if it reaches the parent and is
\* not stopped there.
LEMMA ReachStep ==
  ASSUME TreeInv, NEW from \in rows, NEW to \in rows, NEW cross \in BOOLEAN
  PROVE  Rule!Reaches(from, to, cross) <=>
           \/ to = from
           \/ /\ parent[to] # NoTenant /\ Rule!Reaches(from, parent[to], cross)
              /\ cross \/ inherit[to]
<1>0. \A u \in rows : Rule!Reaches(from, u, cross) <=>
                        /\ from \in Chain(u)
                        /\ cross \/ \A x \in Chain(u) \ Chain(from) : inherit[x]
  BY DEF Rule!Reaches, Chain
<1>1. CASE to = from
  BY <1>0, <1>1, ChainStep
<1>2. CASE to # from /\ parent[to] = NoTenant
  BY <1>0, <1>2, ChainStep
<1>3. CASE to # from /\ parent[to] # NoTenant
  <2>1. parent[to] \in rows /\ Chain(to) = {to} \union Chain(parent[to])
    BY <1>3, ChainStep
  <2>2. from \in Chain(to) => to \notin Chain(from)
    BY <1>3, ChainIsLine
  <2>3. from \in Chain(to) <=> from \in Chain(parent[to])
    BY <1>3, <2>1
  <2>4. from \in Chain(to) => Chain(to) \ Chain(from) = {to} \union (Chain(parent[to]) \ Chain(from))
    BY <2>1, <2>2
  <2> QED
    BY <1>0, <1>3, <2>1, <2>3, <2>4
<1> QED
  BY <1>1, <1>2, <1>3

\* The descent finds in its n-th round the tenants that the rule names n levels below.
LEMMA DescendRounds ==
  ASSUME TreeInv, NEW t \in rows, NEW cross \in BOOLEAN
  PROVE  /\ DOMAIN Descend(t, cross) = 0 .. Cardinality(rows)
         /\ \A n \in 0 .. Cardinality(rows) :
              Descend(t, cross)[n] =
                { u \in rows : Rule!Reaches(t, u, cross) /\ Depth(u) = Depth(t) + n }
<1> DEFINE N == Cardinality(rows)
           Below(n) == { u \in rows : Rule!Reaches(t, u, cross) /\ Depth(u) = Depth(t) + n }
           Under(d) == { u \in rows : parent[u] = d /\ (cross \/ inherit[u]) }
           After(R) == UNION { Under(d) : d \in R }
           Rec(f) == [n \in 0 .. N |-> IF n = 0 THEN {t} \intersect rows ELSE After(f[n - 1])]
           g == [n \in 0 .. N |-> Below(n)]
<1>0. N \in Nat
  BY FS_CardinalityType DEF TreeInv
<1>1. Below(0) = {t}
  <2>1. \A u \in rows : Rule!Reaches(t, u, cross) => t \in Chain(u)
    BY DEF Rule!Reaches, Chain
  <2>2. Rule!Reaches(t, t, cross)
    BY ReachStep
  <2> QED
    BY <2>1, <2>2, Depths
<1>2. ASSUME NEW n \in 1 .. N PROVE Below(n) = After(Below(n - 1))
  <2>1. ASSUME NEW u \in rows
        PROVE  u \in Below(n) <=> parent[u] \in Below(n - 1) /\ (cross \/ inherit[u])
    <3>1. /\ Depth(u) \in Nat /\ Depth(t) \in Nat
          /\ parent[u] # NoTenant => /\ parent[u] \in rows /\ Depth(parent[u]) \in Nat
                                     /\ Depth(u) = Depth(parent[u]) + 1
      BY Depths, ChainStep
    <3>2. NoTenant \notin rows
      BY TreeAssumption DEF TreeInv
    <3>3. u = t => Depth(u) # Depth(t) + n /\ (parent[u] # NoTenant => Depth(parent[u]) # Depth(t) + (n - 1))
      BY <3>1
    <3>4. ASSUME parent[u] # NoTenant
          PROVE  Depth(u) = Depth(t) + n <=> Depth(parent[u]) = Depth(t) + (n - 1)
      <4>1. PICK i, j, k \in Nat : i = Depth(u) /\ j = Depth(parent[u]) /\ k = Depth(t) /\ i = j + 1
        BY <3>1, <3>4
      <4>2. i = k + n <=> j = k + (n - 1)
        BY <1>0, <4>1
      <4> QED
        BY <4>1, <4>2
    <3>5. Rule!Reaches(t, u, cross) <=>
            \/ u = t
            \/ /\ parent[u] # NoTenant /\ Rule!Reaches(t, parent[u], cross)
               /\ cross \/ inherit[u]
      BY ReachStep
    <3>6. CASE parent[u] = NoTenant
      BY <3>2, <3>3, <3>5, <3>6
    <3>7. CASE parent[u] # NoTenant
      BY <3>1, <3>3, <3>4, <3>5, <3>7
    <3> QED
      BY <3>6, <3>7
  <2>2. After(Below(n - 1)) = { u \in rows : parent[u] \in Below(n - 1) /\ (cross \/ inherit[u]) }
    <3> HIDE DEF Below
    <3> QED
      OBVIOUS
  <2>3. Below(n) \subseteq rows
    OBVIOUS
  <2> HIDE DEF Below, After
  <2> QED
    BY <2>1, <2>2, <2>3
<1> HIDE DEF Below, Under
<1>3. g = Rec(g)
  <2>1. \A n \in 0 .. N : n # 0 => n \in 1 .. N /\ n - 1 \in 0 .. N /\ g[n - 1] = Below(n - 1)
    BY <1>0
  <2>2. \A n \in 0 .. N : Below(n) = IF n = 0 THEN {t} \intersect rows ELSE After(g[n - 1])
    <3> HIDE DEF g, After, N
    <3>1. \A n \in 1 .. N : Below(n) = After(g[n - 1])
      BY <1>0, <1>2, <2>1
    <3> QED
      BY <1>1, <2>1, <3>1
  <2> QED
    BY <2>2
<1>4. Descend(t, cross) = CHOOSE f : f = Rec(f)
  BY DEF Descend, Under
<1> HIDE DEF g, Rec
<1>5. Descend(t, cross) = Rec(Descend(t, cross))
  BY <1>3, <1>4, Zenon
<1>6. PICK a : a = Descend(t, cross)
  OBVIOUS
<1>7. DOMAIN a = 0 .. N /\ a[0] = {t} /\ \A n \in 1 .. N : a[n] = After(a[n - 1])
  BY <1>0, <1>5, <1>6 DEF Rec
<1>8. g[0] = {t} /\ \A n \in 1 .. N : g[n] = After(g[n - 1])
  BY <1>0, <1>1, <1>2 DEF g
<1> HIDE DEF N, After
<1>9. \A n \in 0 .. N : a[n] = g[n]
  <2>1. \A n \in 1 .. N : a[n - 1] = g[n - 1] => a[n] = g[n]
    BY <1>7, <1>8
  <2>2. a[0] = g[0]
    BY <1>7, <1>8
  <2> QED
    BY <1>0, <2>1, <2>2, RoundsAgree
<1> QED
  BY <1>6, <1>7, <1>9 DEF g, Below, N

\* The union of the rounds of an ascent is the chain: no ancestor is beyond them.
LEMMA AncestorsAreChain ==
  ASSUME TreeInv, NEW t \in rows
  PROVE  GetAncestors(t) = Chain(t)
<1> DEFINE N == Cardinality(rows)
<1>1. PICK up : up = Ascend(t)
  OBVIOUS
<1>2. DOMAIN up = 0 .. N /\ \A n \in 0 .. N : up[n] = { u \in Chain(t) : Depth(t) = Depth(u) + n }
  BY <1>1, AscendRounds
<1>3. ASSUME NEW u \in Chain(t) PROVE \E n \in 0 .. N : Depth(t) = Depth(u) + n
  <2>1. PICK i, j, k \in Nat : i = Depth(t) /\ j = Depth(u) /\ k = N /\ j <= i /\ i <= k
    BY Depths, FS_CardinalityType DEF TreeInv
  <2>2. i - j \in 0 .. N /\ i = j + (i - j)
    BY <2>1
  <2> QED
    BY <2>1, <2>2
<1>4. UNION { up[n] : n \in DOMAIN up } = Chain(t)
  <2> HIDE DEF N
  <2>1. \A n \in DOMAIN up : up[n] \subseteq Chain(t)
    BY <1>2
  <2>2. \A u \in Chain(t) : \E n \in DOMAIN up : u \in up[n]
    BY <1>2, <1>3
  <2> QED
    BY <2>1, <2>2
<1> QED
  BY <1>1, <1>4 DEF GetAncestors, Collected

\* The union of the rounds of a descent is what the rule names.
LEMMA DescendantsAreReached ==
  ASSUME TreeInv, NEW t \in rows, NEW cross \in BOOLEAN
  PROVE  GetEffectiveDescendants(t, cross) = { u \in rows : Rule!Reaches(t, u, cross) }
<1> DEFINE N == Cardinality(rows)
           Reached == { u \in rows : Rule!Reaches(t, u, cross) }
<1>1. PICK down : down = Descend(t, cross)
  OBVIOUS
<1>2. /\ DOMAIN down = 0 .. N
      /\ \A n \in 0 .. N :
           down[n] = { u \in rows : Rule!Reaches(t, u, cross) /\ Depth(u) = Depth(t) + n }
  BY <1>1, DescendRounds
<1>3. ASSUME NEW u \in Reached PROVE \E n \in 0 .. N : Depth(u) = Depth(t) + n
  <2>1. t \in Chain(u)
    BY DEF Rule!Reaches, Chain
  <2>2. PICK i, j, k \in Nat : i = Depth(u) /\ j = Depth(t) /\ k = N /\ j <= i /\ i <= k
    BY <2>1, Depths, FS_CardinalityType DEF TreeInv
  <2>3. i - j \in 0 .. N /\ i = j + (i - j)
    BY <2>2
  <2> QED
    BY <2>2, <2>3
<1>4. UNION { down[n] : n \in DOMAIN down } = Reached
  <2> HIDE DEF N
  <2>1. \A n \in DOMAIN down : down[n] \subseteq Reached
    BY <1>2
  <2>2. \A u \in Reached : \E n \in DOMAIN down : u \in down[n]
    BY <1>2, <1>3
  <2> QED
    BY <2>1, <2>2
<1> QED
  BY <1>1, <1>4 DEF GetEffectiveDescendants, Collected

\* The descent (getEffectiveDescendants) finds exactly the tenants that the rule of
\* inheritance names, in every tree that creating and deleting tenants can lead to.
THEOREM DescentFollowsRule == PermissionsSpec => []DescendantsFollowRule
<1>1. PermissionsInv => DescendantsFollowRule
  BY DescendantsAreReached DEF PermissionsInv, DescendantsFollowRule
<1> QED
  BY <1>1, InvHolds, PTL

\* Both recursive queries end, return no row twice, reach the master tenant, and agree:
\* a binding reaches a tenant only if that tenant's own upward query finds it.
THEOREM QueriesAgree == PermissionsSpec => []QueriesEndAndAgree
<1>1. ASSUME TreeInv, NEW t \in rows
      PROVE  LET up   == Ascend(t)
                 down == Descend(t, TRUE)
                 last == Cardinality(rows)
             IN  /\ up[last] = {} /\ down[last] = {}
                 /\ \A m, n \in 0 .. last :
                      m # n => up[m] \intersect up[n] = {} /\ down[m] \intersect down[n] = {}
                 /\ Master \in GetAncestors(t)
                 /\ \A u \in rows : u \in GetEffectiveDescendants(t, TRUE) <=> t \in GetAncestors(u)
  <2>1. PICK N \in Nat : N = Cardinality(rows)
    BY <1>1, FS_CardinalityType DEF TreeInv
  <2>2. PICK up : up = Ascend(t)
    OBVIOUS
  <2>3. PICK down : down = Descend(t, TRUE)
    OBVIOUS
  <2>4. PICK i \in Nat : i = Depth(t) /\ 1 <= i /\ i <= N
    BY <1>1, <2>1, Depths
  <2>5. \A n \in 0 .. N : \A u \in up[n] : /\ Depth(u) \in Nat /\ 1 <= Depth(u)
                                           /\ i = Depth(u) + n
    BY <1>1, <2>1, <2>2, <2>4, AscendRounds, ChainRows, Depths
  <2>6. \A n \in 0 .. N : \A u \in down[n] : /\ Depth(u) \in Nat /\ Depth(u) <= N
                                             /\ Depth(u) = i + n
    <3>1. TRUE \in BOOLEAN
      OBVIOUS
    <3>2. \A n \in 0 .. N :
            down[n] = { u \in rows : Rule!Reaches(t, u, TRUE) /\ Depth(u) = Depth(t) + n }
      BY <1>1, <2>1, <2>3, <3>1, DescendRounds
    <3>3. \A u \in rows : Depth(u) \in Nat /\ Depth(u) <= N
      BY <1>1, <2>1, Depths
    <3> QED
      BY <2>4, <3>2, <3>3
  <2>7. up[N] = {} /\ down[N] = {}
    <3>1. N \in 0 .. N /\ \A d \in Nat : /\ 1 <= d => i # d + N
                                         /\ d <= N => d # i + N
      BY <2>4
    <3> QED
      BY <2>5, <2>6, <3>1
  <2>8. ASSUME NEW m \in 0 .. N, NEW n \in 0 .. N, m # n
        PROVE  up[m] \intersect up[n] = {} /\ down[m] \intersect down[n] = {}
    <3>1. \A d \in Nat : /\ ~(i = d + m /\ i = d + n)
                         /\ ~(d = i + m /\ d = i + n)
      BY <2>8
    <3> QED
      BY <2>5, <2>6, <3>1
  <2>9. Master \in GetAncestors(t)
    BY <1>1, AncestorsAreChain, ChainRows
  <2>10. ASSUME NEW u \in rows
         PROVE  u \in GetEffectiveDescendants(t, TRUE) <=> t \in GetAncestors(u)
    <3>1. Rule!Reaches(t, u, TRUE) <=> t \in Chain(u)
      BY DEF Rule!Reaches, Chain
    <3> QED
      BY <1>1, <3>1, AncestorsAreChain, DescendantsAreReached
  <2> QED
    BY <2>1, <2>2, <2>3, <2>7, <2>8, <2>9, <2>10
<1>2. PermissionsInv => QueriesEndAndAgree
  BY <1>1 DEF PermissionsInv, QueriesEndAndAgree
<1> QED
  BY <1>2, InvHolds, PTL

-----------------------------------------------------------------------------
(* What a name means.                                                      *)

\* The scopes of a name that a tenant sees, and the nearest of a set of scopes.
Visible(t, n) == { s \in scopes : name[s] = n /\ home[s] \in Chain(t) }
Nearest(A, h) == { s \in A : \A r \in A : h[r] \in Chain(h[s]) }

\* In a chain, to be below means to be deeper.
LEMMA ChainByDepth ==
  ASSUME TreeInv, NEW t \in rows, NEW u \in Chain(t), NEW v \in Chain(t)
  PROVE  u \in Chain(v) <=> Depth(u) <= Depth(v)
<1>1. u \in rows /\ v \in rows /\ (u \in Chain(v) \/ v \in Chain(u))
  BY ChainRows, ChainIsLine
<1>2. PICK i, j \in Nat : i = Depth(u) /\ j = Depth(v)
  BY <1>1, Depths
<1>3. u \in Chain(v) => i <= j
  BY <1>1, <1>2, Depths
<1>4. v \in Chain(u) => j <= i /\ (j = i => u = v)
  BY <1>1, <1>2, Depths
<1>5. u \in Chain(u)
  BY <1>1, ChainStep
<1>6. i <= j => u \in Chain(v)
  BY <1>1, <1>4, <1>5
<1> QED
  BY <1>2, <1>3, <1>6

\* The lookup (ORDER BY depth LIMIT 1) finds the nearest scopes of the name.
LookupsAreNearest == \A t \in rows, n \in Names : FindByNameInAncestors(t, n) = Nearest(Visible(t, n), home)

LEMMA LookupIsNearest ==
  ASSUME PermissionsInv, NEW t \in rows, NEW n \in Names
  PROVE  FindByNameInAncestors(t, n) = Nearest(Visible(t, n), home)
<1> DEFINE V == Visible(t, n)
           T == { home[s] : s \in V }
<1>0. TreeInv
  BY DEF PermissionsInv
<1>1. PICK N \in Nat : N = Cardinality(rows)
  BY <1>0, FS_CardinalityType DEF TreeInv
<1>2. PICK up : up = Ascend(t)
  OBVIOUS
<1>3. PICK i \in Nat : i = Depth(t) /\ i <= N
  BY <1>0, <1>1, Depths
<1>4. DOMAIN up = 0 .. N /\ \A d \in 0 .. N : up[d] = { u \in Chain(t) : i = Depth(u) + d }
  BY <1>0, <1>1, <1>2, <1>3, AscendRounds
<1>5. \A s \in V : /\ home[s] \in Chain(t) /\ Depth(home[s]) \in Nat /\ Depth(home[s]) <= i
                   /\ i - Depth(home[s]) \in 0 .. N
  <2>1. \A u \in Chain(t) : Depth(u) \in Nat /\ Depth(u) <= i
    BY <1>0, <1>3, Depths
  <2>2. \A d \in Nat : d <= i => i - d \in 0 .. N
    BY <1>3
  <2>3. \A s \in V : home[s] \in Chain(t)
    BY DEF Visible
  <2> QED
    BY <2>1, <2>2, <2>3
<1>6. \A d \in 0 .. N : Named(up[d], n) = { s \in V : Depth(home[s]) = i - d }
  <2>1. ASSUME NEW d \in 0 .. N, NEW s \in scopes, home[s] \in Chain(t)
        PROVE  home[s] \in up[d] <=> Depth(home[s]) = i - d
    <3>1. PICK j \in Nat : j = Depth(home[s])
      BY <1>0, <2>1, Depths
    <3>2. i = j + d <=> j = i - d
      OBVIOUS
    <3> QED
      BY <1>4, <2>1, <3>1, <3>2
  <2>2. \A d \in 0 .. N : up[d] \subseteq Chain(t)
    BY <1>4
  <2> QED
    BY <2>1, <2>2 DEF Named, Visible
<1> DEFINE hits == { d \in 0 .. N : Named(up[d], n) # {} }
           first == { d \in hits : \A e \in hits : d <= e }
<1>7. FindByNameInAncestors(t, n) = UNION { Named(up[d], n) : d \in first }
  BY <1>2, <1>4 DEF FindByNameInAncestors
<1>8. \A s \in V : i - Depth(home[s]) \in hits /\ s \in Named(up[i - Depth(home[s])], n)
  <2>1. ASSUME NEW s \in V PROVE Depth(home[s]) = i - (i - Depth(home[s]))
    BY <1>5
  <2> QED
    BY <1>5, <1>6, <2>1
<1>9. \A d \in hits : \E s \in V : Depth(home[s]) = i - d
  BY <1>6
<1>10. \A r, s \in V : home[r] \in Chain(home[s]) <=> Depth(home[r]) <= Depth(home[s])
  BY <1>0, <1>5, ChainByDepth
<1> HIDE DEF V
<1>11. ASSUME NEW s \in Nearest(V, home) PROVE s \in UNION { Named(up[d], n) : d \in first }
  <2>1. s \in V /\ \A r \in V : Depth(home[r]) <= Depth(home[s])
    BY <1>10 DEF Nearest
  <2>2. PICK j \in Nat : j = Depth(home[s]) /\ i - j \in hits /\ s \in Named(up[i - j], n)
    BY <1>5, <1>8, <2>1
  <2>3. ASSUME NEW e \in hits PROVE i - j <= e
    <3>1. PICK r \in V : Depth(home[r]) = i - e
      BY <1>9
    <3>2. i - e <= j /\ e \in Int
      BY <2>1, <2>2, <3>1
    <3> QED
      BY <3>2
  <2> QED
    BY <2>2, <2>3
<1>12. ASSUME NEW d \in first, NEW s \in Named(up[d], n) PROVE s \in Nearest(V, home)
  <2>1. s \in V /\ Depth(home[s]) = i - d /\ d \in Int
    BY <1>6
  <2>2. ASSUME NEW r \in V PROVE Depth(home[r]) <= Depth(home[s])
    <3>1. PICK j \in Nat : j = Depth(home[r]) /\ i - j \in hits
      BY <1>5, <1>8
    <3>2. d <= i - j
      BY <3>1
    <3>3. j <= i - d
      BY <2>1, <3>2
    <3> QED
      BY <2>1, <3>1, <3>3
  <2> QED
    BY <1>10, <2>1, <2>2 DEF Nearest
<1> HIDE DEF first
<1> QED
  BY <1>7, <1>11, <1>12 DEF V

\* Of the scopes of a name that a tenant sees, exactly one is nearest.
LEMMA OneIsNearest ==
  ASSUME PermissionsInv, NEW t \in rows, NEW n \in Names, Visible(t, n) # {}
  PROVE  \E s \in Visible(t, n) : Nearest(Visible(t, n), home) = {s}
<1> DEFINE V == Visible(t, n)
           D == { Depth(t) - Depth(home[s]) : s \in V }
<1>0. TreeInv
  BY DEF PermissionsInv
<1>1. \A s \in V : s \in scopes /\ home[s] \in Chain(t) /\ home[s] \in rows /\ name[s] = n
  BY <1>0, ChainRows DEF Visible
<1>2. PICK i, N \in Nat : i = Depth(t) /\ i <= N
  BY <1>0, Depths
<1>3. \A s \in V : Depth(home[s]) \in Nat /\ Depth(home[s]) <= i
  BY <1>0, <1>1, <1>2, Depths
<1>4. D \subseteq 0 .. N /\ D # {}
  <2>1. \A s \in V : Depth(t) - Depth(home[s]) \in 0 .. N
    BY <1>2, <1>3
  <2> HIDE DEF V
  <2> QED
    BY <2>1 DEF V
<1>5. D \in SUBSET Nat /\ IsFiniteSet(D)
  <2>1. IsFiniteSet(0 .. N) /\ 0 .. N \subseteq Nat
    BY FS_Interval
  <2> HIDE DEF D
  <2> QED
    BY <1>4, <2>1, FS_Subset
<1>6. PICK m \in D : \A d \in D : m <= d
  BY <1>4, <1>5, HasLeast
<1>7. PICK s \in V : m = Depth(t) - Depth(home[s])
  OBVIOUS
<1>8. ASSUME NEW r \in V PROVE home[r] \in Chain(home[s])
  <2>1. PICK j, k \in Nat : j = Depth(home[r]) /\ k = Depth(home[s])
    BY <1>3
  <2>2. i - k <= i - j
    BY <1>2, <1>6, <1>7, <2>1
  <2>3. j <= k
    BY <2>1, <2>2
  <2> QED
    BY <1>0, <1>1, <2>1, <2>3, ChainByDepth
<1>9. ASSUME NEW r \in Nearest(V, home) PROVE r = s
  <2>1. r \in V /\ home[s] \in Chain(home[r]) /\ home[r] \in Chain(home[s])
    BY <1>8 DEF Nearest
  <2>2. home[r] = home[s]
    BY <1>0, <1>1, <2>1, ChainIsLine
  <2> QED
    BY <1>1, <2>1, <2>2 DEF PermissionsInv, ScopesInv
<1>10. s \in Nearest(V, home)
  BY <1>8 DEF Nearest
<1> QED
  BY <1>9, <1>10

\* A name means the scope of the nearest ancestor that has one of that name, one at
\* most and none only if no ancestor has it (findByNameInAncestors).
THEOREM NamesMeanNearest == PermissionsSpec => []ResolutionIsNearest
<1>1. ASSUME PermissionsInv, NEW t \in rows, NEW n \in Names
      PROVE  /\ FindByNameInAncestors(t, n) = Nearest(Visible(t, n), home)
             /\ Cardinality(Nearest(Visible(t, n), home)) = IF Visible(t, n) = {} THEN 0 ELSE 1
  <2>1. CASE Visible(t, n) = {}
    <3>1. Nearest(Visible(t, n), home) = {}
      BY <2>1 DEF Nearest
    <3> QED
      BY <1>1, <2>1, <3>1, FS_EmptySet, LookupIsNearest
  <2>2. CASE Visible(t, n) # {}
    <3>1. PICK s : Nearest(Visible(t, n), home) = {s}
      BY <1>1, <2>2, OneIsNearest
    <3>2. Cardinality(Nearest(Visible(t, n), home)) = 1
      BY <3>1, FS_Singleton
    <3> QED
      BY <1>1, <2>2, <3>2, LookupIsNearest
  <2> QED
    BY <2>1, <2>2
<1>2. PermissionsInv => ResolutionIsNearest
  BY <1>1 DEF ResolutionIsNearest, Nearest, Visible
<1> QED
  BY <1>2, InvHolds, PTL

\* What a check allows is listed, and a scope granted from its own tenant or below is
\* allowed by name wherever the binding reaches, unless a nearer scope hides its name.
THEOREM NamesAndGrantsMeet == PermissionsSpec => []GrantsWorkByName
<1>1. ASSUME PermissionsInv, NEW t \in rows, NEW from \in Chain(t), NEW cross \in BOOLEAN,
             NEW S \in SUBSET scopes
      PROVE  LET up     == Chain(t)
                 means  == [n \in Names |-> FindByNameInAncestors(t, n)]
                 tuples == GrantedBy(from, cross, S)
                 listed == ListScopes(t, tuples)
             IN  /\ \A n \in Names :
                      Allowed(t, means[n], tuples) => n \in { name[s] : s \in listed }
                 /\ \A s \in listed :
                      home[s] \in Chain(from) =>
                        \/ Allowed(t, means[name[s]], tuples)
                        \/ \E r \in scopes : /\ name[r] = name[s]
                                             /\ home[r] \in up \ Chain(home[s])
  <2>0. TreeInv /\ name \in [scopes -> Names]
    BY <1>1 DEF PermissionsInv, ScopesInv
  <2>1. PICK means : means = [n \in Names |-> FindByNameInAncestors(t, n)]
    OBVIOUS
  <2>2. \A n \in Names : means[n] = Nearest(Visible(t, n), home)
    BY <1>1, <2>1, LookupIsNearest
  <2>3. PICK tuples : tuples = GrantedBy(from, cross, S)
    OBVIOUS
  <2>4. PICK listed : listed = ListScopes(t, tuples)
    OBVIOUS
  <2>5. listed = { s \in scopes : << t, s >> \in tuples }
    BY <2>4 DEF ListScopes
  <2>6. ASSUME NEW n \in Names, Allowed(t, means[n], tuples)
        PROVE  n \in { name[s] : s \in listed }
    <3>1. PICK s \in Nearest(Visible(t, n), home) : << t, s >> \in tuples
      BY <2>2, <2>6 DEF Allowed
    <3>2. s \in scopes /\ name[s] = n
      BY DEF Nearest, Visible
    <3> QED
      BY <2>5, <3>1, <3>2
  <2>7. ASSUME NEW s \in listed, home[s] \in Chain(from)
        PROVE  \/ Allowed(t, means[name[s]], tuples)
               \/ \E r \in scopes : name[r] = name[s] /\ home[r] \in Chain(t) \ Chain(home[s])
    <3>1. s \in scopes /\ << t, s >> \in tuples /\ name[s] \in Names
      BY <2>0, <2>5
    <3>2. home[s] \in Chain(t)
      BY <2>0, <2>7, ChainRows
    <3>3. s \in Visible(t, name[s])
      BY <3>1, <3>2 DEF Visible
    <3>4. CASE s \in Nearest(Visible(t, name[s]), home)
      BY <2>2, <3>1, <3>4 DEF Allowed
    <3>5. CASE s \notin Nearest(Visible(t, name[s]), home)
      <4>1. PICK r \in Visible(t, name[s]) : home[r] \notin Chain(home[s])
        BY <3>3, <3>5 DEF Nearest
      <4> QED
        BY <4>1 DEF Visible
    <3> QED
      BY <3>4, <3>5
  <2> QED
    BY <2>1, <2>3, <2>4, <2>6, <2>7
<1>2. PermissionsInv => GrantsWorkByName
  BY <1>1 DEF GrantsWorkByName
<1> QED
  BY <1>2, InvHolds, PTL

-----------------------------------------------------------------------------
(* What moves the meaning of a name.                                       *)

\* Of two sets of scopes that differ in one scope, which is nearest in neither, the
\* nearest are the same: that scope was hidden, and hid nothing.
LEMMA HiddenScopeMovesNothing ==
  ASSUME TreeInv, NEW t \in rows, NEW h, NEW A, NEW B, NEW s, A \ {s} = B \ {s},
         \A r \in A \union B : h[r] \in Chain(t),
         s \notin Nearest(A, h), s \notin Nearest(B, h)
  PROVE  Nearest(A, h) = Nearest(B, h)
<1>1. ASSUME NEW C, NEW E, C \ {s} = E \ {s}, C \union E = A \union B,
             s \notin Nearest(C, h), s \notin Nearest(E, h),
             NEW x \in Nearest(C, h)
      PROVE  x \in Nearest(E, h)
  <2>1. x \in C /\ x # s /\ x \in E /\ \A r \in C : h[r] \in Chain(h[x])
    BY <1>1 DEF Nearest
  <2>2. \A r \in C \union E : h[r] \in Chain(t) /\ h[r] \in rows /\ h[r] \in Chain(h[r])
    BY <1>1, ChainRows, ChainStep
  <2>3. ASSUME s \in E PROVE h[s] \in Chain(h[x])
    <3>1. PICK r \in E : h[r] \notin Chain(h[s])
      BY <1>1, <2>3 DEF Nearest
    <3>2. r # s /\ r \in C
      BY <1>1, <2>2, <3>1
    <3>3. h[s] \in Chain(h[r])
      BY <2>2, <2>3, <3>1, ChainIsLine
    <3>4. h[r] \in Chain(h[x])
      BY <2>1, <3>2
    <3> QED
      BY <2>1, <2>2, <3>3, <3>4, ChainRows
  <2>4. \A r \in E : h[r] \in Chain(h[x])
    BY <1>1, <2>1, <2>3
  <2> QED
    BY <2>1, <2>4 DEF Nearest
<1>2. Nearest(A, h) \subseteq Nearest(B, h)
  BY <1>1
<1>3. Nearest(B, h) \subseteq Nearest(A, h)
  BY <1>1
<1> QED
  BY <1>2, <1>3

\* The equation of the chains holds after a step, too.
ChainEquation ==
  \A t \in rows : \A p : p = parent[t] => Chain(t) = {t} \union (IF p = NoTenant THEN {} ELSE Chain(p))

LEMMA ChainsAfter == TreeInv' => ChainEquation'
<1>1. TreeInv => ChainEquation
  BY ChainDef DEF ChainEquation
<1> QED
  BY <1>1, PTL

\* So does what the lookups find.
LEMMA LookupsAfter == PermissionsInv' => LookupsAreNearest'
<1>1. PermissionsInv => LookupsAreNearest
  BY LookupIsNearest DEF LookupsAreNearest
<1> QED
  BY <1>1, PTL

\* The tenants that a step leaves in place with all that is above them keep their chains.
LEMMA ChainsStay ==
  ASSUME TreeInv, TreeInv', NEW K \in SUBSET (rows \intersect rows'),
         \A u \in K : parent'[u] = parent[u] /\ (parent[u] = NoTenant \/ parent[u] \in K)
  PROVE  \A u \in K : Chain(u)' = Chain(u)
<1> DEFINE S == { u \in rows : u \in K => Chain(u)' = Chain(u) }
<1>1. ASSUME NEW u \in rows, parent[u] = NoTenant \/ parent[u] \in S PROVE u \in S
  <2> SUFFICES ASSUME u \in K PROVE Chain(u)' = Chain(u)
    OBVIOUS
  <2>1. PICK p : p = parent[u] /\ p = parent'[u] /\ (p = NoTenant \/ p \in K)
    OBVIOUS
  <2>2. Chain(u) = {u} \union (IF p = NoTenant THEN {} ELSE Chain(p))
    BY <2>1, ChainDef
  <2>3. Chain(u)' = {u} \union (IF p = NoTenant THEN {} ELSE Chain(p)')
    BY <2>1, ChainsAfter DEF ChainEquation
  <2>4. p # NoTenant => Chain(p)' = Chain(p)
    BY <1>1, <2>1
  <2> QED
    BY <2>2, <2>3, <2>4
<1>2. S = rows
  <2>1. S \in SUBSET rows
    OBVIOUS
  <2> HIDE DEF S
  <2> QED
    BY <1>1, <2>1, DownTheTree
<1> QED
  BY <1>2

\* A step that only adds or removes tenants off the chain, and scopes off it with them,
\* changes no lookup.
LEMMA OffTheChain ==
  ASSUME PermissionsInv, PermissionsInv', NEW K \in SUBSET (rows \intersect rows'),
         \A u \in K : parent'[u] = parent[u] /\ (parent[u] = NoTenant \/ parent[u] \in K),
         scopes' \subseteq scopes, \A s \in scopes : home[s] \in K => s \in scopes',
         \A s \in scopes' : home'[s] = home[s] /\ name'[s] = name[s],
         NEW t \in K, Chain(t) \subseteq K, NEW n \in Names
  PROVE  FindByNameInAncestors(t, n)' = FindByNameInAncestors(t, n)
<1>1. \A u \in K : Rule!Ancestors'[u] = Rule!Ancestors[u]
  BY ChainsStay DEF Chain, PermissionsInv
<1>2. Rule!Ancestors[t] \subseteq K
  BY DEF Chain
<1>3. Visible(t, n)' = Visible(t, n)
  BY <1>1, <1>2 DEF Visible, Chain
<1>4. \A s \in Visible(t, n) : home'[s] = home[s] /\ home[s] \in K
  BY <1>2 DEF Visible, Chain
<1>5. PICK V : V = Visible(t, n) /\ V = Visible(t, n)'
  BY <1>3
<1>6. { s \in V : \A r \in V : home'[r] \in Rule!Ancestors'[home'[s]] } =
      { s \in V : \A r \in V : home[r] \in Rule!Ancestors[home[s]] }
  BY <1>1, <1>4, <1>5
<1>7. FindByNameInAncestors(t, n) = { s \in V : \A r \in V : home[r] \in Rule!Ancestors[home[s]] }
  <2>1. t \in rows /\ FindByNameInAncestors(t, n) = Nearest(V, home)
    BY <1>5, LookupIsNearest
  <2> QED
    BY <2>1 DEF Nearest, Chain
<1>8. FindByNameInAncestors(t, n)' = Nearest(Visible(t, n), home)'
  BY LookupsAfter DEF LookupsAreNearest
<1>9. Nearest(Visible(t, n), home)' = { s \in V : \A r \in V : home'[r] \in Rule!Ancestors'[home'[s]] }
  BY <1>5 DEF Nearest, Chain
<1> QED
  BY <1>6, <1>7, <1>8, <1>9

LEMMA TenantsMoveNothing ==
  ASSUME PermissionsInv, PermissionsInv', NEW t \in rows \intersect rows', NEW n \in Names,
         NEW d \in Ids,
         \/ \E p \in rows, inh \in BOOLEAN : Create(d, p, inh) /\ UNCHANGED scopeVars
         \/ Delete(d) /\ CascadeScopes /\ UNCHANGED drawn
  PROVE  FindByNameInAncestors(t, n)' = FindByNameInAncestors(t, n)
<1>0. TreeInv /\ parent \in [rows -> rows \union {NoTenant}]
  BY DEF PermissionsInv, TreeInv
<1>1. ASSUME NEW p \in rows, NEW inh \in BOOLEAN, Create(d, p, inh), UNCHANGED scopeVars
      PROVE  FindByNameInAncestors(t, n)' = FindByNameInAncestors(t, n)
  <2>1. /\ rows \in SUBSET (rows \intersect rows')
        /\ \A u \in rows : parent'[u] = parent[u] /\ (parent[u] = NoTenant \/ parent[u] \in rows)
    BY <1>0, <1>1 DEF Create, TreeInv
  <2>2. scopes' = scopes /\ home' = home /\ name' = name
    BY <1>1 DEF scopeVars
  <2>3. t \in rows /\ Chain(t) \subseteq rows
    BY <1>0, ChainRows
  <2> QED
    BY <2>1, <2>2, <2>3, OffTheChain
<1>2. ASSUME Delete(d), CascadeScopes, UNCHANGED drawn
      PROVE  FindByNameInAncestors(t, n)' = FindByNameInAncestors(t, n)
  <2>1. /\ d \in rows /\ rows' = rows \ {d} /\ \A c \in rows : parent[c] # d
        /\ rows' \in SUBSET (rows \intersect rows')
        /\ \A u \in rows' : parent'[u] = parent[u] /\ (parent[u] = NoTenant \/ parent[u] \in rows')
    BY <1>0, <1>2 DEF Delete
  <2>2. /\ scopes' \subseteq scopes /\ \A s \in scopes : home[s] \in rows' => s \in scopes'
        /\ \A s \in scopes' : home'[s] = home[s] /\ name'[s] = name[s]
    BY <1>2 DEF CascadeScopes
  <2>3. d \notin Chain(t) /\ Chain(t) \subseteq rows
    BY <1>0, <2>1, ChildInChain, ChainRows
  <2>4. t \in rows' /\ Chain(t) \subseteq rows'
    BY <2>1, <2>3
  <2> QED
    BY <2>1, <2>2, <2>4, OffTheChain
<1> QED
  BY <1>1, <1>2

\* A scope that is created or renamed moves a name only where it is found, before or
\* after.
LEMMA ScopeMovesName ==
  ASSUME PermissionsInv, PermissionsInv', ScopeStep, NEW t \in rows, NEW n \in Names,
         FindByNameInAncestors(t, n)' # FindByNameInAncestors(t, n)
  PROVE  \E s \in scopes' :
            /\ s \notin scopes \/ name'[s] # name[s]
            /\ home'[s] \in GetAncestors(t)
            /\ s \in FindByNameInAncestors(t, n) \union FindByNameInAncestors(t, n)'
<1>0. TreeInv
  BY DEF PermissionsInv
<1>1. PICK s \in ScopeIds, m \in Names : RenameScope(s, m) \/ \E p \in rows : CreateScope(s, p, m)
  BY DEF ScopeStep
<1>2. UNCHANGED vars /\ Rule!Ancestors' = Rule!Ancestors
  BY <1>1 DEF RenameScope, CreateScope, vars, Rule!Ancestors
<1>3. /\ s \in scopes' /\ scopes' = scopes \union {s}
      /\ \A r \in scopes : home'[r] = home[r]
      /\ \A r \in scopes' \ {s} : home'[r] = home[r] /\ name'[r] = name[r]
      /\ \/ s \notin scopes
         \/ /\ scopes' = scopes /\ home' = home
            /\ name'[s] = name[s] => name' = name
  <2>1. CASE RenameScope(s, m)
    BY <2>1 DEF RenameScope, PermissionsInv, ScopesInv
  <2>2. ASSUME NEW p \in rows, CreateScope(s, p, m) PROVE <1>3!:
    BY <2>2 DEF CreateScope, PermissionsInv, ScopesInv
  <2> QED
    BY <1>1, <2>1, <2>2
<1>4. PICK V : V = Visible(t, n)
  OBVIOUS
<1>5. PICK W : W = Visible(t, n)'
  OBVIOUS
<1>6. PICK h : h = home'
  OBVIOUS
<1>7. /\ V = { r \in scopes : name[r] = n /\ home[r] \in Chain(t) }
      /\ W = { r \in scopes' : name'[r] = n /\ home'[r] \in Chain(t) }
  BY <1>2, <1>4, <1>5 DEF Visible, Chain
<1>8. V \ {s} = W \ {s} /\ \A r \in V \union W : h[r] \in Chain(t)
  BY <1>3, <1>6, <1>7
<1>9. FindByNameInAncestors(t, n) = Nearest(V, h)
  <2>1. FindByNameInAncestors(t, n) = Nearest(V, home)
    BY <1>4, LookupIsNearest
  <2>2. \A r \in V : home[r] = h[r]
    BY <1>3, <1>6, <1>7
  <2> QED
    BY <2>1, <2>2 DEF Nearest
<1>10. FindByNameInAncestors(t, n)' = Nearest(W, h)
  <2>1. t \in rows'
    BY <1>2 DEF vars
  <2>2. FindByNameInAncestors(t, n)' = Nearest(Visible(t, n), home)'
    BY <2>1, LookupsAfter DEF LookupsAreNearest
  <2>3. Nearest(Visible(t, n), home)' = { r \in W : \A q \in W : h[q] \in Rule!Ancestors'[h[r]] }
    BY <1>5, <1>6 DEF Nearest, Chain
  <2> QED
    BY <1>2, <2>2, <2>3 DEF Nearest, Chain
<1>11. s \in Nearest(V, h) \union Nearest(W, h)
  BY <1>0, <1>8, <1>9, <1>10, HiddenScopeMovesNothing
<1>12. home'[s] \in Chain(t)
  BY <1>6, <1>8, <1>11 DEF Nearest
<1>13. s \notin scopes \/ name'[s] # name[s]
  <2>1. SUFFICES ASSUME scopes' = scopes, home' = home, name' = name PROVE FALSE
    BY <1>3
  <2>2. W = V
    BY <1>7, <2>1
  <2> QED
    BY <1>9, <1>10, <2>2
<1> QED
  BY <1>0, <1>3, <1>9, <1>10, <1>11, <1>12, <1>13, AncestorsAreChain

\* What a name means at a tenant changes only with a scope created or renamed there or
\* above, to or from that scope (ScopesService.create, update, TenantsService.delete).
THEOREM NamesStayPut == PermissionsSpec => NamesMoveLocally
<1>1. ASSUME PermissionsInv, PermissionsInv', [PermissionsNext]_allVars,
             NEW t \in rows \intersect rows', NEW n \in Names,
             FindByNameInAncestors(t, n)' # FindByNameInAncestors(t, n)
      PROVE  \E s \in scopes' :
               /\ s \notin scopes \/ name'[s] # name[s]
               /\ home'[s] \in GetAncestors(t)
               /\ s \in FindByNameInAncestors(t, n) \union FindByNameInAncestors(t, n)'
  <2>1. CASE ScopeStep
    BY <1>1, <2>1, ScopeMovesName
  <2>2. CASE UNCHANGED allVars
    BY <1>1, <2>2 DEF allVars, vars, scopeVars, FindByNameInAncestors, Ascend, Named
  <2> QED
    BY <1>1, <2>1, <2>2, TenantsMoveNothing DEF PermissionsNext
<1>2. PermissionsInv /\ PermissionsInv' /\ [PermissionsNext]_allVars =>
        [ \A t \in rows \intersect rows', n \in Names :
            FindByNameInAncestors(t, n)' # FindByNameInAncestors(t, n) =>
              \E s \in scopes' :
                /\ s \notin scopes \/ name'[s] # name[s]
                /\ home'[s] \in GetAncestors(t)
                /\ s \in FindByNameInAncestors(t, n) \union FindByNameInAncestors(t, n)' ]_allVars
  BY <1>1
<1> QED
  BY <1>2, InvHolds, PTL DEF PermissionsSpec, NamesMoveLocally
=============================================================================
