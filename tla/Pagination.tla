----------------------------- MODULE Pagination -----------------------------
(***************************************************************************)
(* Pages of a table by cursor.  Ids are time-ordered and compared as such; *)
(* a page asks for one row more than it returns, and its cursor is the id  *)
(* of the last row it returns.  The dead letters and the audit log descend *)
(* as below; lists of tenants, roles, scopes, keys and bindings ascend in  *)
(* the same way.  The order of the rows within a page is left out: a page  *)
(* is the set of the ids it returns.                                       *)
(***************************************************************************)
EXTENDS Naturals, FiniteSets, FiniteSetsExt

NoCursor == 0   \* ids are positive

\* ORDER BY id DESC LIMIT n: the rows that fewer than n others precede.
Newest(ids, n) == { i \in ids : Cardinality({ j \in ids : j > i }) < n }

\* Mutation: the cursor is the id of the row that was fetched in excess.
Paginate_Excess(rows, limit) ==
  IF Cardinality(rows) > limit THEN [items |-> Newest(rows, limit), next |-> Min(rows)]
  ELSE [items |-> rows, next |-> NoCursor]

\* The last row of those kept is the one with the least id.
Paginate(rows, limit) ==
  IF Cardinality(rows) > limit
  THEN [items |-> Newest(rows, limit), next |-> Min(Newest(rows, limit))]
  ELSE [items |-> rows, next |-> NoCursor]

\* pageDead and the audit log's page: the rows before the cursor.
PageDescending(ids, cursor, limit) ==
  Paginate(Newest({ i \in ids : cursor # NoCursor => i < cursor }, limit + 1), limit)
=============================================================================
