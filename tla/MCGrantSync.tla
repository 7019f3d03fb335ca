---------------------------- MODULE MCGrantSync ----------------------------
(***************************************************************************)
(* GrantSync for TLC: a chain of two or three tenants, the lowest of three *)
(* refusing inheritance, two roles of which one crosses that boundary, and *)
(* scopes of the master tenant or of the one below it.                     *)
(***************************************************************************)
EXTENDS GrantSync, TLC

CONSTANTS master, org, vault, plain, crossing, read, local

Chain == master :> NoTenant @@ org :> master @@ vault :> org

Boundary == master :> FALSE @@ org :> TRUE @@ vault :> FALSE

Pair == [t \in {master, org} |-> Chain[t]]

PairInherit == [t \in {master, org} |-> Boundary[t]]

CrossesBoundary == [r \in Roles |-> r = crossing]

OwnedBy == [s \in Scopes |-> IF s = local THEN org ELSE master]

=============================================================================
