---------------------------- MODULE MCPermissions ----------------------------
(* Tenants, scopes and names are interchangeable. *)
EXTENDS Permissions, TLC

MCSymmetry == Permutations(Ids \ {Master}) \union Permutations(ScopeIds) \union Permutations(Names)
=============================================================================
