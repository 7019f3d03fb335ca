----------------------------- MODULE MCAccounts -----------------------------
(***************************************************************************)
(* Accounts for TLC: a person who changed address, some of whose tokens    *)
(* claim none, and another who has the old address now.                    *)
(***************************************************************************)
EXTENDS Accounts, TLC

CONSTANTS s1, s2, e1, e2

People == { << s1, e1 >>, << s1, e2 >>, << s1, None >>, << s2, e1 >> }

Symmetry == Permutations(Ids) \union Permutations(Clients) \union Permutations(Admins)

=============================================================================
