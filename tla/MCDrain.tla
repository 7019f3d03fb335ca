------------------------------- MODULE MCDrain -------------------------------
(* An organisation below the master tenant and a team below it. *)
EXTENDS Drain, TLC

MCTenants    == {"root", "org", "team"}
MCParent     == "org" :> "root" @@ "team" :> "org"
MCUsers      == {"ada"}
MCKeyTenant  == "key" :> "org"
MCRoleTenant == "admin" :> "root" @@ "clerk" :> "org"

\* Ada as administrator, as clerk where the role belongs and where it does not; the key.
MCBindings ==
  { << "ada", "admin", "root" >>, << "ada", "clerk", "org" >>,
    << "ada", "clerk", "root" >>, << "key", "admin", "org" >> }

MCSymmetry == Permutations(Callers)
=============================================================================
