-------------------------------- MODULE MCApi --------------------------------
(* A row of the master tenant, or of a platform table, and a row of a tenant below. *)
EXTENDS Api, TLC

MCRowTenant == "system" :> "root" @@ "local" :> "org"
=============================================================================
