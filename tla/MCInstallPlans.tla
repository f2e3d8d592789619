--------------------------- MODULE MCInstallPlans ---------------------------
(* Instances of InstallPlans for TLC. *)
EXTENDS InstallPlans

KindAll == <<"CSV", "CRD", "Role", "Secret">>
DenyRest == {{3, 4}}
DenyEither == {{1}, {3}, {4}}
=============================================================================
