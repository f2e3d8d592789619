-------------------------- MODULE MCRegistryServer --------------------------
(* The instances of RegistryServer that TLC checks: one CatalogSource. *)
EXTENDS RegistryServer
=============================================================================
