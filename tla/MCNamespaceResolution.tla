----------------------- MODULE MCNamespaceResolution -----------------------
EXTENDS NamespaceResolution

(* The constants of the run are values of its configuration. *)
=============================================================================
