---------------------------- MODULE MCUnpackJobs ----------------------------
(* The instances of UnpackJobs that TLC checks: one bundle. *)
EXTENDS UnpackJobs
=============================================================================
