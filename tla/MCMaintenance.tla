---------------------------- MODULE MCMaintenance ----------------------------
(* Instances of Maintenance for TLC. *)
EXTENDS Maintenance

MCSkew == {-2, 0, 1, 3}
=============================================================================
