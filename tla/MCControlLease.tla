---------------------------- MODULE MCControlLease ----------------------------
(* Instances of ControlLease for TLC. *)
EXTENDS ControlLease

CONSTANTS g1, g2

Stations == {g1, g2}
Single == {g1}
=============================================================================
