-------------------------- MODULE MCCommandFreshness --------------------------
(* An instance of CommandFreshness with clocks up to five units apart. *)
EXTENDS CommandFreshness

ClockOffsets == {-5, 3}
=============================================================================
