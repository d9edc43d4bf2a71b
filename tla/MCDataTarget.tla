---------------------------- MODULE MCDataTarget ----------------------------
(* Values for model checking DataTarget. *)
EXTENDS DataTarget

MCAddresses == 0..2
MCValues == {0, 1}
=============================================================================
