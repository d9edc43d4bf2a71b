---------------------------- MODULE MCThunkCode ----------------------------
(* Values for model checking ThunkCode. *)
EXTENDS ThunkCode

MCOneViaStack == 0..4
MCMoreViaStack == 5..6
MCResults == {0, 1}
=============================================================================
