------------------------- MODULE MCVectoredHandler -------------------------
(* Values for model checking VectoredHandler. *)
EXTENDS VectoredHandler

CONSTANTS t1, t2, other

MCThreads == {t1, t2}
MCCodes == {CLR, other}
=============================================================================
