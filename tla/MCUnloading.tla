---------------------------- MODULE MCUnloading ----------------------------
(* Values for model checking Unloading. *)
EXTENDS Unloading

CONSTANTS c1, c2, t1, t2, r1

MCCalls == {c1, c2}
MCThreads == {t1, t2}
MCRaisers == {r1}
=============================================================================
