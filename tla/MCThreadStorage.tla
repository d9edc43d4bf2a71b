-------------------------- MODULE MCThreadStorage --------------------------
(* Values for model checking ThreadStorage. *)
EXTENDS ThreadStorage, TLC

CONSTANTS t1, t2, s1, s2

MCThreads == {t1, t2}
MCStorages == {s1, s2}
=============================================================================
