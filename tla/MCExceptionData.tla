-------------------------- MODULE MCExceptionData --------------------------
(* Values for model checking ExceptionData. *)
EXTENDS ExceptionData

CONSTANT t1

MCThreads == {t1}
MCDepths == {0, 2, 4}
MCEntryLimits == {-1, 0, 1}
MCFrameLimits == {-1, 0, 1}
=============================================================================
