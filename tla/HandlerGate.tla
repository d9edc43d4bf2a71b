---------------------------- MODULE HandlerGate ----------------------------
(***************************************************************************)
(* What the counter in_veh of StackLogger is there to promise, with the    *)
(* counter taken away: a door that handlers go in and out of until it is   *)
(* shut, that is shut only when nobody is in, and that never opens again.  *)
(* StackLogger.h describes the counter as the "Number of threads being     *)
(* inside VEH", with -1 for a logger that is being destroyed.              *)
(***************************************************************************)
CONSTANT Handlers  \* the handler invocations that may pass the door

VARIABLES
  inside,  \* the invocations that are in
  shut     \* has the door been shut

vars == <<inside, shut>>

Init ==
  /\ inside = {}
  /\ shut = FALSE

Enter(h) ==
  /\ ~shut
  /\ h \notin inside
  /\ inside' = inside \cup {h}
  /\ UNCHANGED shut

Leave(h) ==
  /\ h \in inside
  /\ inside' = inside \ {h}
  /\ UNCHANGED shut

Shut ==
  /\ inside = {}
  /\ shut' = TRUE
  /\ UNCHANGED inside

Next ==
  \/ \E h \in Handlers : Enter(h) \/ Leave(h)
  \/ Shut

Spec == Init /\ [][Next]_vars
=============================================================================
