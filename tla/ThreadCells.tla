---------------------------- MODULE ThreadCells ----------------------------
(***************************************************************************)
(* What thread_storage promises: a cell per storage and thread, filled     *)
(* only by its own thread, while that thread runs, and only in a storage   *)
(* that is in use; emptied when the thread ends or the storage goes; and   *)
(* empty when a thread starts, also one with an identifier that others had *)
(* before. A thread is an identifier with the number of threads that have  *)
(* had it, and a cell holds the number of the thread that filled it.       *)
(***************************************************************************)
EXTENDS Naturals

CONSTANTS Storages, Threads

VARIABLES
  cell,    \* what is found in the cell of a storage and a thread
  open,    \* the storages in use
  running, \* the threads that run
  number   \* of threads that have had an identifier

vars == <<cell, open, running, number>>

Empty == 0

Init ==
  /\ cell = [s \in Storages |-> [t \in Threads |-> Empty]]
  /\ open = {}
  /\ running = Threads
  /\ number = [t \in Threads |-> 1]

StorageComes(s) ==
  /\ s \notin open
  /\ open' = open \cup {s}
  /\ UNCHANGED <<cell, running, number>>

StorageGoes(s) ==
  /\ s \in open
  /\ open' = open \ {s}
  /\ cell' = [cell EXCEPT ![s] = [t \in Threads |-> Empty]]
  /\ UNCHANGED <<running, number>>

Fill(s, t) ==
  /\ s \in open /\ t \in running
  /\ cell[s][t] = Empty
  /\ cell' = [cell EXCEPT ![s][t] = number[t]]
  /\ UNCHANGED <<open, running, number>>

ThreadEnds(t) ==
  /\ t \in running
  /\ running' = running \ {t}
  /\ cell' = [s \in Storages |-> [cell[s] EXCEPT ![t] = Empty]]
  /\ UNCHANGED <<open, number>>

ThreadStarts(t) ==
  /\ t \notin running
  /\ \A s \in Storages : cell[s][t] = Empty
  /\ running' = running \cup {t}
  /\ number' = [number EXCEPT ![t] = @ + 1]
  /\ UNCHANGED <<cell, open>>

Next ==
  \/ \E s \in Storages : StorageComes(s) \/ StorageGoes(s)
  \/ \E s \in Storages, t \in Threads : Fill(s, t)
  \/ \E t \in Threads : ThreadEnds(t) \/ ThreadStarts(t)

Spec == Init /\ [][Next]_vars
=============================================================================
