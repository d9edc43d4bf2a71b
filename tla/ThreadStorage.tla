--------------------------- MODULE ThreadStorage ---------------------------
(***************************************************************************)
(* The per-thread data of loggers: thread_storage, a map from thread       *)
(* identifiers to values behind a shared_mutex, and the list of callbacks  *)
(* of GlobalEvents, through which DLL_THREAD_DETACH tells every storage    *)
(* that a thread ends.                                                     *)
(*                                                                         *)
(* Windows uses the identifier of a thread that has ended again, so an     *)
(* entry left behind would be found by a stranger.  A thread is named by   *)
(* its identifier, gen counts the threads that had it, and an entry is the *)
(* gen of the thread that made it.                                         *)
(*                                                                         *)
(* The sections under the exclusive lock of the callback list are single   *)
(* list operations, so each is one action that waits for the threads that  *)
(* hold the lock shared; the sections under a storage's lock are two.      *)
(***************************************************************************)
EXTENDS Integers

CONSTANTS
  Threads,   \* thread identifiers
  Storages,  \* the thread_storage of each logger
  MaxGen     \* how many threads may have the same identifier; a bound

ASSUME GenAssumption == MaxGen \in Nat \ {0}

VARIABLES
  handlers,  \* the storages whose clear_value is in the callback list
  life,      \* how far a storage is constructed or destroyed
  vals,      \* the map of a storage; 0 for no entry
  tpc,       \* where a thread stands
  on,        \* the storage a thread is at
  called,    \* the callbacks an ending thread has made
  gen        \* the number of threads that have had an identifier

vars == <<handlers, life, vals, tpc, on, called, gen>>

storageVars == <<handlers, life>>
threadVars == <<tpc, on, called, gen>>

Lives == {"none", "listed", "live", "closing", "unlisted", "dead"}

(* The members vals and mtx exist, from before the callback is listed. *)
Alive == {"listed", "live", "closing", "unlisted"}

(* Threads that hold the lock of the callback list, shared. *)
Raising == {t \in Threads : tpc[t] \in {"exiting", "clearing"}}

(* Threads that hold the lock of storage s, exclusive and either way. *)
Writers(s) == {t \in Threads : on[t] = s /\ tpc[t] \in {"setting", "clearing"}}
Holders(s) == Writers(s) \cup {t \in Threads : on[t] = s /\ tpc[t] = "getting"}

(* Threads in an operation of the logger s belongs to, which outlives it. *)
Users(s) == {t \in Threads : on[t] = s /\ tpc[t] \in {"getting", "missing", "setting"}}

NoEntries == [t \in Threads |-> 0]

Init ==
  /\ handlers = {}
  /\ life = [s \in Storages |-> "none"]
  /\ vals = [s \in Storages |-> NoEntries]
  /\ tpc = [t \in Threads |-> "running"]
  /\ on \in [Threads -> Storages]
  /\ called = [t \in Threads |-> {}]
  /\ gen = [t \in Threads |-> 1]

-----------------------------------------------------------------------------
(* Construction and destruction of a storage. *)

Become(s, stage) == life' = [life EXCEPT ![s] = stage]

Subscribe(s) ==
  /\ life[s] = "none"
  /\ Raising = {}
  /\ handlers' = handlers \cup {s}
  /\ Become(s, "listed")
  /\ UNCHANGED <<vals, threadVars>>

(* Mutation: a failed subscription leaves its callback in the list. *)
SubscriptionFailsListed(s) ==
  /\ life[s] = "listed"
  /\ Raising = {}
  /\ Become(s, "none")
  /\ UNCHANGED <<handlers, vals, threadVars>>

(* There is no memory for the event_subscription. *)
SubscriptionFails(s) ==
  /\ life[s] = "listed"
  /\ Raising = {}
  /\ handlers' = handlers \ {s}
  /\ Become(s, "none")
  /\ UNCHANGED <<vals, threadVars>>

Constructed(s) ==
  /\ life[s] = "listed"
  /\ Become(s, "live")
  /\ UNCHANGED <<handlers, vals, threadVars>>

(* The logger goes, once nobody is in a call or a handler of it. *)
BeginDestruction(s) ==
  /\ life[s] = "live"
  /\ Users(s) = {}
  /\ Become(s, "closing")
  /\ UNCHANGED <<handlers, vals, threadVars>>

(* Mutation: the callback is taken out without the lock of the list. *)
UnsubscribeUnlocked(s) ==
  /\ life[s] = "closing"
  /\ handlers' = handlers \ {s}
  /\ Become(s, "unlisted")
  /\ UNCHANGED <<vals, threadVars>>

(* The subscription is the last member declared, so the first to go. *)
Unsubscribe(s) ==
  /\ life[s] = "closing"
  /\ Raising = {}
  /\ handlers' = handlers \ {s}
  /\ Become(s, "unlisted")
  /\ UNCHANGED <<vals, threadVars>>

DestroyMap(s) ==
  /\ life[s] = "unlisted"
  /\ vals' = [vals EXCEPT ![s] = NoEntries]
  /\ Become(s, "dead")
  /\ UNCHANGED <<handlers, threadVars>>

Destructor(s) == Unsubscribe(s) \/ DestroyMap(s)

Owner(s) ==
  \/ Subscribe(s) \/ SubscriptionFails(s) \/ Constructed(s)
  \/ BeginDestruction(s) \/ Destructor(s)

-----------------------------------------------------------------------------
(* A thread at work: get_value, and set_value where that finds nothing. *)

GoTo(t, position) == tpc' = [tpc EXCEPT ![t] = position]

BeginGet(t, s) ==
  /\ tpc[t] = "running"
  /\ life[s] = "live"
  /\ Writers(s) = {}
  /\ on' = [on EXCEPT ![t] = s]
  /\ GoTo(t, "getting")
  /\ UNCHANGED <<storageVars, vals, called, gen>>

(* Mutation: the map is read with its subscript operator, which inserts. *)
EndGetBySubscript(t) ==
  /\ tpc[t] = "getting"
  /\ vals' = [vals EXCEPT ![on[t]][t] = IF @ = 0 THEN -1 ELSE @]
  /\ GoTo(t, IF vals[on[t]][t] = 0 THEN "missing" ELSE "running")
  /\ UNCHANGED <<storageVars, on, called, gen>>

EndGet(t) ==
  /\ tpc[t] = "getting"
  /\ GoTo(t, IF vals[on[t]][t] = 0 THEN "missing" ELSE "running")
  /\ UNCHANGED <<storageVars, vals, on, called, gen>>

(* The methods that read or clear have nothing to do without an entry. *)
DoWithout(t) ==
  /\ tpc[t] = "missing"
  /\ GoTo(t, "running")
  /\ UNCHANGED <<storageVars, vals, on, called, gen>>

(* Mutation: the map is changed under the shared lock. *)
BeginSetShared(t) ==
  /\ tpc[t] = "missing"
  /\ Writers(on[t]) = {}
  /\ GoTo(t, "setting")
  /\ UNCHANGED <<storageVars, vals, on, called, gen>>

(* HandleProcessException and WriteLog make the entry. *)
BeginSet(t) ==
  /\ tpc[t] = "missing"
  /\ Holders(on[t]) = {}
  /\ GoTo(t, "setting")
  /\ UNCHANGED <<storageVars, vals, on, called, gen>>

EndSet(t) ==
  /\ tpc[t] = "setting"
  /\ vals' = [vals EXCEPT ![on[t]][t] = gen[t]]
  /\ GoTo(t, "running")
  /\ UNCHANGED <<storageVars, on, called, gen>>

-----------------------------------------------------------------------------
(* A thread that ends: DLL_THREAD_DETACH, and raise_thread_exit in it. *)

BeginExit(t) ==
  /\ tpc[t] = "running"
  /\ called' = [called EXCEPT ![t] = {}]
  /\ GoTo(t, "exiting")
  /\ UNCHANGED <<storageVars, vals, on, gen>>

(* The next callback; which one comes first makes no difference. *)
BeginClear(t, s) ==
  /\ tpc[t] = "exiting"
  /\ s \in handlers \ called[t]
  /\ Holders(s) = {}
  /\ on' = [on EXCEPT ![t] = s]
  /\ GoTo(t, "clearing")
  /\ UNCHANGED <<storageVars, vals, called, gen>>

(* Mutation: the entry is left in the map. *)
EndClearKeeping(t) ==
  /\ tpc[t] = "clearing"
  /\ called' = [called EXCEPT ![t] = @ \cup {on[t]}]
  /\ GoTo(t, "exiting")
  /\ UNCHANGED <<storageVars, vals, on, gen>>

(* Mutation: the loop over the callbacks does not advance. *)
EndClearRepeating(t) ==
  /\ tpc[t] = "clearing"
  /\ vals' = [vals EXCEPT ![on[t]][t] = 0]
  /\ GoTo(t, "exiting")
  /\ UNCHANGED <<storageVars, on, called, gen>>

EndClear(t) ==
  /\ tpc[t] = "clearing"
  /\ vals' = [vals EXCEPT ![on[t]][t] = 0]
  /\ called' = [called EXCEPT ![t] = @ \cup {on[t]}]
  /\ GoTo(t, "exiting")
  /\ UNCHANGED <<storageVars, on, gen>>

(* Mutation: only one callback is made. *)
EndExitAfterOne(t) ==
  /\ tpc[t] = "exiting"
  /\ handlers \cap called[t] # {} \/ handlers = {}
  /\ GoTo(t, "gone")
  /\ UNCHANGED <<storageVars, vals, on, called, gen>>

EndExit(t) ==
  /\ tpc[t] = "exiting"
  /\ handlers \subseteq called[t]
  /\ GoTo(t, "gone")
  /\ UNCHANGED <<storageVars, vals, on, called, gen>>

(* The system gives the identifier to a new thread. *)
Reuse(t) ==
  /\ tpc[t] = "gone"
  /\ gen[t] < MaxGen
  /\ gen' = [gen EXCEPT ![t] = @ + 1]
  /\ GoTo(t, "running")
  /\ UNCHANGED <<storageVars, vals, on, called>>

(* What a thread that has begun an operation, or its end, goes on with. *)
Proceed(t) ==
  \/ EndGet(t) \/ DoWithout(t) \/ BeginSet(t) \/ EndSet(t)
  \/ (\E s \in Storages : BeginClear(t, s)) \/ EndClear(t) \/ EndExit(t)

Thread(t) ==
  \/ \E s \in Storages : BeginGet(t, s)
  \/ BeginExit(t) \/ Reuse(t)
  \/ Proceed(t)

(* Every thread and every storage has come to its end. *)
Terminated ==
  /\ \A t \in Threads : tpc[t] = "gone" /\ gen[t] = MaxGen
  /\ \A s \in Storages : life[s] = "dead"
  /\ UNCHANGED vars

Next ==
  \/ \E s \in Storages : Owner(s)
  \/ \E t \in Threads : Thread(t)
  \/ Terminated

Spec == Init /\ [][Next]_vars

(* Threads and destructors that have begun go on, and a thread that waits
   for a lock which is free again and again is granted it: Windows queues
   the waiters of the locks behind std::shared_mutex. *)
Fairness ==
  /\ \A s \in Storages : WF_vars(DestroyMap(s)) /\ SF_vars(Unsubscribe(s))
  /\ \A t \in Threads : SF_vars(Proceed(t))

FairSpec == Spec /\ Fairness

-----------------------------------------------------------------------------
(* Properties. *)

(* Every variable has its type; an entry always has a value. *)
TypeOK ==
  /\ handlers \subseteq Storages
  /\ life \in [Storages -> Lives]
  /\ vals \in [Storages -> [Threads -> 0 .. MaxGen]]
  /\ tpc \in [Threads -> {"running", "getting", "missing", "setting",
                          "exiting", "clearing", "gone"}]
  /\ on \in [Threads -> Storages]
  /\ called \in [Threads -> SUBSET Storages]
  /\ gen \in [Threads -> 1 .. MaxGen]

(* The callback list names exactly the storages that have subscribed and not
   gone: no callback is left behind by a constructor that failed or a
   destructor, and no storage misses the end of a thread. *)
ListExact == handlers = {s \in Storages : life[s] \in {"listed", "live", "closing"}}

(* A thread is never in the callback of a storage whose map and lock are
   destroyed, or being destroyed by its owner. *)
CallbackSafe ==
  \A t \in Threads : tpc[t] = "clearing" => life[on[t]] \in {"listed", "live", "closing"}

(* No thread finds data of another that had its identifier before, however
   its end overlapped with loggers coming and going. *)
OwnDataOnly ==
  \A s \in handlers, t \in Threads :
    /\ tpc[t] \notin {"exiting", "clearing"} => vals[s][t] \in {0, gen[t]}
    /\ tpc[t] = "gone" => vals[s][t] = 0

(* The map of a storage is never changed while another thread is in it. *)
MapNotRaced ==
  \A s \in Storages, t, u \in Threads :
    t \in Writers(s) /\ u \in Holders(s) => t = u

(* A thread that ends is not held up for ever by loggers coming and going or
   by other threads: the locks are never waited for in a circle. *)
ThreadsExit == \A t \in Threads : tpc[t] = "exiting" ~> tpc[t] = "gone"

(* A logger that goes is not held up for ever by threads that end. *)
StoragesDie == \A s \in Storages : life[s] = "closing" ~> life[s] = "dead"

(* What is in the map of a storage that is in use.  A thread in its end is in
   DllMain, where it looks nothing up any more; what is still there when the
   end is over counts. *)
Usable == {s \in Storages : life[s] = "live"}
Findable ==
  [s \in Storages |-> [t \in Threads |->
    IF t \in Raising \/ s \notin Usable THEN 0 ELSE vals[s][t]]]

(* The threads that are not in their end, and have not ended. *)
Working == {t \in Threads : t \notin Raising /\ tpc[t] # "gone"}

(* The storage implements one cell for each thread and logger, which only
   that thread fills, and which every thread that starts finds empty. *)
Cells == INSTANCE ThreadCells WITH
  cell <- Findable, open <- Usable, running <- Working, number <- gen
CellSpec == Cells!Spec
=============================================================================
