------------------------ MODULE ThreadStorageProofs ------------------------
(***************************************************************************)
(* Proofs about ThreadStorage, for any threads and storages and any number *)
(* of times an identifier is used: no callback of a storage that is going, *)
(* no data of another thread, no race on a map, and one cell per thread.   *)
(***************************************************************************)
EXTENDS ThreadStorage, TLAPS

-----------------------------------------------------------------------------
(* The inductive invariant. *)

(* A thread in an operation keeps the storage alive. *)
UsersInv ==
  \A t \in Threads :
    tpc[t] \in {"getting", "missing", "setting"} => life[on[t]] = "live"

(* A map is empty before its storage can be used. *)
FreshInv ==
  \A s \in Storages : life[s] \in {"none", "listed"} => vals[s] = NoEntries

(* A thread that makes an entry has none. *)
MissingInv ==
  \A t \in Threads : tpc[t] \in {"missing", "setting"} => vals[on[t]][t] = 0

(* In the listed storages: an entry is of the thread itself, and is gone when
   the thread has made the callback, and when it has ended. *)
EntryInv ==
  \A s \in handlers, t \in Threads :
    /\ vals[s][t] \in {0, gen[t]}
    /\ t \in Raising /\ s \in called[t] => vals[s][t] = 0
    /\ tpc[t] = "gone" => vals[s][t] = 0

IInv ==
  /\ TypeOK
  /\ ListExact
  /\ UsersInv
  /\ CallbackSafe
  /\ MapNotRaced
  /\ FreshInv
  /\ MissingInv
  /\ EntryInv

USE DEF storageVars, threadVars, GoTo, Become

-----------------------------------------------------------------------------
(* Each kind of step preserves the invariant. *)

LEMMA OwnerSteps ==
  ASSUME IInv, NEW s \in Storages, Owner(s)
  PROVE  IInv'
<1> USE DEF IInv
<1>0. UNCHANGED threadVars
  BY DEF Owner, Destructor, Subscribe, SubscriptionFails, Constructed,
     BeginDestruction, Unsubscribe, DestroyMap
<1>1. /\ life' \in [Storages -> Lives]
      /\ \A z \in Storages : z # s => life'[z] = life[z]
      /\ handlers' \subseteq Storages
  BY DEF Owner, Destructor, Subscribe, SubscriptionFails, Constructed,
     BeginDestruction, Unsubscribe, DestroyMap, TypeOK, Lives
<1>2. \/ UNCHANGED vals
      \/ life[s] = "unlisted" /\ vals' = [vals EXCEPT ![s] = NoEntries]
  BY DEF Owner, Destructor, Subscribe, SubscriptionFails, Constructed,
     BeginDestruction, Unsubscribe, DestroyMap
<1>3. /\ vals' \in [Storages -> [Threads -> 0 .. MaxGen]]
      /\ \A z \in Storages, t \in Threads : vals'[z][t] \in {0, vals[z][t]}
  <2>1. NoEntries \in [Threads -> 0 .. MaxGen]
    BY GenAssumption DEF NoEntries
  <2>2. CASE UNCHANGED vals
    BY <2>2 DEF TypeOK
  <2>3. CASE vals' = [vals EXCEPT ![s] = NoEntries]
    <3>1. vals' \in [Storages -> [Threads -> 0 .. MaxGen]]
      BY <2>1, <2>3 DEF TypeOK
    <3>2. \A z \in Storages : vals'[z] = IF z = s THEN NoEntries ELSE vals[z]
      BY <2>3 DEF TypeOK
    <3> QED
      BY <3>1, <3>2 DEF NoEntries
  <2> QED
    BY <1>2, <2>2, <2>3
<1>4. TypeOK'
  BY <1>0, <1>1, <1>3 DEF TypeOK
<1>5. ListExact'
  BY DEF Owner, Destructor, Subscribe, SubscriptionFails, Constructed,
     BeginDestruction, Unsubscribe, DestroyMap, TypeOK, ListExact, Lives
<1>6. UsersInv'
  BY <1>0 DEF Owner, Destructor, Subscribe, SubscriptionFails, Constructed,
     BeginDestruction, Unsubscribe, DestroyMap, TypeOK, UsersInv, Users
<1>7. CallbackSafe'
  BY <1>0 DEF Owner, Destructor, Subscribe, SubscriptionFails, Constructed,
     BeginDestruction, Unsubscribe, DestroyMap, TypeOK, CallbackSafe, Raising
<1>8. MapNotRaced'
  BY <1>0 DEF MapNotRaced, Writers, Holders
<1>9. FreshInv'
  BY <1>2 DEF Owner, Destructor, Subscribe, SubscriptionFails, Constructed,
     BeginDestruction, Unsubscribe, DestroyMap, TypeOK, FreshInv
<1>10. MissingInv'
  BY <1>0, <1>3 DEF MissingInv, TypeOK
<1>11. EntryInv'
  <2>1. CASE Subscribe(s)
    BY <2>1, <1>0, GenAssumption DEF Subscribe, EntryInv, FreshInv, NoEntries, Raising
  <2>2. CASE ~Subscribe(s)
    <3>1. handlers' \subseteq handlers
      BY <2>2 DEF Owner, Destructor, SubscriptionFails, Constructed,
         BeginDestruction, Unsubscribe, DestroyMap
    <3> QED
      BY <1>0, <1>3, <3>1 DEF EntryInv, TypeOK, Raising
  <2> QED
    BY <2>1, <2>2
<1> QED
  BY <1>4, <1>5, <1>6, <1>7, <1>8, <1>9, <1>10, <1>11

LEMMA ThreadSteps ==
  ASSUME IInv, NEW t \in Threads, Thread(t)
  PROVE  IInv'
<1> USE DEF IInv
<1>1. CASE \E s \in Storages : BeginGet(t, s)
  BY <1>1 DEF BeginGet, TypeOK, ListExact, UsersInv, CallbackSafe, MapNotRaced,
     FreshInv, MissingInv, EntryInv, Raising, Writers, Holders
<1>2. CASE EndGet(t)
  BY <1>2 DEF EndGet, TypeOK, ListExact, UsersInv, CallbackSafe, MapNotRaced,
     FreshInv, MissingInv, EntryInv, Raising, Writers, Holders
<1>3. CASE DoWithout(t)
  BY <1>3 DEF DoWithout, TypeOK, ListExact, UsersInv, CallbackSafe, MapNotRaced,
     FreshInv, MissingInv, EntryInv, Raising, Writers, Holders
<1>4. CASE BeginSet(t)
  BY <1>4 DEF BeginSet, TypeOK, ListExact, UsersInv, CallbackSafe, MapNotRaced,
     FreshInv, MissingInv, EntryInv, Raising, Writers, Holders
<1>5. CASE EndSet(t)
  BY <1>5 DEF EndSet, TypeOK, ListExact, UsersInv, CallbackSafe, MapNotRaced,
     FreshInv, MissingInv, EntryInv, Raising, Writers, Holders
<1>6. CASE BeginExit(t)
  BY <1>6 DEF BeginExit, TypeOK, ListExact, UsersInv, CallbackSafe, MapNotRaced,
     FreshInv, MissingInv, EntryInv, Raising, Writers, Holders
<1>7. CASE \E s \in Storages : BeginClear(t, s)
  BY <1>7 DEF BeginClear, TypeOK, ListExact, UsersInv, CallbackSafe, MapNotRaced,
     FreshInv, MissingInv, EntryInv, Raising, Writers, Holders
<1>8. CASE EndClear(t)
  <2>1. /\ tpc[t] = "clearing" /\ on[t] \in handlers /\ on[t] \in Storages
        /\ tpc' = [tpc EXCEPT ![t] = "exiting"]
        /\ called' = [called EXCEPT ![t] = called[t] \cup {on[t]}]
        /\ UNCHANGED <<handlers, life, on, gen>>
    BY <1>8 DEF EndClear, CallbackSafe, ListExact, TypeOK
  <2>2. /\ vals' \in [Storages -> [Threads -> 0 .. MaxGen]]
        /\ \A s \in Storages, u \in Threads :
             vals'[s][u] = IF s = on[t] /\ u = t THEN 0 ELSE vals[s][u]
    BY <1>8, <2>1, GenAssumption DEF EndClear, TypeOK
  <2>3. TypeOK'
    BY <2>1, <2>2 DEF TypeOK
  <2>4. ListExact' /\ UsersInv' /\ CallbackSafe' /\ MapNotRaced'
    BY <2>1 DEF TypeOK, ListExact, UsersInv, CallbackSafe, MapNotRaced,
       Writers, Holders
  <2>5. FreshInv'
    <3>1. ASSUME NEW s \in Storages, life'[s] \in {"none", "listed"}
          PROVE  vals'[s] = NoEntries
      <4>1. vals[s] = NoEntries
        BY <2>1, <3>1 DEF FreshInv
      <4>2. \A u \in Threads : vals'[s][u] = 0
        BY <2>2, <4>1 DEF NoEntries
      <4> QED
        BY <2>2, <4>2 DEF NoEntries
    <3> QED
      BY <3>1 DEF FreshInv
  <2>6. MissingInv'
    BY <2>1, <2>2 DEF MissingInv, TypeOK
  <2>7. EntryInv'
    BY <2>1, <2>2 DEF EntryInv, TypeOK, Raising
  <2> QED
    BY <2>3, <2>4, <2>5, <2>6, <2>7
<1>9. CASE EndExit(t)
  BY <1>9 DEF EndExit, TypeOK, ListExact, UsersInv, CallbackSafe, MapNotRaced,
     FreshInv, MissingInv, EntryInv, Raising, Writers, Holders
<1>10. CASE Reuse(t)
  <2>1. /\ tpc[t] = "gone"
        /\ tpc' = [tpc EXCEPT ![t] = "running"]
        /\ UNCHANGED <<handlers, life, vals, on, called>>
    BY <1>10 DEF Reuse
  <2>2. /\ gen' \in [Threads -> 1 .. MaxGen]
        /\ \A u \in Threads : u # t => gen'[u] = gen[u]
    BY <1>10, GenAssumption DEF Reuse, TypeOK
  <2>3. TypeOK' /\ ListExact' /\ UsersInv' /\ CallbackSafe' /\ FreshInv'
    BY <2>1, <2>2 DEF TypeOK, ListExact, UsersInv, CallbackSafe, FreshInv
  <2>4. MapNotRaced' /\ MissingInv'
    BY <2>1 DEF TypeOK, MapNotRaced, Writers, Holders, MissingInv
  <2>5. EntryInv'
    BY <2>1, <2>2 DEF EntryInv, TypeOK, Raising
  <2> QED
    BY <2>3, <2>4, <2>5
<1> QED
  BY <1>1, <1>2, <1>3, <1>4, <1>5, <1>6, <1>7, <1>8, <1>9, <1>10
  DEF Thread, Proceed

LEMMA Initial ==
  ASSUME Init
  PROVE  IInv
<1> USE DEF Init
<1>1. NoEntries \in [Threads -> 0 .. MaxGen] /\ 1 \in 1 .. MaxGen
  BY GenAssumption DEF NoEntries
<1>2. TypeOK
  BY <1>1 DEF TypeOK, Lives
<1>3. ListExact /\ UsersInv /\ CallbackSafe /\ MapNotRaced
  BY DEF ListExact, UsersInv, CallbackSafe, MapNotRaced, Writers
<1>4. FreshInv /\ MissingInv /\ EntryInv
  BY DEF FreshInv, MissingInv, EntryInv
<1> QED
  BY <1>2, <1>3, <1>4 DEF IInv

LEMMA Inductive ==
  ASSUME IInv, [Next]_vars
  PROVE  IInv'
<1>1. CASE UNCHANGED vars
  BY <1>1 DEF vars, IInv, TypeOK, ListExact, UsersInv, CallbackSafe,
     MapNotRaced, FreshInv, MissingInv, EntryInv, Raising, Writers, Holders
<1>2. CASE Terminated
  BY <1>1, <1>2 DEF Terminated
<1> QED
  BY <1>1, <1>2, OwnerSteps, ThreadSteps DEF Next

(* The inductive invariant holds in every reachable state. *)
THEOREM Invariance == Spec => []IInv
<1>1. Init => IInv
  BY Initial
<1>2. IInv /\ [Next]_vars => IInv'
  BY Inductive
<1> QED
  BY <1>1, <1>2, PTL DEF Spec

-----------------------------------------------------------------------------
(* What the invariant says of the code. *)

(* Every variable keeps its type: no map ever holds an entry without data. *)
THEOREM TypeCorrect == Spec => []TypeOK
<1>1. IInv => TypeOK
  BY DEF IInv
<1> QED
  BY <1>1, Invariance, PTL

(* The callback list is the list of the storages that have subscribed and
   have not unsubscribed, also when a subscription fails half way. *)
THEOREM ListIsExact == Spec => []ListExact
<1>1. IInv => ListExact
  BY DEF IInv
<1> QED
  BY <1>1, Invariance, PTL

(* raise_thread_exit never calls into a storage that is being destroyed. *)
THEOREM CallbacksAreSafe == Spec => []CallbackSafe
<1>1. IInv => CallbackSafe
  BY DEF IInv
<1> QED
  BY <1>1, Invariance, PTL

(* A thread finds no data of an earlier thread with its identifier. *)
THEOREM DataIsOwn == Spec => []OwnDataOnly
<1>1. IInv => OwnDataOnly
  BY DEF IInv, EntryInv, OwnDataOnly
<1> QED
  BY <1>1, Invariance, PTL

(* No map is changed while another thread is in it. *)
THEOREM MapsAreNotRaced == Spec => []MapNotRaced
<1>1. IInv => MapNotRaced
  BY DEF IInv
<1> QED
  BY <1>1, Invariance, PTL

-----------------------------------------------------------------------------
(* The storage as cells. *)

LEMMA OwnerStepCells ==
  ASSUME IInv, NEW s \in Storages, Owner(s)
  PROVE  [Cells!Next]_(Cells!vars)
<1> USE DEF IInv
<1>0. UNCHANGED threadVars
  BY DEF Owner, Destructor, Subscribe, SubscriptionFails, Constructed,
     BeginDestruction, Unsubscribe, DestroyMap
<1>1. Raising' = Raising /\ Working' = Working /\ UNCHANGED gen
  BY <1>0 DEF Raising, Working
<1>2. CASE Constructed(s)
  <2>1. /\ s \notin Usable /\ Usable' = Usable \cup {s}
        /\ UNCHANGED vals /\ vals[s] = NoEntries
    BY <1>2 DEF Constructed, Usable, TypeOK, FreshInv
  <2>2. Findable' = Findable
    BY <1>1, <2>1 DEF Findable, NoEntries
  <2>3. Cells!StorageComes(s)
    BY <1>1, <2>1, <2>2 DEF Cells!StorageComes
  <2> QED
    BY <2>3 DEF Cells!Next
<1>3. CASE BeginDestruction(s)
  <2>1. s \in Usable /\ Usable' = Usable \ {s} /\ UNCHANGED vals
    BY <1>3 DEF BeginDestruction, Usable, TypeOK
  <2>2. Findable' = [Findable EXCEPT ![s] = [t \in Threads |-> 0]]
    BY <1>1, <2>1 DEF Findable
  <2>3. Cells!StorageGoes(s)
    BY <1>1, <2>1, <2>2 DEF Cells!StorageGoes, Cells!Empty
  <2> QED
    BY <2>3 DEF Cells!Next
<1>4. CASE Subscribe(s) \/ SubscriptionFails(s) \/ Unsubscribe(s)
  <2>1. Usable' = Usable /\ UNCHANGED vals
    BY <1>4 DEF Subscribe, SubscriptionFails, Unsubscribe, Usable, TypeOK
  <2> QED
    BY <1>1, <2>1 DEF Findable, Cells!vars
<1>5. CASE DestroyMap(s)
  <2>1. /\ Usable' = Usable /\ s \notin Usable
        /\ \A z \in Storages : z # s => vals'[z] = vals[z]
    BY <1>5 DEF DestroyMap, Usable, TypeOK
  <2>2. Findable' = Findable
    BY <1>1, <2>1 DEF Findable
  <2> QED
    BY <1>1, <2>1, <2>2 DEF Cells!vars
<1> QED
  BY <1>2, <1>3, <1>4, <1>5 DEF Owner, Destructor

LEMMA ThreadStepCells ==
  ASSUME IInv, NEW t \in Threads, Thread(t)
  PROVE  [Cells!Next]_(Cells!vars)
<1> USE DEF IInv
<1>0. Usable' = Usable /\ UNCHANGED storageVars
  BY DEF Usable, Thread, Proceed, BeginGet, EndGet, DoWithout, BeginSet, EndSet,
     BeginExit, BeginClear, EndClear, EndExit, Reuse
<1>1. CASE /\ UNCHANGED <<vals, gen>>
           /\ Raising' = Raising /\ Working' = Working
  BY <1>0, <1>1 DEF Findable, Cells!vars
<1>2. CASE EndSet(t)
  <2>1. /\ on[t] \in Storages /\ UNCHANGED gen
        /\ Raising' = Raising /\ Working' = Working /\ t \in Working
    BY <1>2 DEF EndSet, TypeOK, Raising, Working
  <2>2. on[t] \in Usable /\ t \notin Raising /\ vals[on[t]][t] = 0
    BY <1>2, <2>1 DEF EndSet, UsersInv, Usable, MissingInv, Raising
  <2>3. Cells!Fill(on[t], t)
    <3> DEFINE F(s, u) == IF s = on[t] /\ u = t THEN gen[t] ELSE Findable[s][u]
    <3>1. Findable[on[t]][t] = 0
      BY <2>1, <2>2 DEF Findable
    <3>2. \A s \in Storages, u \in Threads :
            vals'[s][u] = IF s = on[t] /\ u = t THEN gen[t] ELSE vals[s][u]
      BY <1>2, <2>1 DEF EndSet, TypeOK
    <3>3. Findable' = [s \in Storages |-> [u \in Threads |-> F(s, u)]]
      BY <1>0, <2>1, <2>2, <3>2 DEF Findable
    <3>4. [Findable EXCEPT ![on[t]][t] = gen[t]]
            = [s \in Storages |-> [u \in Threads |-> F(s, u)]]
      BY <2>1 DEF Findable
    <3> QED
      BY <1>0, <2>1, <2>2, <3>1, <3>3, <3>4 DEF Cells!Fill, Cells!Empty
  <2> QED
    BY <2>1, <2>3 DEF Cells!Next
<1>3. CASE BeginExit(t)
  <2>1. /\ Raising' = Raising \cup {t} /\ Working' = Working \ {t}
        /\ t \in Working /\ UNCHANGED <<vals, gen>>
    BY <1>3 DEF BeginExit, Raising, Working, TypeOK
  <2>2. Findable' = [s \in Storages |-> [Findable[s] EXCEPT ![t] = 0]]
    BY <1>0, <2>1 DEF Findable
  <2>3. Cells!ThreadEnds(t)
    BY <1>0, <2>1, <2>2 DEF Cells!ThreadEnds, Cells!Empty
  <2> QED
    BY <2>3 DEF Cells!Next
<1>4. CASE EndClear(t)
  <2>1. /\ t \in Raising /\ Raising' = Raising /\ Working' = Working
        /\ UNCHANGED gen
    BY <1>4 DEF EndClear, Raising, Working, TypeOK
  <2>2. \A s \in Storages, u \in Threads : u # t => vals'[s][u] = vals[s][u]
    BY <1>4 DEF EndClear, TypeOK
  <2>3. Findable' = Findable
    BY <1>0, <2>1, <2>2 DEF Findable
  <2> QED
    BY <1>0, <2>1, <2>3 DEF Cells!vars
<1>5. CASE EndExit(t)
  <2>1. /\ t \in Raising /\ Raising' = Raising \ {t}
        /\ Working' = Working /\ UNCHANGED <<vals, gen>>
    BY <1>5 DEF EndExit, Raising, Working, TypeOK
  <2>2. \A s \in Usable : vals[s][t] = 0
    BY <1>5, <2>1 DEF EndExit, EntryInv, ListExact, Usable
  <2>3. Findable' = Findable
    BY <1>0, <2>1, <2>2 DEF Findable
  <2> QED
    BY <1>0, <2>1, <2>3 DEF Cells!vars
<1>6. CASE Reuse(t)
  <2>1. /\ tpc[t] = "gone" /\ t \notin Working /\ t \notin Raising
        /\ Raising' = Raising /\ Working' = Working \cup {t}
        /\ UNCHANGED vals /\ gen' = [gen EXCEPT ![t] = gen[t] + 1]
    BY <1>6 DEF Reuse, Raising, Working, TypeOK
  <2>2. \A s \in Storages : Findable[s][t] = 0
    BY <2>1 DEF Findable, Usable, EntryInv, ListExact
  <2>3. Findable' = Findable
    BY <1>0, <2>1 DEF Findable
  <2>4. Cells!ThreadStarts(t)
    BY <1>0, <2>1, <2>2, <2>3 DEF Cells!ThreadStarts, Cells!Empty
  <2> QED
    BY <2>4 DEF Cells!Next
<1> QED
  <2>1. CASE \/ (\E s \in Storages : BeginGet(t, s) \/ BeginClear(t, s))
             \/ EndGet(t) \/ DoWithout(t) \/ BeginSet(t)
    <3>1. /\ UNCHANGED <<vals, gen>>
          /\ Raising' = Raising /\ Working' = Working
      BY <2>1 DEF BeginGet, EndGet, DoWithout, BeginSet, BeginClear, Raising,
         Working, TypeOK
    <3> QED
      BY <3>1, <1>1
  <2> QED
    BY <2>1, <1>2, <1>3, <1>4, <1>5, <1>6 DEF Thread, Proceed

(* The lock, the map and the callbacks implement a cell for each thread and
   logger: only the thread fills it, with its own data and while it runs, and
   the next thread with its identifier starts with the cell empty. *)
THEOREM ImplementsCells == Spec => CellSpec
<1>1. Init => Cells!Init
  BY DEF Init, Cells!Init, Cells!Empty, Findable, NoEntries, Usable, Working, Raising
<1>2. ASSUME IInv, [Next]_vars
      PROVE  [Cells!Next]_(Cells!vars)
  <2>1. CASE UNCHANGED vars
    BY <2>1 DEF vars, Findable, Usable, Working, Raising, Cells!vars
  <2>2. CASE Terminated
    BY <2>1, <2>2 DEF Terminated
  <2> QED
    BY <1>2, <2>1, <2>2, OwnerStepCells, ThreadStepCells DEF Next
<1> QED
  BY <1>1, <1>2, Invariance, PTL DEF Spec, CellSpec, Cells!Spec
=============================================================================
