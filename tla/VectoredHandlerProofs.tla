----------------------- MODULE VectoredHandlerProofs -----------------------
(***************************************************************************)
(* Proofs about VectoredHandler, for any finite set of threads, any bound  *)
(* on the nesting and any exception codes: its type invariant, its safety  *)
(* invariants, that a shut counter stays shut, and that the counter        *)
(* implements the abstract door of HandlerGate.                            *)
(***************************************************************************)
EXTENDS VectoredHandler, FiniteSetTheorems, TLAPS

-----------------------------------------------------------------------------
(* The inductive invariant. *)

(* The stages in which the destructor has got past its wait. *)
Down == {"yielding", "members", "unloading", "storage", "freed"}

(* What the stage of construction or destruction says about the counter, the
   list of the system, the thunk and the module. *)
OwnerInv ==
  /\ in_veh = -1 <=> owner \in Down
  /\ owner \in {"loaded", "thunked"} => dmod = "held"
  /\ owner = "thunked" => thunk = "held"
  /\ veh => owner \in {"live", "destroying"} /\ thunk = "held" /\ dmod = "held"
  /\ thunk = "held" => owner \notin
       {"none", "constructed", "loaded", "unloading", "storage", "freed"}
  /\ thunk = "released" => owner \in {"unloading", "storage", "freed"}
  /\ dmod = "held" => owner \notin {"none", "constructed", "storage", "freed"}
  /\ dmod = "released" => owner \in {"storage", "freed"}

(* An invocation exists only because the handler was installed, with the
   thunk and the module in place. *)
ActiveInv ==
  \A a \in Invocations : pc[a] # "idle" =>
    /\ owner \notin {"none", "constructed", "loaded", "thunked"}
    /\ thunk # "none"
    /\ dmod # "none"

(* What an invocation is about to compare the counter with is no -1. *)
SwapInv == \A a \in Invocations : pc[a] = "swapping" => cveh[a] # -1

(* The flag of a thread says whether the thread is in a dump. *)
FlagInv ==
  \A t \in Threads :
    reentrant[t] <=> \E a \in Invocations : a[1] = t /\ pc[a] = "dumping"

UniqueInv ==
  \A a, b \in Invocations :
    a[1] = b[1] /\ pc[a] = "dumping" /\ pc[b] = "dumping" => a = b

(* Below every invocation that is not the outermost, a dump is in progress. *)
NestInv ==
  \A a \in Invocations :
    pc[a] # "idle" /\ a[2] > 1 => pc[<<a[1], a[2] - 1>>] = "dumping"

(* All but the ranges of the counter, which follow from what it counts. *)
ShapeInv ==
  /\ owner \in Stages
  /\ veh \in BOOLEAN
  /\ thunk \in {"none", "held", "released"}
  /\ dmod \in {"none", "held", "released"}
  /\ in_veh \in Int
  /\ reentrant \in [Threads -> BOOLEAN]
  /\ pc \in [Invocations -> Positions]
  /\ cveh \in [Invocations -> -1 .. Cardinality(Invocations)]
  /\ code \in [Invocations -> Codes]

IInv ==
  /\ ShapeInv
  /\ CounterExact
  /\ OwnerInv
  /\ ActiveInv
  /\ SwapInv
  /\ FlagInv
  /\ UniqueInv
  /\ NestInv

-----------------------------------------------------------------------------
(* Counting. *)

LEMMA InvocationsFinite ==
  /\ IsFiniteSet(Invocations)
  /\ Cardinality(Invocations) \in Nat
<1>1. IsFiniteSet(1 .. MaxDepth)
  BY FS_Interval, DepthAssumption
<1>2. IsFiniteSet(Invocations)
  BY <1>1, FS_Product, ThreadsAssumption DEF Invocations
<1> QED
  BY <1>2, FS_CardinalityType

LEMMA InsideFinite ==
  /\ IsFiniteSet(Inside)
  /\ Cardinality(Inside) \in 0 .. Cardinality(Invocations)
  /\ Cardinality(Inside) = 0 <=> Inside = {}
<1>1. Inside \in SUBSET Invocations
  BY DEF Inside
<1>2. IsFiniteSet(Inside) /\ Cardinality(Inside) <= Cardinality(Invocations)
  BY <1>1, InvocationsFinite, FS_Subset
<1>3. Cardinality(Inside) \in Nat
  BY <1>2, FS_CardinalityType
<1> QED
  BY <1>2, <1>3, InvocationsFinite, FS_EmptySet

(* The two cases of the counter exclude each other. *)
LEMMA CountingOrShut ==
  ASSUME CounterExact
  PROVE  /\ in_veh \in -1 .. Cardinality(Invocations)
         /\ in_veh # -1 => in_veh = Cardinality(Inside)
         /\ in_veh = -1 => Inside = {}
BY InsideFinite, InvocationsFinite DEF CounterExact

(* Moving one invocation changes who is inside by at most that one. *)
LEMMA InsideStep ==
  ASSUME ShapeInv, NEW a \in Invocations, NEW p \in Positions, GoTo(a, p)
  PROVE  Inside' = IF p \in Counted THEN Inside \cup {a} ELSE Inside \ {a}
BY DEF ShapeInv, GoTo, Inside

(* A move on the same side of the door leaves the counter exact. *)
LEMMA SameSide ==
  ASSUME ShapeInv, CounterExact, UNCHANGED in_veh,
         NEW a \in Invocations, NEW p \in Positions, GoTo(a, p),
         p \in Counted <=> a \in Inside
  PROVE  CounterExact' /\ Inside' = Inside
<1>1. Inside' = Inside
  BY InsideStep
<1> QED
  BY <1>1 DEF CounterExact

-----------------------------------------------------------------------------
(* Every step preserves each part of the invariant. *)

(* A step of a thread: the invocation that moves, and where it stands. *)
Moves(a) == Handler(a) \/ \E c \in Codes : Raise(a, c)

USE DEF ownerVars, handlerVars

LEMMA ShapeStep ==
  ASSUME IInv, Next
  PROVE  ShapeInv'
<1> USE DEF IInv, ShapeInv, Stages, Positions, Counted
<1>1. in_veh \in -1 .. Cardinality(Invocations)
  BY CountingOrShut
<1>2. CASE Owner
  <2>1. UNCHANGED handlerVars
    BY <1>2 DEF Owner, Construct, ConstructionFails, LoadDac, CreateThunk,
       InstallHandler, Release, Destructor, UninstallHandler, ShutCounter,
       YieldOnce, FreeThunk, UnloadDac, FreeObject
  <2>2. CASE Construct \/ ConstructionFails \/ LoadDac \/ CreateThunk
    BY <2>1, <2>2 DEF Construct, ConstructionFails, LoadDac, CreateThunk
  <2>3. CASE InstallHandler \/ Release \/ UninstallHandler
    BY <2>1, <2>3 DEF InstallHandler, Release, UninstallHandler
  <2>4. CASE ShutCounter
    BY <2>1, <2>4 DEF ShutCounter
  <2>5. CASE YieldOnce \/ FreeThunk \/ UnloadDac \/ FreeObject
    BY <2>1, <2>5 DEF YieldOnce, FreeThunk, UnloadDac, FreeObject
  <2> QED
    BY <1>2, <2>2, <2>3, <2>4, <2>5 DEF Owner, Destructor
<1>3. ASSUME NEW a \in Invocations, Moves(a)
      PROVE  ShapeInv'
  <2>0. a[1] \in Threads
    BY DEF Invocations
  <2>1. CASE \E c \in Codes : Raise(a, c)
    BY <2>1 DEF Raise, GoTo
  <2>2. CASE FilterException(a)
    BY <2>2 DEF FilterException, GoTo
  <2>3. CASE ReadCounter(a)
    BY <2>3, <1>1 DEF ReadCounter, GoTo
  <2>4. CASE CountIn(a)
    BY <2>4, InvocationsFinite DEF CountIn, GoTo
  <2>5. CASE BeginDump(a)
    BY <2>5, <2>0 DEF BeginDump, GoTo
  <2>6. CASE EndDump(a)
    BY <2>6, <2>0 DEF EndDump, GoTo
  <2>7. CASE CountOut(a)
    BY <2>7 DEF CountOut, GoTo
  <2>8. CASE Return(a)
    BY <2>8 DEF Return, GoTo
  <2>9. CASE ExecuteFreedThunk(a) \/ TouchFreedObject(a)
    BY <2>9 DEF ExecuteFreedThunk, TouchFreedObject, GoTo
  <2> QED
    BY <1>3, <2>1, <2>2, <2>3, <2>4, <2>5, <2>6, <2>7, <2>8, <2>9
    DEF Moves, Handler
<1>4. CASE Terminated
  BY <1>4 DEF Terminated, vars
<1> QED
  BY <1>2, <1>3, <1>4 DEF Next, Moves

(* A step of a thread other than the exchange that counts it in and the
   decrement that counts it out stays on its side of the door. *)
LEMMA NotThroughTheDoor ==
  ASSUME IInv, NEW a \in Invocations, Moves(a), ~CountIn(a), ~CountOut(a)
  PROVE  Inside' = Inside /\ UNCHANGED in_veh
<1> USE DEF IInv, Positions, Counted
<1>0. a \in Inside <=> pc[a] \in Counted
  BY DEF Inside
<1>1. CASE \E c \in Codes : Raise(a, c)
  BY <1>0, <1>1, SameSide DEF Raise
<1>2. CASE FilterException(a)
  BY <1>0, <1>2, SameSide DEF FilterException
<1>3. CASE ReadCounter(a)
  BY <1>0, <1>3, SameSide DEF ReadCounter
<1>4. CASE BeginDump(a)
  BY <1>0, <1>4, SameSide DEF BeginDump
<1>5. CASE EndDump(a)
  BY <1>0, <1>5, SameSide DEF EndDump
<1>6. CASE Return(a)
  BY <1>0, <1>6, SameSide DEF Return
<1>7. CASE ExecuteFreedThunk(a) \/ TouchFreedObject(a)
  BY <1>0, <1>7, SameSide DEF ExecuteFreedThunk, TouchFreedObject
<1> QED
  BY <1>1, <1>2, <1>3, <1>4, <1>5, <1>6, <1>7 DEF Moves, Handler

LEMMA CounterStep ==
  ASSUME IInv, Next
  PROVE  CounterExact'
<1> USE DEF IInv
<1>1. CASE Owner
  <2>1. Inside' = Inside
    BY <1>1 DEF Inside, Owner, Construct, ConstructionFails, LoadDac,
       CreateThunk, InstallHandler, Release, Destructor, UninstallHandler,
       ShutCounter, YieldOnce, FreeThunk, UnloadDac, FreeObject
  <2>2. CASE ShutCounter
    <3>1. Inside = {}
      BY <2>2, CountingOrShut, InsideFinite DEF ShutCounter
    <3> QED
      BY <2>1, <2>2, <3>1 DEF ShutCounter, CounterExact
  <2>3. CASE UNCHANGED in_veh
    BY <2>1, <2>3 DEF CounterExact
  <2> QED
    BY <1>1, <2>2, <2>3 DEF Owner, Construct, ConstructionFails, LoadDac,
       CreateThunk, InstallHandler, Release, Destructor, UninstallHandler,
       YieldOnce, FreeThunk, UnloadDac, FreeObject
<1>2. ASSUME NEW a \in Invocations, Moves(a)
      PROVE  CounterExact'
  <2> USE DEF Positions, Counted
  <2>0. a \in Inside <=> pc[a] \in Counted
    BY DEF Inside
  <2>1. CASE CountIn(a)
    <3>1. CASE in_veh = cveh[a]
      <4>1. in_veh # -1
        BY <2>1, <3>1 DEF CountIn, SwapInv
      <4>2. Inside' = Inside \cup {a}
        BY <2>1, <3>1, InsideStep DEF CountIn
      <4>3. Cardinality(Inside') = Cardinality(Inside) + 1
        BY <2>0, <2>1, <4>2, InsideFinite, FS_AddElement DEF CountIn
      <4> QED
        BY <2>1, <3>1, <4>1, <4>3, CountingOrShut DEF CountIn, CounterExact
    <3>2. CASE in_veh # cveh[a]
      BY <2>0, <2>1, <3>2, SameSide DEF CountIn
    <3> QED
      BY <3>1, <3>2
  <2>2. CASE CountOut(a)
    <3>1. a \in Inside /\ in_veh = Cardinality(Inside)
      BY <2>0, <2>2, CountingOrShut DEF CountOut
    <3>2. Inside' = Inside \ {a}
      BY <2>2, InsideStep DEF CountOut
    <3>3. Cardinality(Inside') = Cardinality(Inside) - 1
      BY <3>1, <3>2, InsideFinite, FS_RemoveElement
    <3> QED
      BY <2>2, <3>1, <3>3 DEF CountOut, CounterExact
  <2>3. CASE ~CountIn(a) /\ ~CountOut(a)
    BY <1>2, <2>3, NotThroughTheDoor DEF CounterExact
  <2> QED
    BY <2>1, <2>2, <2>3
<1>3. CASE Terminated
  BY <1>3 DEF Terminated, vars, CounterExact, Inside
<1> QED
  BY <1>1, <1>2, <1>3 DEF Next, Moves

LEMMA OwnerStep ==
  ASSUME IInv, Next
  PROVE  OwnerInv'
<1> USE DEF IInv, OwnerInv, Down
<1>1. CASE Owner
  <2>1. CASE Construct \/ ConstructionFails \/ LoadDac \/ CreateThunk
    BY <2>1 DEF Construct, ConstructionFails, LoadDac, CreateThunk
  <2>2. CASE InstallHandler
    BY <2>2 DEF InstallHandler, ShapeInv
  <2>3. CASE Release \/ UninstallHandler \/ YieldOnce
    BY <2>3 DEF Release, UninstallHandler, YieldOnce
  <2>4. CASE ShutCounter
    BY <2>4 DEF ShutCounter
  <2>5. CASE FreeThunk \/ UnloadDac \/ FreeObject
    BY <2>5 DEF FreeThunk, UnloadDac, FreeObject
  <2> QED
    BY <1>1, <2>1, <2>2, <2>3, <2>4, <2>5 DEF Owner, Destructor
<1>2. ASSUME NEW a \in Invocations, Moves(a)
      PROVE  OwnerInv'
  <2>1. UNCHANGED ownerVars
    BY <1>2 DEF Moves, Handler, Raise, FilterException, ReadCounter, CountIn,
       BeginDump, EndDump, CountOut, Return, ExecuteFreedThunk,
       TouchFreedObject
  <2>2. in_veh' = -1 <=> in_veh = -1
    <3>1. CASE CountIn(a)
      BY <3>1, CountingOrShut DEF CountIn, SwapInv
    <3>2. CASE CountOut(a)
      <4>1. a \in Inside
        BY <3>2 DEF CountOut, Inside, Counted
      <4> QED
        BY <3>2, <4>1, CountingOrShut, InsideFinite DEF CountOut
    <3> QED
      BY <1>2, <3>1, <3>2 DEF Moves, Handler, Raise, FilterException,
         ReadCounter, BeginDump, EndDump, Return, ExecuteFreedThunk,
         TouchFreedObject
  <2> QED
    BY <2>1, <2>2
<1>3. CASE Terminated
  BY <1>3 DEF Terminated, vars
<1> QED
  BY <1>1, <1>2, <1>3 DEF Next, Moves

LEMMA ActiveStep ==
  ASSUME IInv, Next
  PROVE  ActiveInv'
<1> USE DEF IInv, ActiveInv
<1>1. CASE Owner
  BY <1>1 DEF Owner, Construct, ConstructionFails, LoadDac, CreateThunk,
     InstallHandler, Release, Destructor, UninstallHandler, ShutCounter,
     YieldOnce, FreeThunk, UnloadDac, FreeObject
<1>2. ASSUME NEW a \in Invocations, Moves(a)
      PROVE  ActiveInv'
  <2>1. UNCHANGED ownerVars
    BY <1>2 DEF Moves, Handler, Raise, FilterException, ReadCounter, CountIn,
       BeginDump, EndDump, CountOut, Return, ExecuteFreedThunk,
       TouchFreedObject
  <2>2. \A b \in Invocations : b # a => pc'[b] = pc[b]
    BY <1>2 DEF Moves, Handler, Raise, FilterException, ReadCounter, CountIn,
       BeginDump, EndDump, CountOut, Return, ExecuteFreedThunk,
       TouchFreedObject, GoTo, ShapeInv
  <2>3. veh \/ pc[a] # "idle"
    BY <1>2 DEF Moves, Handler, Raise, FilterException, ReadCounter, CountIn,
       BeginDump, EndDump, CountOut, Return, ExecuteFreedThunk,
       TouchFreedObject
  <2> QED
    BY <2>1, <2>2, <2>3 DEF OwnerInv
<1>3. CASE Terminated
  BY <1>3 DEF Terminated, vars
<1> QED
  BY <1>1, <1>2, <1>3 DEF Next, Moves

LEMMA SwapStep ==
  ASSUME IInv, Next
  PROVE  SwapInv'
<1> USE DEF IInv, SwapInv
<1>1. CASE UNCHANGED <<pc, cveh>>
  BY <1>1
<1>2. ASSUME NEW a \in Invocations, Moves(a)
      PROVE  SwapInv'
  <2>1. CASE ReadCounter(a)
    BY <2>1 DEF ReadCounter, GoTo, ShapeInv
  <2>2. CASE ~ReadCounter(a)
    <3>1. UNCHANGED cveh
      BY <1>2, <2>2 DEF Moves, Handler, Raise, FilterException, CountIn,
         BeginDump, EndDump, CountOut, Return, ExecuteFreedThunk,
         TouchFreedObject
    <3>2. \A b \in Invocations : pc'[b] = "swapping" => pc[b] = "swapping"
      BY <1>2, <2>2 DEF Moves, Handler, Raise, FilterException, CountIn,
         BeginDump, EndDump, CountOut, Return, ExecuteFreedThunk,
         TouchFreedObject, GoTo, ShapeInv
    <3> QED
      BY <3>1, <3>2
  <2> QED
    BY <2>1, <2>2
<1> QED
  BY <1>1, <1>2 DEF Next, Moves, Owner, Construct, ConstructionFails, LoadDac,
     CreateThunk, InstallHandler, Release, Destructor, UninstallHandler,
     ShutCounter, YieldOnce, FreeThunk, UnloadDac, FreeObject, Terminated, vars

(* A move that neither begins nor ends a dump leaves the flags as they are. *)
LEMMA SameDumps ==
  ASSUME IInv, UNCHANGED reentrant, NEW a \in Invocations, NEW p \in Positions,
         GoTo(a, p), pc[a] # "dumping", p # "dumping"
  PROVE  FlagInv' /\ UniqueInv'
<1>1. \A b \in Invocations : pc'[b] = "dumping" <=> pc[b] = "dumping"
  BY DEF GoTo, IInv, ShapeInv
<1> QED
  BY <1>1 DEF IInv, FlagInv, UniqueInv

LEMMA FlagStep ==
  ASSUME IInv, Next
  PROVE  FlagInv' /\ UniqueInv'
<1> USE DEF IInv
<1>1. CASE UNCHANGED <<pc, reentrant>>
  BY <1>1 DEF FlagInv, UniqueInv
<1>2. ASSUME NEW a \in Invocations, Moves(a)
      PROVE  FlagInv' /\ UniqueInv'
  <2> USE DEF Positions, Counted
  <2>0. a[1] \in Threads
    BY DEF Invocations
  <2>1. CASE BeginDump(a)
    <3>1. CASE reentrant[a[1]]
      BY <2>1, <3>1, SameDumps DEF BeginDump
    <3>2. CASE ~reentrant[a[1]]
      <4>1. /\ pc' = [pc EXCEPT ![a] = "dumping"]
            /\ reentrant' = [reentrant EXCEPT ![a[1]] = TRUE]
        BY <2>1, <3>2 DEF BeginDump, GoTo
      <4>2. \A b \in Invocations : b[1] = a[1] => pc[b] # "dumping"
        BY <2>0, <3>2 DEF FlagInv
      <4>3. \A b \in Invocations :
              pc'[b] = "dumping" <=> b = a \/ pc[b] = "dumping"
        BY <4>1 DEF ShapeInv
      <4>4. UniqueInv'
        BY <4>2, <4>3 DEF UniqueInv
      <4>5. \A t \in Threads : reentrant'[t] <=> t = a[1] \/ reentrant[t]
        BY <4>1 DEF ShapeInv
      <4> QED
        BY <4>3, <4>4, <4>5 DEF FlagInv
    <3> QED
      BY <3>1, <3>2
  <2>2. CASE EndDump(a)
    <3>1. /\ pc' = [pc EXCEPT ![a] = "leaving"]
          /\ reentrant' = [reentrant EXCEPT ![a[1]] = FALSE]
          /\ pc[a] = "dumping"
      BY <2>2 DEF EndDump, GoTo
    <3>2. \A b \in Invocations :
            pc'[b] = "dumping" <=> b # a /\ pc[b] = "dumping"
      BY <3>1 DEF ShapeInv
    <3>3. UniqueInv'
      BY <3>2 DEF UniqueInv
    <3>4. \A b \in Invocations : b[1] = a[1] => pc'[b] # "dumping"
      BY <3>1, <3>2 DEF UniqueInv
    <3>5. \A t \in Threads : reentrant'[t] <=> t # a[1] /\ reentrant[t]
      BY <3>1 DEF ShapeInv
    <3> QED
      BY <3>1, <3>2, <3>3, <3>4, <3>5 DEF FlagInv
  <2>3. CASE ~BeginDump(a) /\ ~EndDump(a)
    BY <1>2, <2>3, SameDumps DEF Moves, Handler, Raise, FilterException,
       ReadCounter, CountIn, CountOut, Return, ExecuteFreedThunk,
       TouchFreedObject
  <2> QED
    BY <2>1, <2>2, <2>3
<1> QED
  BY <1>1, <1>2 DEF Next, Moves, Owner, Construct, ConstructionFails, LoadDac,
     CreateThunk, InstallHandler, Release, Destructor, UninstallHandler,
     ShutCounter, YieldOnce, FreeThunk, UnloadDac, FreeObject, Terminated, vars

(* The invocation one level up is an invocation as well. *)
LEMMA OuterInvocation ==
  ASSUME NEW a \in Invocations, a[2] > 1
  PROVE  /\ <<a[1], a[2] - 1>> \in Invocations
         /\ a[2] \in Int
BY DepthAssumption DEF Invocations

LEMMA NestStep ==
  ASSUME IInv, Next
  PROVE  NestInv'
<1> USE DEF IInv
<1>1. CASE UNCHANGED pc
  BY <1>1 DEF NestInv
<1>2. ASSUME NEW a \in Invocations, Moves(a)
      PROVE  NestInv'
  <2> SUFFICES ASSUME NEW b \in Invocations, pc'[b] # "idle", b[2] > 1
               PROVE  pc'[<<b[1], b[2] - 1>>] = "dumping"
    BY DEF NestInv
  <2> DEFINE o == <<b[1], b[2] - 1>>
  <2>0. o \in Invocations /\ b[2] \in Int
    BY OuterInvocation
  <2>1. \A c \in Invocations : c # a => pc'[c] = pc[c]
    BY <1>2 DEF Moves, Handler, Raise, FilterException, ReadCounter, CountIn,
       BeginDump, EndDump, CountOut, Return, ExecuteFreedThunk,
       TouchFreedObject, GoTo, ShapeInv
  <2>2. pc[o] = "dumping"
    <3>1. CASE pc[b] # "idle"
      BY <3>1 DEF NestInv
    <3>2. CASE pc[b] = "idle"
      <4>1. b = a
        BY <2>1, <3>2
      <4> QED
        BY <1>2, <3>2, <4>1 DEF Moves, Handler, Raise, FilterException,
           ReadCounter, CountIn, BeginDump, EndDump, CountOut, Return,
           ExecuteFreedThunk, TouchFreedObject
    <3> QED
      BY <3>1, <3>2
  <2>3. CASE o # a
    BY <2>0, <2>1, <2>2, <2>3
  <2>4. CASE o = a
    <3>1. EndDump(a)
      BY <1>2, <2>2, <2>4 DEF Moves, Handler, Raise, FilterException,
         ReadCounter, CountIn, BeginDump, CountOut, Return, ExecuteFreedThunk,
         TouchFreedObject
    <3>2. b[1] = a[1] /\ b[2] > a[2]
      BY <2>0, <2>4
    <3>3. pc[b] = "idle" /\ b # a
      BY <3>1, <3>2, <2>0 DEF EndDump, Innermost
    <3> QED
      BY <2>1, <3>3
  <2> QED
    BY <2>3, <2>4
<1> QED
  BY <1>1, <1>2 DEF Next, Moves, Owner, Construct, ConstructionFails, LoadDac,
     CreateThunk, InstallHandler, Release, Destructor, UninstallHandler,
     ShutCounter, YieldOnce, FreeThunk, UnloadDac, FreeObject, Terminated, vars

-----------------------------------------------------------------------------
(* The invariant holds in every behaviour. *)

LEMMA Initial ==
  ASSUME Init
  PROVE  IInv
<1> USE DEF Init
<1>1. Inside = {}
  BY DEF Inside, Counted
<1>2. ShapeInv
  <2>1. 0 \in -1 .. Cardinality(Invocations)
    BY InvocationsFinite
  <2>2. cveh \in [Invocations -> -1 .. Cardinality(Invocations)]
    BY <2>1
  <2>3. pc \in [Invocations -> Positions]
    BY DEF Positions
  <2>4. reentrant \in [Threads -> BOOLEAN] /\ code \in [Invocations -> Codes]
    BY CodesAssumption
  <2>5. owner \in Stages /\ in_veh \in Int
    BY DEF Stages
  <2>6. veh \in BOOLEAN
    OBVIOUS
  <2>7. thunk = "none" /\ dmod = "none"
    OBVIOUS
  <2> HIDE DEF Init
  <2> QED
    BY <2>2, <2>3, <2>4, <2>5, <2>6, <2>7 DEF ShapeInv
<1>3. CounterExact
  BY <1>1, InsideFinite DEF CounterExact
<1>4. OwnerInv /\ ActiveInv /\ SwapInv
  BY DEF OwnerInv, ActiveInv, SwapInv, Down
<1>5. FlagInv /\ UniqueInv /\ NestInv
  BY DEF FlagInv, UniqueInv, NestInv
<1> QED
  BY <1>2, <1>3, <1>4, <1>5 DEF IInv

LEMMA Stuttering ==
  ASSUME IInv, UNCHANGED vars
  PROVE  IInv'
BY DEF IInv, vars, ShapeInv, CounterExact, Inside, OwnerInv, ActiveInv,
   SwapInv, FlagInv, UniqueInv, NestInv

LEMMA Inductive ==
  ASSUME IInv, [Next]_vars
  PROVE  IInv'
<1>1. CASE Next
  BY <1>1, ShapeStep, CounterStep, OwnerStep, ActiveStep, SwapStep, FlagStep,
     NestStep DEF IInv
<1> QED
  BY <1>1, Stuttering

(* The inductive invariant holds in every reachable state. *)
THEOREM Invariance == Spec => []IInv
<1>1. Init => IInv
  BY Initial
<1>2. IInv /\ [Next]_vars => IInv'
  BY Inductive
<1> QED
  BY <1>1, <1>2, PTL DEF Spec

-----------------------------------------------------------------------------
(* What the invariant says of the code. *)

(* Every variable keeps its type, and in_veh the range from -1 to the number
   of invocations: the loop and the interlocked decrement never drive it out. *)
THEOREM TypeCorrect == Spec => []TypeOK
<1>1. IInv => TypeOK
  BY CountingOrShut DEF IInv, ShapeInv, TypeOK
<1> QED
  BY <1>1, Invariance, PTL

(* in_veh counts the handler invocations exactly until it is shut, and is
   shut only with none inside. *)
THEOREM CounterIsExact == Spec => []CounterExact
<1>1. IInv => CounterExact
  BY DEF IInv
<1> QED
  BY <1>1, Invariance, PTL

(* No thunk, DAC module or object is released under an invocation that has
   counted itself in. *)
THEOREM CountedInvocationsAreSafe == Spec => []CountedAreSafe
<1>1. ASSUME IInv, Inside # {}
      PROVE  /\ owner \in {"live", "destroying", "draining"}
             /\ thunk = "held" /\ dmod = "held"
  <2> USE DEF IInv
  <2>1. PICK a \in Invocations : pc[a] \in Counted
    BY <1>1 DEF Inside
  <2>2. /\ owner \notin {"none", "constructed", "loaded", "thunked"}
        /\ thunk # "none" /\ dmod # "none"
    BY <1>1, <2>1 DEF ActiveInv, Counted
  <2>3. owner \notin Down
    BY <1>1, CountingOrShut DEF OwnerInv
  <2>4. owner \in {"live", "destroying", "draining"}
    BY <1>1, <2>2, <2>3 DEF ShapeInv, Stages, Down
  <2> QED
    BY <1>1, <2>2, <2>4 DEF OwnerInv, ShapeInv
<1>2. IInv => CountedAreSafe
  BY <1>1 DEF CountedAreSafe
<1> QED
  BY <1>2, Invariance, PTL

(* The reentrancy flag keeps dumps from nesting, and thereby the handler from
   being called more than two deep on a thread. *)
THEOREM DumpsDoNotRecurse == Spec => []NoRecursiveDump
<1>1. ASSUME IInv, NEW a \in Invocations, pc[a] # "idle"
      PROVE  a[2] <= 2
  <2> USE DEF IInv
  <2> SUFFICES ASSUME a[2] > 2 PROVE FALSE
    BY DepthAssumption DEF Invocations
  <2> DEFINE o == <<a[1], a[2] - 1>>
             oo == <<a[1], a[2] - 2>>
  <2>1. /\ o \in Invocations /\ oo \in Invocations
        /\ a[2] \in Int
    BY DepthAssumption DEF Invocations
  <2>2. pc[o] = "dumping"
    BY <1>1, <2>1 DEF NestInv
  <2>3. pc[oo] = "dumping"
    BY <1>1, <2>1, <2>2 DEF NestInv
  <2> QED
    BY <1>1, <2>1, <2>2, <2>3 DEF UniqueInv
<1>2. IInv => NoRecursiveDump
  BY <1>1 DEF NoRecursiveDump, IInv, UniqueInv
<1> QED
  BY <1>2, Invariance, PTL

(* The reentrancy flag of a thread is set only while the thread dumps. *)
THEOREM FlagIsReset == Spec => []FlagNotLeaked
<1>1. IInv => FlagNotLeaked
  BY DEF IInv, FlagInv, FlagNotLeaked
<1> QED
  BY <1>1, Invariance, PTL

(* However far construction came, a destroyed logger holds nothing. *)
THEOREM AllIsReleased == Spec => []NothingLeaked
<1>1. IInv => NothingLeaked
  BY DEF IInv, OwnerInv, NothingLeaked
<1> QED
  BY <1>1, Invariance, PTL

-----------------------------------------------------------------------------
(* The counter as a door. *)

(* Who passes the door, and what happens to the counter meanwhile. *)
LEMMA DoorStep ==
  ASSUME IInv, Next
  PROVE  \/ Inside' = Inside /\ UNCHANGED in_veh
         \/ Inside = {} /\ Inside' = {} /\ in_veh' = -1
         \/ /\ in_veh # -1 /\ in_veh' # -1
            /\ \E a \in Invocations \ Inside : Inside' = Inside \cup {a}
         \/ /\ in_veh # -1 /\ in_veh' # -1
            /\ \E a \in Inside : Inside' = Inside \ {a}
<1> USE DEF IInv, Positions, Counted
<1>1. CASE UNCHANGED <<pc, in_veh>>
  BY <1>1 DEF Inside
<1>2. CASE ShutCounter
  <2>1. Inside = {}
    BY <1>2, CountingOrShut, InsideFinite DEF ShutCounter
  <2> QED
    BY <1>2, <2>1 DEF ShutCounter, Inside
<1>3. ASSUME NEW a \in Invocations, CountIn(a), in_veh = cveh[a]
      PROVE  /\ in_veh # -1 /\ in_veh' # -1
             /\ a \notin Inside /\ Inside' = Inside \cup {a}
  BY <1>3, InsideStep, CountingOrShut DEF CountIn, SwapInv, Inside
<1>4. ASSUME NEW a \in Invocations, CountIn(a), in_veh # cveh[a]
      PROVE  Inside' = Inside /\ UNCHANGED in_veh
  BY <1>4, SameSide DEF CountIn, Inside
<1>5. ASSUME NEW a \in Invocations, CountOut(a)
      PROVE  /\ in_veh # -1 /\ in_veh' # -1
             /\ a \in Inside /\ Inside' = Inside \ {a}
  <2>1. a \in Inside
    BY <1>5 DEF CountOut, Inside
  <2>2. in_veh \in 1 .. Cardinality(Invocations)
    BY <2>1, CountingOrShut, InsideFinite, InvocationsFinite
  <2> QED
    BY <1>5, <2>1, <2>2, InsideStep DEF CountOut
<1>6. CASE \E a \in Invocations : Moves(a)
  BY <1>3, <1>4, <1>5, <1>6, NotThroughTheDoor
<1>7. CASE Owner
  BY <1>1, <1>2, <1>7 DEF Owner, Construct, ConstructionFails, LoadDac,
     CreateThunk, InstallHandler, Release, Destructor, UninstallHandler,
     YieldOnce, FreeThunk, UnloadDac, FreeObject
<1>8. CASE Terminated
  BY <1>1, <1>8 DEF Terminated, vars
<1> QED
  BY <1>6, <1>7, <1>8 DEF Next, Moves

(* Once the destructor has exchanged 0 for -1, no invocation counts itself in
   and none counts itself out. *)
THEOREM ShutForGood == Spec => StaysShut
<1>1. IInv /\ [Next]_vars => (in_veh = -1 => in_veh' = -1)
  BY DoorStep DEF vars
<1>2. IInv /\ [Next]_vars => [in_veh = -1 => in_veh' = -1]_vars
  BY <1>1
<1> QED
  BY <1>2, Invariance, PTL DEF Spec, StaysShut

(* The loop, the decrement and the destructor's exchange implement a door
   that is shut only behind the last invocation and never opens again. *)
THEOREM ImplementsGate == Spec => GateSpec
<1>1. Init => Gate!Init
  <2>1. Init => Inside = {} /\ in_veh = 0
    BY DEF Init, Inside, Counted
  <2> QED
    BY <2>1 DEF Gate!Init
<1>2. ASSUME IInv, [Next]_vars
      PROVE  [Gate!Next]_(Gate!vars)
  <2>1. CASE UNCHANGED vars
    BY <2>1 DEF vars, Gate!vars, Inside
  <2>2. CASE Inside' = Inside /\ UNCHANGED in_veh
    BY <2>2 DEF Gate!vars
  <2>3. CASE Inside = {} /\ Inside' = {} /\ in_veh' = -1
    BY <2>3 DEF Gate!Next, Gate!Shut
  <2>4. CASE /\ in_veh # -1 /\ in_veh' # -1
             /\ \E a \in Invocations \ Inside : Inside' = Inside \cup {a}
    BY <2>4 DEF Gate!Next, Gate!Enter
  <2>5. CASE /\ in_veh # -1 /\ in_veh' # -1
             /\ \E a \in Inside : Inside' = Inside \ {a}
    <3>1. Inside \subseteq Invocations
      BY DEF Inside
    <3> QED
      BY <2>5, <3>1 DEF Gate!Next, Gate!Leave
  <2> QED
    BY <1>2, <2>1, <2>2, <2>3, <2>4, <2>5, DoorStep
<1> QED
  BY <1>1, <1>2, Invariance, PTL DEF Spec, GateSpec, Gate!Spec
=============================================================================
