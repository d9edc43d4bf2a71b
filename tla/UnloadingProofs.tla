--------------------------- MODULE UnloadingProofs ---------------------------
(***************************************************************************)
(* Proofs about Unloading, for any finite sets of calls and raising        *)
(* threads: the composition keeps what module Activation promises, the     *)
(* lock count is exact, and the module is mapped under whatever the count  *)
(* stands for.                                                             *)
(***************************************************************************)
EXTENDS Unloading, ActivationProofs, FiniteSetTheorems

-----------------------------------------------------------------------------
(* What the module does is invisible to Activation, and what it adds to the
   steps of a call only restricts them. *)
LEMMA InstallerSteps ==
  [Next]_vars => [ActivationNext]_activationVars
<1> SUFFICES ASSUME [Next]_vars PROVE [ActivationNext]_activationVars
  OBVIOUS
<1>1. CASE UNCHANGED vars
  BY <1>1 DEF vars
<1>2. ASSUME NEW c \in Calls,
             InstallerStep(c) \/ Interruption(c) \/ Finalization(c)
      PROVE  ActivationNext
  BY <1>2 DEF InstallerStep, Interruption, Finalization, ActivationNext
<1>3. ASSUME NEW c \in Calls,
             \/ FreeModule(c) \/ CopyModule(c)
             \/ ReturnLogger(c) \/ FailToCreate(c)
      PROVE  ActivationNext
  BY <1>3 DEF FreeModule, CopyModule, ReturnLogger, FailToCreate,
     ActivationNext
<1>4. ASSUME NEW c \in Calls,
             LoadModule(c) \/ CreateLogger(c) \/ LoggerStep(c)
      PROVE  UNCHANGED activationVars
  BY <1>4 DEF LoadModule, CreateLogger, LoggerStep, ReleaseLogger,
     RemoveHandler, DestroyLogger, FinishDestruction
<1>5. ASSUME NEW r \in Raisers, HandlerStep(r) \/ EndThread(r)
      PROVE  UNCHANGED activationVars
  BY <1>5 DEF HandlerStep, EnterHandler, SkipDump, ClearData, BeginDump,
     KeepDump, TrimDump, EndDump, CountOut, LeaveHandler, EndThread
<1>6. ASSUME NEW p \in Cells, DumpStep(p)
      PROVE  UNCHANGED activationVars
  BY <1>6 DEF DumpStep, ShowDump, ClearDump, ReleaseDump, DestroyDump
<1> QED
  BY <1>1, <1>2, <1>3, <1>4, <1>5, <1>6 DEF Next, CallStep

(* The system with the native module in it implements the installer alone. *)
THEOREM ImplementsActivation == Spec => ActivationSpec
<1>1. Init => ActivationInit
  BY DEF Init
<1>2. [Next]_vars => [ActivationNext]_activationVars
  BY InstallerSteps
<1> QED
  BY <1>1, <1>2, PTL DEF Spec, ActivationSpec

(* So each context is released once, in the whole system. *)
THEOREM ReleasedOnceWithModule == Spec => []ReleasedOnce
BY ImplementsActivation, ContextReleasedOnce, PTL

(* And a logger is created in its own context, in the whole system. *)
THEOREM OwnContextWithModule == Spec => []OwnContextOnTop
BY ImplementsActivation, OwnContextIsOnTop, PTL

-----------------------------------------------------------------------------
(* The inductive invariant: all types but that of the count; *)
Types ==
  /\ loaded \in BOOLEAN
  /\ logger \in [Calls -> LoggerStates]
  /\ stored \in [Cells -> {"empty", "own", "shared"}]
  /\ shown \in [Cells -> {"none", "held", "freeing"}]
  /\ at \in [Raisers -> Positions]
  /\ of \in [Raisers -> Calls]
  /\ torn \in BOOLEAN

(* what the application shares with the storage it holds; the destructor of a
   logger gets no further than its wait while a handler is counted; a new dump
   finds its cell empty; *)
Waitable == Referenced \cup {"unlocked", "waiting"}
Shared == \A p \in Cells : stored[p] = "shared" => shown[p] = "held"
Handling ==
  \A r \in Raisers :
    /\ at[r] \in Counted => logger[of[r]] \in Waitable
    /\ at[r] \in {"cleared", "dumping"} => stored[<<r, of[r]>>] = "empty"

(* objects that are counted keep the module, and so, until something is torn,
   does code that runs in it. *)
Kept ==
  /\ \A c \in Factories \cup Loggers : loaded
  /\ \A p \in OwnDumps \cup HeldDumps : loaded
  /\ \A r \in Targets : loaded
Mapped == ~torn /\ InUse => loaded

ModuleInv == Types /\ Shared /\ Handling /\ LocksExact /\ Kept /\ Mapped
               /\ HeldLoggersIntact

LEMMA TypesKept ==
  Types /\ [Next]_vars => Types'
<1> SUFFICES ASSUME Types, [Next]_vars PROVE Types'
  OBVIOUS
<1>1. CASE UNCHANGED vars
  BY <1>1 DEF Types, vars, moduleVars
<1>2. ASSUME NEW c \in Calls,
             \/ InstallerStep(c) \/ Interruption(c) \/ Finalization(c)
             \/ CopyModule(c)
      PROVE  Types'
  BY <1>2 DEF Types, InstallerStep, Interruption, Finalization, CopyModule,
     moduleVars
<1>3. ASSUME NEW c \in Calls, FreeModule(c)
      PROVE  Types'
  BY <1>3 DEF Types, FreeModule, UnloadIfUnused, InUse
<1>4. ASSUME NEW c \in Calls,
             \/ LoadModule(c) \/ CreateLogger(c) \/ ReturnLogger(c)
             \/ FailToCreate(c) \/ ReleaseLogger(c) \/ RemoveHandler(c)
             \/ FinishDestruction(c)
      PROVE  Types'
  BY <1>4 DEF Types, LoadModule, CreateLogger, ReturnLogger, FailToCreate,
     ReleaseLogger, RemoveHandler, FinishDestruction, SetLogger, LoggerStates
<1>5. ASSUME NEW c \in Calls, DestroyLogger(c)
      PROVE  Types'
  BY <1>5 DEF Types, DestroyLogger, Clear, Empty, SetLogger, LoggerStates
<1>6. ASSUME NEW r \in Raisers, HandlerStep(r)
      PROVE  Types'
  <2> USE DEF Types, MoveTo, Positions
  <2>1. ASSUME NEW c \in Calls, EnterHandler(r, c)
        PROVE  Types'
    BY <2>1 DEF EnterHandler
  <2>2. CASE SkipDump(r) \/ BeginDump(r) \/ EndDump(r)
    BY <2>2 DEF SkipDump, BeginDump, EndDump
  <2>3. CASE CountOut(r) \/ LeaveHandler(r)
    BY <2>3 DEF CountOut, LeaveHandler
  <2>4. CASE ClearData(r)
    BY <2>4 DEF ClearData, Clear, Empty
  <2>5. CASE KeepDump(r)
    BY <2>5 DEF KeepDump
  <2>6. CASE TrimDump(r)
    BY <2>6 DEF TrimDump, Clear, Empty
  <2> QED
    BY <1>6, <2>1, <2>2, <2>3, <2>4, <2>5, <2>6 DEF HandlerStep
<1>7. ASSUME NEW r \in Raisers, EndThread(r)
      PROVE  Types'
  BY <1>7 DEF Types, EndThread, Clear, Empty
<1>8. ASSUME NEW p \in Cells, DumpStep(p)
      PROVE  Types'
  <2>1. CASE ShowDump(p) \/ DestroyDump(p)
    BY <2>1 DEF Types, ShowDump, DestroyDump
  <2>2. CASE ClearDump(p)
    BY <2>2 DEF Types, ClearDump, Clear, Empty
  <2>3. CASE ReleaseDump(p)
    BY <2>3 DEF Types, ReleaseDump
  <2> QED
    BY <1>8, <2>1, <2>2, <2>3 DEF DumpStep
<1> QED
  BY <1>1, <1>2, <1>3, <1>4, <1>5, <1>6, <1>7, <1>8 DEF Next, CallStep,
     LoggerStep

-----------------------------------------------------------------------------
(* The lock count. *)
LEMMA CountsAreNumbers ==
  /\ IsFiniteSet(Factories) /\ Cardinality(Factories) \in Nat
  /\ IsFiniteSet(Loggers) /\ Cardinality(Loggers) \in Nat
  /\ IsFiniteSet(OwnDumps) /\ Cardinality(OwnDumps) \in Nat
  /\ IsFiniteSet(HeldDumps) /\ Cardinality(HeldDumps) \in Nat
  /\ IsFiniteSet(Targets) /\ Cardinality(Targets) \in Nat
<1>1. IsFiniteSet(Calls) /\ IsFiniteSet(Raisers)
  BY CallsAssumption, RaisersAssumption
<1>2. IsFiniteSet(Cells)
  BY <1>1, FS_Product DEF Cells
<1>3. /\ Factories \in SUBSET Calls /\ Loggers \in SUBSET Calls
      /\ OwnDumps \in SUBSET Cells /\ HeldDumps \in SUBSET Cells
      /\ Targets \in SUBSET Raisers
  BY DEF Factories, Loggers, OwnDumps, HeldDumps, Targets
<1>4. /\ IsFiniteSet(Factories) /\ IsFiniteSet(Loggers)
      /\ IsFiniteSet(OwnDumps) /\ IsFiniteSet(HeldDumps)
      /\ IsFiniteSet(Targets)
  BY <1>1, <1>2, <1>3, FS_Subset
<1> QED
  BY <1>4, FS_CardinalityType

LEMMA SetsUnchanged ==
  /\ logger' = logger => Factories' = Factories /\ Loggers' = Loggers
  /\ stored' = stored => OwnDumps' = OwnDumps
  /\ shown' = shown => HeldDumps' = HeldDumps
  /\ at' = at => Targets' = Targets
BY DEF Factories, Loggers, OwnDumps, HeldDumps, Targets

(* Emptying some cells counts out the dumps that only they hold. *)
LEMMA ClearedCells ==
  ASSUME Types, NEW cells \in SUBSET Cells, Empty(cells)
  PROVE  /\ Count(cells) \in Nat
         /\ Cardinality(OwnDumps') = Cardinality(OwnDumps) - Count(cells)
<1> DEFINE T == {p \in cells : stored[p] = "own"}
<1>1. OwnDumps' = OwnDumps \ T
  BY DEF OwnDumps, Empty
<1>2. OwnDumps \cap T = T
  BY DEF OwnDumps
<1>3. IsFiniteSet(T)
  BY <1>2, CountsAreNumbers, FS_Subset
<1>4. Cardinality(OwnDumps \ T) = Cardinality(OwnDumps) - Cardinality(T)
  BY <1>2, CountsAreNumbers, FS_Difference
<1>5. Cardinality(T) \in Nat
  BY <1>3, FS_CardinalityType
<1> QED
  BY <1>1, <1>4, <1>5 DEF Count

LEMMA CountKept ==
  Types /\ Shared /\ Handling /\ LocksExact /\ [Next]_vars => LocksExact'
<1> SUFFICES ASSUME Types, Shared, Handling, LocksExact, [Next]_vars
             PROVE  LocksExact'
  OBVIOUS
<1> USE CountsAreNumbers DEF LocksExact
<1>1. CASE UNCHANGED <<locks, logger, stored, shown, at>>
  BY <1>1, SetsUnchanged
<1>2. ASSUME NEW c \in Calls,
             \/ InstallerStep(c) \/ Interruption(c) \/ Finalization(c)
             \/ CopyModule(c) \/ FreeModule(c)
      PROVE  LocksExact'
  BY <1>1, <1>2 DEF InstallerStep, Interruption, Finalization, CopyModule,
     FreeModule, moduleVars
<1>3. ASSUME NEW c \in Calls, LoadModule(c)
      PROVE  LocksExact'
  <2>1. Factories' = Factories \cup {c} /\ c \notin Factories
    BY <1>3 DEF LoadModule, SetLogger, Factories, Types
  <2>2. Loggers' = Loggers
    BY <1>3 DEF LoadModule, SetLogger, Loggers, Types, Referenced
  <2>3. OwnDumps' = OwnDumps /\ HeldDumps' = HeldDumps /\ Targets' = Targets
    BY <1>3, SetsUnchanged DEF LoadModule
  <2>4. Cardinality(Factories') = Cardinality(Factories) + 1
    BY <2>1, FS_AddElement
  <2> QED
    BY <1>3, <2>2, <2>3, <2>4 DEF LoadModule
<1>4. ASSUME NEW c \in Calls, CreateLogger(c)
      PROVE  LocksExact'
  <2>1. Factories' = Factories
    BY <1>4 DEF CreateLogger, SetLogger, Factories, Types
  <2>2. Loggers' = Loggers \cup {c} /\ c \notin Loggers
    BY <1>4 DEF CreateLogger, SetLogger, Loggers, Types, Referenced
  <2>3. OwnDumps' = OwnDumps /\ HeldDumps' = HeldDumps /\ Targets' = Targets
    BY <1>4, SetsUnchanged DEF CreateLogger
  <2>4. Cardinality(Loggers') = Cardinality(Loggers) + 1
    BY <2>2, FS_AddElement
  <2> QED
    BY <1>4, <2>1, <2>3, <2>4 DEF CreateLogger
<1>5. ASSUME NEW c \in Calls, NEW s \in {"held", "gone", "dropped"},
             logger[c] \in {"creating", "made"},
             logger[c] = "made" <=> s \in Referenced,
             SetLogger(c, s), locks' = locks - 1,
             UNCHANGED <<stored, shown, at>>
      PROVE  LocksExact'
  <2>1. Factories' = Factories \ {c} /\ c \in Factories
    BY <1>5 DEF SetLogger, Factories, Types
  <2>2. Loggers' = Loggers
    BY <1>5 DEF SetLogger, Loggers, Types, Referenced
  <2>3. OwnDumps' = OwnDumps /\ HeldDumps' = HeldDumps /\ Targets' = Targets
    BY <1>5, SetsUnchanged
  <2>4. Cardinality(Factories') = Cardinality(Factories) - 1
    BY <2>1, FS_RemoveElement
  <2> QED
    BY <1>5, <2>2, <2>3, <2>4
<1>6. ASSUME NEW c \in Calls, ReturnLogger(c)
      PROVE  LocksExact'
  BY <1>5, <1>6 DEF ReturnLogger, Referenced
<1>7. ASSUME NEW c \in Calls, FailToCreate(c)
      PROVE  LocksExact'
  BY <1>1, <1>5, <1>7 DEF FailToCreate, Referenced
<1>8. ASSUME NEW c \in Calls, ReleaseLogger(c)
      PROVE  LocksExact'
  <2>1. Loggers' = Loggers \ {c} /\ c \in Loggers
    BY <1>8 DEF ReleaseLogger, SetLogger, Loggers, Types, Referenced
  <2>2. Factories' = Factories
    BY <1>8 DEF ReleaseLogger, SetLogger, Factories, Types
  <2>3. OwnDumps' = OwnDumps /\ HeldDumps' = HeldDumps /\ Targets' = Targets
    BY <1>8, SetsUnchanged DEF ReleaseLogger
  <2>4. Cardinality(Loggers') = Cardinality(Loggers) - 1
    BY <2>1, FS_RemoveElement
  <2> QED
    BY <1>8, <2>2, <2>3, <2>4 DEF ReleaseLogger
<1>9. ASSUME NEW c \in Calls, NEW s \in {"waiting", "emptied", "gone"},
             logger[c] \in Ending, SetLogger(c, s)
      PROVE  Factories' = Factories /\ Loggers' = Loggers
  BY <1>9 DEF SetLogger, Factories, Loggers, Types, Referenced, Ending
<1>10. ASSUME NEW c \in Calls, RemoveHandler(c) \/ FinishDestruction(c)
      PROVE  LocksExact'
  <2>1. Factories' = Factories /\ Loggers' = Loggers
    BY <1>9, <1>10 DEF RemoveHandler, FinishDestruction, Ending
  <2> QED
    BY <1>10, <2>1, SetsUnchanged DEF RemoveHandler, FinishDestruction
<1>11. ASSUME NEW c \in Calls, DestroyLogger(c)
      PROVE  LocksExact'
  <2> DEFINE S == {p \in Cells : p[2] = c}
  <2>1. Factories' = Factories /\ Loggers' = Loggers
    BY <1>9, <1>11 DEF DestroyLogger, Ending
  <2>2. HeldDumps' = HeldDumps /\ Targets' = Targets
    BY <1>11, SetsUnchanged DEF DestroyLogger
  <2>3. Empty(S) /\ locks' = locks - Count(S) /\ S \in SUBSET Cells
    BY <1>11 DEF DestroyLogger, Clear
  <2> HIDE DEF S
  <2>4. /\ Count(S) \in Nat
        /\ Cardinality(OwnDumps') = Cardinality(OwnDumps) - Count(S)
    BY <2>3, ClearedCells
  <2> QED
    BY <2>1, <2>2, <2>3, <2>4
<1>12. ASSUME NEW r \in Raisers, EndThread(r)
      PROVE  LocksExact'
  <2> DEFINE S == {p \in Cells : p[1] = r}
  <2>1. /\ Factories' = Factories /\ Loggers' = Loggers
        /\ HeldDumps' = HeldDumps /\ Targets' = Targets
    BY <1>12, SetsUnchanged DEF EndThread
  <2>2. Empty(S) /\ locks' = locks - Count(S) /\ S \in SUBSET Cells
    BY <1>12 DEF EndThread, Clear
  <2> HIDE DEF S
  <2>3. /\ Count(S) \in Nat
        /\ Cardinality(OwnDumps') = Cardinality(OwnDumps) - Count(S)
    BY <2>2, ClearedCells
  <2> QED
    BY <2>1, <2>2, <2>3
<1>13. ASSUME NEW p \in Cells, ClearDump(p)
      PROVE  LocksExact'
  <2>1. /\ Factories' = Factories /\ Loggers' = Loggers
        /\ HeldDumps' = HeldDumps /\ Targets' = Targets
    BY <1>13, SetsUnchanged DEF ClearDump
  <2>2. Empty({p}) /\ locks' = locks - Count({p}) /\ {p} \in SUBSET Cells
    BY <1>13 DEF ClearDump, Clear
  <2>3. /\ Count({p}) \in Nat
        /\ Cardinality(OwnDumps') = Cardinality(OwnDumps) - Count({p})
    BY <2>2, ClearedCells
  <2> QED
    BY <2>1, <2>2, <2>3
<1>14. ASSUME NEW r \in Raisers, NEW s \in Positions,
              at[r] \in Dumping <=> s \in Dumping, MoveTo(r, s)
      PROVE   Targets' = Targets
  BY <1>14 DEF Targets, Types, MoveTo
<1>15. ASSUME NEW r \in Raisers, HandlerStep(r)
      PROVE  LocksExact'
  <2> USE DEF Positions, Dumping
  <2> DEFINE p == <<r, of[r]>>
  <2>0. p \in Cells /\ {p} \in SUBSET Cells
    BY DEF Types, Cells
  <2>1. CASE \E c \in Calls : EnterHandler(r, c)
    BY <1>14, <2>1, SetsUnchanged DEF EnterHandler, MoveTo
  <2>2. CASE SkipDump(r) \/ CountOut(r) \/ LeaveHandler(r)
    BY <1>14, <2>2, SetsUnchanged DEF SkipDump, CountOut, LeaveHandler
  <2>3. ASSUME Clear({p}), UNCHANGED <<logger, shown>>, Targets' = Targets
        PROVE  LocksExact'
    <3>1. Factories' = Factories /\ Loggers' = Loggers /\ HeldDumps' = HeldDumps
      BY <2>3, SetsUnchanged
    <3>2. Empty({p}) /\ locks' = locks - Count({p})
      BY <2>3 DEF Clear
    <3>3. /\ Count({p}) \in Nat
          /\ Cardinality(OwnDumps') = Cardinality(OwnDumps) - Count({p})
      BY <2>0, <3>2, ClearedCells
    <3> QED
      BY <2>3, <3>1, <3>2, <3>3
  <2>4. CASE ClearData(r)
    BY <1>14, <2>3, <2>4 DEF ClearData
  <2>5. CASE TrimDump(r)
    BY <2>3, <2>5, SetsUnchanged DEF TrimDump
  <2>6. CASE BeginDump(r)
    <3>1. /\ Factories' = Factories /\ Loggers' = Loggers
          /\ HeldDumps' = HeldDumps /\ OwnDumps' = OwnDumps
      BY <2>6, SetsUnchanged DEF BeginDump
    <3>2. Targets' = Targets \cup {r} /\ r \notin Targets
      BY <2>6 DEF BeginDump, MoveTo, Targets, Types
    <3>3. Cardinality(Targets') = Cardinality(Targets) + 1
      BY <3>2, FS_AddElement
    <3> QED
      BY <2>6, <3>1, <3>3 DEF BeginDump
  <2>7. CASE KeepDump(r)
    <3>1. /\ Factories' = Factories /\ Loggers' = Loggers
          /\ HeldDumps' = HeldDumps
      BY <2>7, SetsUnchanged DEF KeepDump
    <3>2. Targets' = Targets
      BY <1>14, <2>7 DEF KeepDump
    <3>3. stored[p] = "empty" /\ stored' = [stored EXCEPT ![p] = "own"]
      BY <2>7 DEF KeepDump, Handling
    <3>4. OwnDumps' = OwnDumps \cup {p} /\ p \notin OwnDumps
      <4> HIDE DEF p
      <4> QED
        BY <2>0, <3>3 DEF OwnDumps, Types
    <3>5. Cardinality(OwnDumps') = Cardinality(OwnDumps) + 1
      BY <3>4, FS_AddElement
    <3> QED
      BY <2>7, <3>1, <3>2, <3>5 DEF KeepDump
  <2>8. CASE EndDump(r)
    <3>1. /\ Factories' = Factories /\ Loggers' = Loggers
          /\ HeldDumps' = HeldDumps /\ OwnDumps' = OwnDumps
      BY <2>8, SetsUnchanged DEF EndDump
    <3>2. Targets' = Targets \ {r} /\ r \in Targets
      BY <2>8 DEF EndDump, MoveTo, Targets, Types
    <3>3. Cardinality(Targets') = Cardinality(Targets) - 1
      BY <3>2, FS_RemoveElement
    <3> QED
      BY <2>8, <3>1, <3>3 DEF EndDump
  <2> QED
    BY <1>15, <2>1, <2>2, <2>4, <2>5, <2>6, <2>7, <2>8 DEF HandlerStep
<1>16. ASSUME NEW p \in Cells, ShowDump(p)
      PROVE  LocksExact'
  <2>1. /\ Factories' = Factories /\ Loggers' = Loggers
        /\ Targets' = Targets
    BY <1>16, SetsUnchanged DEF ShowDump
  <2>2. /\ OwnDumps' = OwnDumps \ {p} /\ p \in OwnDumps
        /\ HeldDumps' = HeldDumps \cup {p} /\ p \notin HeldDumps
    BY <1>16 DEF ShowDump, OwnDumps, HeldDumps, Types
  <2>3. /\ Cardinality(OwnDumps') = Cardinality(OwnDumps) - 1
        /\ Cardinality(HeldDumps') = Cardinality(HeldDumps) + 1
    BY <2>2, FS_AddElement, FS_RemoveElement
  <2> QED
    BY <1>16, <2>1, <2>3 DEF ShowDump
<1>17. ASSUME NEW p \in Cells, ReleaseDump(p)
      PROVE  LocksExact'
  <2>1. /\ Factories' = Factories /\ Loggers' = Loggers
        /\ Targets' = Targets
    BY <1>17, SetsUnchanged DEF ReleaseDump
  <2>2. HeldDumps' = HeldDumps \ {p} /\ p \in HeldDumps
    BY <1>17 DEF ReleaseDump, HeldDumps, Types
  <2>3. Cardinality(HeldDumps') = Cardinality(HeldDumps) - 1
    BY <2>2, FS_RemoveElement
  <2>4. CASE stored[p] = "shared"
    <3>1. OwnDumps' = OwnDumps \cup {p} /\ p \notin OwnDumps
      BY <1>17, <2>4 DEF ReleaseDump, OwnDumps, Types
    <3>2. Cardinality(OwnDumps') = Cardinality(OwnDumps) + 1
      BY <3>1, FS_AddElement
    <3> QED
      BY <1>17, <2>1, <2>3, <2>4, <3>2 DEF ReleaseDump
  <2>5. CASE stored[p] # "shared"
    BY <1>17, <2>1, <2>3, <2>5, SetsUnchanged DEF ReleaseDump
  <2> QED
    BY <2>4, <2>5
<1>18. ASSUME NEW p \in Cells, DestroyDump(p)
      PROVE  LocksExact'
  <2>1. HeldDumps' = HeldDumps
    BY <1>18 DEF DestroyDump, HeldDumps, Types
  <2> QED
    BY <1>18, <2>1, SetsUnchanged DEF DestroyDump
<1> QED
  BY <1>1, <1>2, <1>3, <1>4, <1>6, <1>7, <1>8, <1>10, <1>11, <1>12, <1>13,
     <1>15, <1>16, <1>17, <1>18
     DEF Next, CallStep, LoggerStep, DumpStep, vars, moduleVars

-----------------------------------------------------------------------------
(* The rest of the invariant. *)
Rest == Shared /\ Handling /\ Kept /\ Mapped /\ HeldLoggersIntact

(* The module is unmapped with the count at zero only: no object is left,
   so that no dump is in progress and the logger of a handler has none who
   holds it. *)
LEMMA UnmappingKept ==
  ASSUME Types, LocksExact, Rest, UnloadIfUnused,
         UNCHANGED <<logger, stored, shown, at, of>>
  PROVE  Rest'
<1>1. Shared' /\ Handling'
  BY DEF Rest, Shared, Handling
<1>2. CASE ~(loaded /\ locks = 0)
  BY <1>1, <1>2 DEF UnloadIfUnused, Rest, Kept, Mapped, HeldLoggersIntact, InUse,
     Factories, Loggers, OwnDumps, HeldDumps, Targets
<1>3. CASE loaded /\ locks = 0
  <2>1. /\ Factories = {} /\ Loggers = {} /\ OwnDumps = {}
        /\ HeldDumps = {} /\ Targets = {}
    <3>1. /\ Cardinality(Factories) = 0 /\ Cardinality(Loggers) = 0
          /\ Cardinality(OwnDumps) = 0 /\ Cardinality(HeldDumps) = 0
          /\ Cardinality(Targets) = 0
      BY <1>3, CountsAreNumbers DEF LocksExact
    <3> QED
      BY <3>1, CountsAreNumbers, FS_EmptySet
  <2>2. Kept'
    BY <2>1, SetsUnchanged DEF Kept
  <2>3. Mapped' /\ torn' = InUse
    BY <1>3 DEF UnloadIfUnused, Mapped, InUse
  <2>4. ASSUME NEW r \in Raisers, at[r] \in Counted
        PROVE  /\ logger[of[r]] \in {"unlocked", "waiting"}
               /\ at[r] \notin Dumping
    <3>1. at[r] \notin Dumping
      BY <2>1 DEF Targets
    <3>2. of[r] \in Calls /\ of[r] \notin Loggers
      BY <2>1 DEF Types
    <3>3. logger[of[r]] \in Waitable
      BY <2>4 DEF Rest, Handling
    <3> QED
      BY <3>1, <3>2, <3>3 DEF Loggers, Waitable
  <2>5. HeldLoggersIntact'
    BY <2>4 DEF HeldLoggersIntact
  <2> QED
    BY <1>1, <2>2, <2>3, <2>5 DEF Rest
<1> QED
  BY <1>2, <1>3

LEMMA RestKept ==
  Types /\ LocksExact /\ Rest /\ [Next]_vars => Rest'
<1> SUFFICES ASSUME Types, LocksExact, Rest, [Next]_vars
             PROVE  Rest'
  OBVIOUS
<1> USE DEF Factories, Loggers, OwnDumps, HeldDumps, Targets
<1>1. CASE UNCHANGED moduleVars
  BY <1>1 DEF Rest, Shared, Handling, Kept, Mapped, HeldLoggersIntact, InUse,
     moduleVars
<1>2. ASSUME NEW c \in Calls,
             \/ InstallerStep(c) \/ Interruption(c) \/ Finalization(c)
             \/ CopyModule(c) \/ FreeModule(c)
      PROVE  Rest'
  BY <1>1, <1>2, UnmappingKept DEF InstallerStep, Interruption, Finalization,
     CopyModule, FreeModule
<1>3. ASSUME NEW c \in Calls, LoadModule(c)
      PROVE  Rest'
  <2>1. /\ ~torn' /\ loaded' /\ logger[c] = "none"
        /\ logger' = [logger EXCEPT ![c] = "creating"]
        /\ UNCHANGED <<stored, shown, at, of>>
    BY <1>3 DEF LoadModule, Alive, SetLogger
  <2>2. Handling'
    BY <2>1 DEF Rest, Handling, Types, Referenced, Waitable
  <2> QED
    BY <2>1, <2>2 DEF Rest, Shared, Kept, Mapped, HeldLoggersIntact
<1>4. ASSUME NEW c \in Calls, NEW s \in LoggerStates, ~torn, torn' = torn,
             loaded' = loaded, loaded,
             SetLogger(c, s),
             logger[c] \in Waitable => s \in Waitable,
             UNCHANGED <<stored, shown, at, of>>
      PROVE  Rest'
  <2>1. Handling'
    BY <1>4 DEF SetLogger, Rest, Handling, Types
  <2> QED
    BY <1>4, <2>1 DEF Rest, Shared, Kept, Mapped, HeldLoggersIntact
<1>5. ASSUME NEW c \in Calls, CreateLogger(c) \/ ReturnLogger(c)
      PROVE  Rest'
  <2>1. loaded
    BY <1>5 DEF CreateLogger, ReturnLogger, Rest, Kept
  <2> QED
    BY <1>4, <1>5, <2>1 DEF CreateLogger, ReturnLogger, Alive, Referenced,
       Waitable, LoggerStates
<1>6. ASSUME NEW c \in Calls, FailToCreate(c)
      PROVE  Rest'
  <2>1. CASE logger[c] = "none" /\ UNCHANGED logger
    BY <1>6, <2>1 DEF FailToCreate, Rest, Shared, Handling, Kept, Mapped,
       HeldLoggersIntact, InUse
  <2>2. CASE logger[c] = "creating" /\ SetLogger(c, "gone")
    <3>1. loaded
      BY <2>2 DEF Rest, Kept
    <3> QED
      BY <1>4, <1>6, <2>2, <3>1 DEF FailToCreate, Alive, Referenced, Waitable,
         LoggerStates
  <2>3. CASE logger[c] = "made" /\ SetLogger(c, "dropped")
    <3>1. loaded
      BY <2>3 DEF Rest, Kept
    <3> QED
      BY <1>4, <1>6, <2>3, <3>1 DEF FailToCreate, Alive, Referenced,
         Waitable, LoggerStates
  <2> QED
    BY <1>6, <2>1, <2>2, <2>3 DEF FailToCreate
<1>7. ASSUME NEW c \in Calls, ReleaseLogger(c) \/ RemoveHandler(c)
      PROVE  Rest'
  <2>1. ~torn /\ (logger[c] \in Referenced \/ logger[c] = "unlocked")
    BY <1>7 DEF ReleaseLogger, RemoveHandler, Alive, Referenced
  <2>2. loaded
    BY <2>1 DEF Rest, Kept, Mapped, InUse, Ending
  <2> QED
    BY <1>4, <1>7, <2>1, <2>2 DEF ReleaseLogger, RemoveHandler, Waitable,
       LoggerStates
<1>8. ASSUME NEW c \in Calls, DestroyLogger(c)
      PROVE  Rest'
  <2>1. /\ ~torn /\ torn' = torn /\ loaded' = loaded
        /\ logger[c] = "waiting"
        /\ logger' = [logger EXCEPT ![c] = "emptied"]
        /\ stored' = [p \in Cells |-> IF p \in {q \in Cells : q[2] = c}
                                     THEN "empty" ELSE stored[p]]
        /\ \A r \in Raisers : at[r] \in Counted => of[r] # c
        /\ UNCHANGED <<shown, at, of>>
    BY <1>8 DEF DestroyLogger, Alive, Clear, Empty, SetLogger
  <2>2. loaded
    BY <2>1 DEF Rest, Mapped, InUse, Ending
  <2>3. Shared'
    BY <2>1 DEF Rest, Shared
  <2>4. Handling'
    BY <2>1 DEF Rest, Handling, Types, Cells
  <2> QED
    BY <2>1, <2>2, <2>3, <2>4 DEF Rest, Kept, Mapped, HeldLoggersIntact
<1>19. ASSUME NEW c \in Calls, FinishDestruction(c)
      PROVE  Rest'
  <2>1. logger[c] = "emptied" /\ ~torn
    BY <1>19 DEF FinishDestruction, Alive
  <2>2. loaded
    BY <2>1 DEF Rest, Mapped, InUse, Ending
  <2> QED
    BY <1>4, <1>19, <2>1, <2>2 DEF FinishDestruction, Waitable, Referenced,
       LoggerStates
<1>9. ASSUME NEW r \in Raisers, NEW c \in Calls, EnterHandler(r, c)
      PROVE  Rest'
  <2>1. loaded /\ ~torn
    BY <1>9 DEF EnterHandler, Alive, Handled, Referenced, Ending, Rest, Kept,
       Mapped, InUse
  <2>2. Handling'
    BY <1>9 DEF EnterHandler, Rest, Handling, Types, Handled, Waitable
  <2> QED
    BY <1>9, <2>1, <2>2 DEF EnterHandler, Rest, Shared, Kept, Mapped,
       HeldLoggersIntact
<1>10. ASSUME NEW r \in Raisers, at[r] # "idle", Alive
       PROVE  loaded /\ ~torn
  BY <1>10 DEF Alive, Rest, Mapped, InUse
<1>11. ASSUME NEW r \in Raisers, NEW position \in Positions,
              at[r] # "idle", Alive, MoveTo(r, position),
              position \in Counted => at[r] \in Counted,
              position \in {"cleared", "dumping"}
                => stored'[<<r, of[r]>>] = "empty",
              \A p \in Cells :
                /\ p[1] # r => stored'[p] = stored[p]
                /\ stored'[p] = "shared" => stored[p] = "shared",
              UNCHANGED <<loaded, torn, logger, shown, of>>
       PROVE  Rest'
  <2>1. loaded /\ ~torn /\ loaded' /\ ~torn'
    BY <1>10, <1>11
  <2>2. Shared'
    BY <1>11 DEF Rest, Shared
  <2>3. ASSUME NEW q \in Raisers
        PROVE  /\ at'[q] \in Counted => logger[of[q]] \in Waitable
               /\ at'[q] \in {"cleared", "dumping"} =>
                    stored'[<<q, of[q]>>] = "empty"
    <3>1. CASE q = r
      BY <1>11, <3>1 DEF MoveTo, Types, Rest, Handling
    <3>2. CASE q # r
      <4>1. at'[q] = at[q]
        BY <1>11, <3>2 DEF MoveTo, Types
      <4>2. <<q, of[q]>> \in Cells /\ <<q, of[q]>>[1] # r
        BY <3>2 DEF Types, Cells
      <4>3. stored'[<<q, of[q]>>] = stored[<<q, of[q]>>]
        BY <1>11, <4>2
      <4> QED
        BY <4>1, <4>3 DEF Rest, Handling
    <3> QED
      BY <3>1, <3>2
  <2>4. Handling'
    BY <1>11, <2>3 DEF Handling
  <2> QED
    BY <2>1, <2>2, <2>4 DEF Rest, Kept, Mapped, HeldLoggersIntact
<1>12. ASSUME NEW r \in Raisers,
              \/ SkipDump(r) \/ BeginDump(r) \/ EndDump(r) \/ CountOut(r)
              \/ LeaveHandler(r)
       PROVE  Rest'
  <2>1. /\ Alive /\ UNCHANGED <<loaded, torn, logger, stored, shown, of>>
        /\ \/ at[r] \in {"entered", "cleared"} /\ MoveTo(r, "dumped")
           \/ at[r] = "cleared" /\ MoveTo(r, "dumping")
           \/ at[r] \in Dumping /\ MoveTo(r, "dumped")
           \/ at[r] = "dumped" /\ MoveTo(r, "leaving")
           \/ at[r] = "leaving" /\ MoveTo(r, "idle")
    BY <1>12 DEF SkipDump, BeginDump, EndDump, CountOut, LeaveHandler
  <2>2. at[r] = "cleared" => stored[<<r, of[r]>>] = "empty"
    BY DEF Rest, Handling
  <2> QED
    BY <1>11, <2>1, <2>2 DEF Positions, Counted, Dumping
<1>13. ASSUME NEW r \in Raisers, ClearData(r) \/ TrimDump(r)
       PROVE  Rest'
  <2>1. /\ Alive /\ UNCHANGED <<loaded, torn, logger, shown, of>>
        /\ \/ at[r] = "entered" /\ MoveTo(r, "cleared")
           \/ at[r] = "kept" /\ MoveTo(r, "kept")
        /\ Empty({<<r, of[r]>>})
    BY <1>13 DEF ClearData, TrimDump, Clear, MoveTo, Types
  <2>2. /\ stored'[<<r, of[r]>>] = "empty"
        /\ \A p \in Cells : /\ p[1] # r => stored'[p] = stored[p]
                            /\ stored'[p] = "shared" => stored[p] = "shared"
    BY <2>1 DEF Empty, Types, Cells
  <2> QED
    BY <1>11, <2>1, <2>2 DEF Positions, Counted
<1>20. ASSUME NEW r \in Raisers, KeepDump(r)
       PROVE  Rest'
  <2>1. /\ Alive /\ UNCHANGED <<loaded, torn, logger, shown, of>>
        /\ at[r] = "dumping" /\ MoveTo(r, "kept")
        /\ stored' = [stored EXCEPT ![<<r, of[r]>>] = "own"]
    BY <1>20 DEF KeepDump
  <2>2. \A p \in Cells : /\ p[1] # r => stored'[p] = stored[p]
                        /\ stored'[p] = "shared" => stored[p] = "shared"
    BY <2>1 DEF Types
  <2> QED
    BY <1>11, <2>1, <2>2 DEF Positions, Counted
<1>14. ASSUME NEW r \in Raisers, EndThread(r)
       PROVE  Rest'
  <2>1. /\ ~torn /\ loaded' = loaded /\ torn' = torn
        /\ \A p \in Cells : stored'[p] \in {"empty", stored[p]}
        /\ UNCHANGED <<logger, shown, at, of>>
    BY <1>14 DEF EndThread, Alive, Clear, Empty
  <2>2. Handling' /\ Shared'
    BY <2>1 DEF Rest, Handling, Shared, Types, Cells
  <2>3. Kept'
    BY <2>1 DEF Rest, Kept
  <2> QED
    BY <2>1, <2>2, <2>3 DEF Rest, Mapped, InUse, HeldLoggersIntact
<1>15. ASSUME NEW p \in Cells, ShowDump(p)
       PROVE  Rest'
  <2>1. /\ ~torn /\ loaded' = loaded /\ torn' = torn
        /\ stored[p] = "own" /\ shown[p] = "none"
        /\ stored' = [stored EXCEPT ![p] = "shared"]
        /\ shown' = [shown EXCEPT ![p] = "held"]
        /\ UNCHANGED <<logger, at, of>>
    BY <1>15 DEF ShowDump, Reachable, Alive
  <2>2. loaded
    BY <2>1 DEF Rest, Kept
  <2>3. Shared'
    BY <2>1 DEF Rest, Shared, Types
  <2>4. Handling'
    <3>1. \A r \in Raisers : at[r] \in {"cleared", "dumping"} => p # <<r, of[r]>>
      BY <2>1 DEF Rest, Handling
    <3>2. \A r \in Raisers : <<r, of[r]>> \in Cells
      BY DEF Types, Cells
    <3> QED
      BY <2>1, <3>1, <3>2 DEF Rest, Handling, Types
  <2> QED
    BY <2>1, <2>2, <2>3, <2>4 DEF Rest, Kept, Mapped, HeldLoggersIntact
<1>16. ASSUME NEW p \in Cells, ClearDump(p)
       PROVE  Rest'
  <2>1. /\ ~torn /\ loaded' = loaded /\ torn' = torn
        /\ \A q \in Cells : stored'[q] \in {"empty", stored[q]}
        /\ UNCHANGED <<logger, shown, at, of>>
    BY <1>16 DEF ClearDump, Reachable, Alive, Clear, Empty
  <2>2. Handling' /\ Shared'
    BY <2>1 DEF Rest, Handling, Shared, Types, Cells
  <2>3. Kept'
    BY <2>1 DEF Rest, Kept
  <2> QED
    BY <2>1, <2>2, <2>3 DEF Rest, Mapped, InUse, HeldLoggersIntact
<1>17. ASSUME NEW p \in Cells, ReleaseDump(p)
       PROVE  Rest'
  <2>1. /\ ~torn /\ loaded' = loaded /\ torn' = torn /\ shown[p] = "held"
        /\ UNCHANGED <<logger, at, of>>
    BY <1>17 DEF ReleaseDump, Alive
  <2>2. loaded
    BY <2>1 DEF Rest, Kept
  <2>3. CASE /\ stored[p] = "shared"
             /\ stored' = [stored EXCEPT ![p] = "own"]
             /\ shown' = [shown EXCEPT ![p] = "none"]
    <3>1. Shared'
      BY <2>3 DEF Rest, Shared, Types
    <3>2. Handling'
      <4>1. \A r \in Raisers : at[r] \in {"cleared", "dumping"} => p # <<r, of[r]>>
        BY <2>3 DEF Rest, Handling
      <4>2. \A r \in Raisers : <<r, of[r]>> \in Cells
        BY DEF Types, Cells
      <4> QED
        BY <2>1, <2>3, <4>1, <4>2 DEF Rest, Handling, Types
    <3> QED
      BY <2>1, <2>2, <3>1, <3>2 DEF Rest, Kept, Mapped, HeldLoggersIntact
  <2>4. CASE /\ stored[p] # "shared"
             /\ stored' = stored
             /\ shown' = [shown EXCEPT ![p] = "freeing"]
    <3>1. Shared'
      BY <2>4 DEF Rest, Shared, Types
    <3>2. Handling'
      BY <2>1, <2>4 DEF Rest, Handling
    <3> QED
      BY <2>1, <2>2, <3>1, <3>2 DEF Rest, Kept, Mapped, HeldLoggersIntact
  <2> QED
    BY <1>17, <2>3, <2>4 DEF ReleaseDump
<1>18. ASSUME NEW p \in Cells, DestroyDump(p)
       PROVE  Rest'
  <2>1. /\ ~torn /\ loaded' = loaded /\ torn' = torn /\ shown[p] = "freeing"
        /\ shown' = [shown EXCEPT ![p] = "none"]
        /\ UNCHANGED <<logger, stored, at, of>>
    BY <1>18 DEF DestroyDump, Alive
  <2>2. loaded
    BY <2>1 DEF Rest, Mapped, InUse
  <2>3. Shared' /\ Handling'
    BY <2>1 DEF Rest, Shared, Handling, Types
  <2> QED
    BY <2>1, <2>2, <2>3 DEF Rest, Kept, Mapped, HeldLoggersIntact
<1> QED
  BY <1>1, <1>2, <1>3, <1>5, <1>6, <1>7, <1>8, <1>9, <1>12, <1>13, <1>14,
     <1>15, <1>16, <1>17, <1>18, <1>19, <1>20
     DEF Next, CallStep, LoggerStep, HandlerStep, DumpStep, vars

-----------------------------------------------------------------------------
LEMMA InvHoldsInitially == Init => ModuleInv
<1> SUFFICES ASSUME Init PROVE ModuleInv
  OBVIOUS
<1>1. Types
  BY DEF Init, Types, LoggerStates, Positions
<1>2. /\ Factories = {} /\ Loggers = {} /\ OwnDumps = {}
      /\ HeldDumps = {} /\ Targets = {}
  BY DEF Init, Factories, Loggers, OwnDumps, HeldDumps, Targets, Referenced,
     Dumping
<1>3. LocksExact
  BY <1>2, FS_EmptySet DEF Init, LocksExact
<1>4. Shared /\ Handling /\ Kept /\ Mapped /\ HeldLoggersIntact
  BY <1>2 DEF Init, Shared, Handling, Kept, Mapped, HeldLoggersIntact, InUse,
     Ending, Counted
<1> QED
  BY <1>1, <1>3, <1>4 DEF ModuleInv

LEMMA InvAlways == Spec => []ModuleInv
<1>1. Init => ModuleInv
  BY InvHoldsInitially
<1>2. ModuleInv /\ [Next]_vars => ModuleInv'
  BY TypesKept, CountKept, RestKept DEF ModuleInv, Rest
<1> QED
  BY <1>1, <1>2, PTL DEF Spec

(* Type correctness of the composition; the count never goes negative. *)
THEOREM TypeCorrect == Spec => []TypeOK
<1>1. ModuleInv /\ ActivationTypeOK => TypeOK
  <2> SUFFICES ASSUME ModuleInv, ActivationTypeOK PROVE TypeOK
    OBVIOUS
  <2>1. locks \in Nat
    BY CountsAreNumbers DEF ModuleInv, LocksExact
  <2> QED
    BY <2>1 DEF ModuleInv, Types, TypeOK
<1> QED
  BY <1>1, InvAlways, ImplementsActivation, ActivationTypes, PTL

(* The module's lock count is the number of its objects. *)
THEOREM CountIsExact == Spec => []LocksExact
<1>1. ModuleInv => LocksExact
  BY DEF ModuleInv
<1> QED
  BY <1>1, InvAlways, PTL

(* Whoever holds an interface of the module holds the module. *)
THEOREM ModuleIsKept == Spec => []InterfacesKeepModule
<1>1. ModuleInv => InterfacesKeepModule
  BY DEF ModuleInv, Types, Kept, Shared, Factories, Loggers, OwnDumps,
     HeldDumps, InterfacesKeepModule, Referenced
<1> QED
  BY <1>1, InvAlways, PTL

(* An invocation that in_veh counts loses the module only in a wait of a
   destructor, or just before it, and never in the middle of a dump. *)
THEOREM HeldLoggersAreIntact == Spec => []HeldLoggersIntact
<1>1. ModuleInv => HeldLoggersIntact
  BY DEF ModuleInv
<1> QED
  BY <1>1, InvAlways, PTL
=============================================================================
