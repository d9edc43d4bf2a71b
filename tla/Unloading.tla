------------------------------ MODULE Unloading ------------------------------
(***************************************************************************)
(* The life of the native module in the process: the installer's calls of  *)
(* module Activation ask COM to create loggers and to unload what is       *)
(* unused, applications let their loggers and dumps go, and threads raise  *)
(* exceptions into the handlers of the loggers.                            *)
(*                                                                         *)
(* Every object of the module takes part in one lock count, which is what  *)
(* DllCanUnloadNow answers from.  An object takes itself out of the count  *)
(* in the destructor of its CComObject, which runs before the destructor   *)
(* of the class: from there on nothing keeps the module under the code     *)
(* that is still destroying the object.                                    *)
(***************************************************************************)
EXTENDS Activation, FiniteSets

CONSTANTS
  Raisers,     \* the threads that raise managed exceptions
  ShadowCopied \* does InstallForWeb copy the module over the one in use

ASSUME CallsAssumption == IsFiniteSet(Calls)
ASSUME RaisersAssumption == IsFiniteSet(Raisers)
ASSUME ShadowAssumption == ShadowCopied \in BOOLEAN

VARIABLES
  loaded, \* is the module mapped into the process
  locks,  \* the lock count of _Module
  logger, \* the StackLogger that each call has made
  stored, \* the last dump of each thread in the storage of each logger
  shown,  \* the dump of a thread and logger that the application holds
  at,     \* where each raising thread is
  of,     \* the logger whose handler it runs
  torn    \* the module has been unmapped under code of it that runs

moduleVars == <<loaded, locks, logger, stored, shown, at, of, torn>>
vars == <<activationVars, moduleVars>>

Cells == Raisers \X Calls

(* "creating": the class factory is held; "made": the object is too;
   "unlocked": counted out, its destructor yet to remove the handler;
   "waiting": for the invocations of the handler; "emptied": its dumps are
   released, and the rest of it is still being destroyed. *)
LoggerStates == {"none", "creating", "made", "held", "dropped",
                 "unlocked", "waiting", "emptied", "gone"}
Referenced == {"made", "held", "dropped"}
Handled == Referenced \cup {"unlocked"}
Ending == {"unlocked", "waiting", "emptied"}

(* "cleared": the old dump is gone; "dumping": there is a DACTargetProvider;
   "kept": the new dump is there too; "dumped": nothing is left but to count
   the invocation out; "leaving": that is done, the handler returns. *)
Positions == {"idle", "entered", "cleared", "dumping", "kept", "dumped",
              "leaving"}
Dumping == {"dumping", "kept"}

(* Where in_veh counts an invocation. *)
Counted == Positions \ {"idle", "leaving"}

(* The objects that have counted themselves in. *)
Factories == {c \in Calls : logger[c] \in {"creating", "made"}}
Loggers == {c \in Calls : logger[c] \in Referenced}
OwnDumps == {p \in Cells : stored[p] = "own"}
HeldDumps == {p \in Cells : shown[p] = "held"}
Targets == {r \in Raisers : at[r] \in Dumping}

(* Some thread executes code of the module. *)
InUse ==
  \/ \E c \in Calls : logger[c] \in Ending
  \/ \E p \in Cells : shown[p] = "freeing"
  \/ \E r \in Raisers : at[r] # "idle"

Init ==
  /\ ActivationInit
  /\ loaded = FALSE
  /\ locks = 0
  /\ logger = [c \in Calls |-> "none"]
  /\ stored = [p \in Cells |-> "empty"]
  /\ shown = [p \in Cells |-> "none"]
  /\ at = [r \in Raisers |-> "idle"]
  /\ of \in [Raisers -> Calls]
  /\ torn = FALSE

(* Neither an exception out of a finalizer nor the execution of unmapped
   memory leaves a process to go on. *)
Alive == ~died /\ ~torn

-----------------------------------------------------------------------------
(* The calls of the installer, with what they do to the module. *)

(* Mutation: the lock count is not asked for. *)
UnloadAnyway ==
  /\ loaded' = FALSE
  /\ torn' = (loaded /\ InUse)

(* DllCanUnloadNow says yes, and COM unmaps the module at once. *)
UnloadIfUnused ==
  IF loaded /\ locks = 0
  THEN loaded' = FALSE /\ torn' = InUse
  ELSE UNCHANGED <<loaded, torn>>

FreeModule(c) ==
  /\ Alive
  /\ FreeUnused(c)
  /\ UnloadIfUnused
  /\ UNCHANGED <<locks, logger, stored, shown, at, of>>

(* The file of a module that is mapped is not overwritten. *)
CopyModule(c) ==
  /\ Alive
  /\ CopyLogger(c)
  /\ ShadowCopied => ~loaded
  /\ UNCHANGED moduleVars

InstallerStep(c) ==
  /\ Alive
  /\ Install(c) \/ InstallForWeb(c) \/ CopyFails(c) \/ OwnStep(c)
  /\ UNCHANGED moduleVars

Interruption(c) == Alive /\ Interrupted(c) /\ UNCHANGED moduleVars
Finalization(c) == Alive /\ Finalizer(c) /\ UNCHANGED moduleVars

SetLogger(c, s) == logger' = [logger EXCEPT ![c] = s]

(* CoCreateInstance maps the module and takes its class factory. *)
LoadModule(c) ==
  /\ Alive
  /\ step[c] = "body" /\ logger[c] = "none"
  /\ loaded' = TRUE
  /\ locks' = locks + 1
  /\ SetLogger(c, "creating")
  /\ UNCHANGED <<activationVars, stored, shown, at, of, torn>>

(* Mutation: an object that does not count itself in. *)
CreateUncounted(c) ==
  /\ Alive
  /\ logger[c] = "creating"
  /\ SetLogger(c, "made")
  /\ UNCHANGED <<activationVars, loaded, locks, stored, shown, at, of, torn>>

(* The constructor and FinalConstruct, after which the handler is called. *)
CreateLogger(c) ==
  /\ Alive
  /\ logger[c] = "creating"
  /\ locks' = locks + 1
  /\ SetLogger(c, "made")
  /\ UNCHANGED <<activationVars, loaded, stored, shown, at, of, torn>>

(* COM gives the factory back and Install returns the logger. *)
ReturnLogger(c) ==
  /\ Alive
  /\ logger[c] = "made"
  /\ BodyReturns(c)
  /\ locks' = locks - 1
  /\ SetLogger(c, "held")
  /\ UNCHANGED <<loaded, stored, shown, at, of, torn>>

(* The creation fails before the module is mapped, or in it; or the call is
   interrupted once it is back in managed code, with a logger that then is
   nobody's. *)
FailToCreate(c) ==
  /\ Alive
  /\ BodyThrows(c)
  /\ \/ /\ logger[c] = "none"
        /\ UNCHANGED <<locks, logger>>
     \/ /\ logger[c] = "creating"
        /\ locks' = locks - 1
        /\ SetLogger(c, "gone")
     \/ /\ logger[c] = "made"
        /\ locks' = locks - 1
        /\ SetLogger(c, "dropped")
  /\ UNCHANGED <<loaded, stored, shown, at, of, torn>>

-----------------------------------------------------------------------------
(* Mutation: a dump that the application holds is counted out as well. *)
CountAll(cells) == Cardinality({p \in cells : stored[p] # "empty"})

(* The dumps of some cells of the storage are released; those that nobody
   else holds are destroyed, and count themselves out. *)
Count(cells) == Cardinality({p \in cells : stored[p] = "own"})
Empty(cells) ==
  stored' = [p \in Cells |-> IF p \in cells THEN "empty" ELSE stored[p]]
Clear(cells) == Empty(cells) /\ locks' = locks - Count(cells)

(* A logger goes: Release, the destructor of CComObject, that of the class. *)

ReleaseLogger(c) ==
  /\ Alive
  /\ logger[c] = "dropped" \/ (logger[c] = "held" /\ step[c] = "over")
  /\ locks' = locks - 1
  /\ SetLogger(c, "unlocked")
  /\ UNCHANGED <<activationVars, loaded, stored, shown, at, of, torn>>

RemoveHandler(c) ==
  /\ Alive
  /\ logger[c] = "unlocked"
  /\ SetLogger(c, "waiting")
  /\ UNCHANGED <<activationVars, loaded, locks, stored, shown, at, of, torn>>

(* Nothing is counted in in_veh any more; the dumps that the storage of the
   logger alone holds go with it. *)
DestroyLogger(c) ==
  /\ Alive
  /\ logger[c] = "waiting"
  /\ \A r \in Raisers : at[r] \in Counted => of[r] # c
  /\ Clear({p \in Cells : p[2] = c})
  /\ SetLogger(c, "emptied")
  /\ UNCHANGED <<activationVars, loaded, shown, at, of, torn>>

(* The rest of the storage and the base classes, and the memory is freed. *)
FinishDestruction(c) ==
  /\ Alive
  /\ logger[c] = "emptied"
  /\ SetLogger(c, "gone")
  /\ UNCHANGED <<activationVars, loaded, locks, stored, shown, at, of, torn>>

-----------------------------------------------------------------------------
(* A thread raises an exception, and a logger's handler runs. *)

EnterHandler(r, c) ==
  /\ Alive
  /\ at[r] = "idle" /\ logger[c] \in Handled
  /\ at' = [at EXCEPT ![r] = "entered"]
  /\ of' = [of EXCEPT ![r] = c]
  /\ UNCHANGED <<activationVars, loaded, locks, logger, stored, shown, torn>>

MoveTo(r, position) == at' = [at EXCEPT ![r] = position]

(* Logging is disabled, or something fails before there is a target. *)
SkipDump(r) ==
  /\ Alive
  /\ at[r] \in {"entered", "cleared"}
  /\ MoveTo(r, "dumped")
  /\ UNCHANGED <<activationVars, loaded, locks, logger, stored, shown, of,
                 torn>>

(* The old dump of the thread goes. *)
ClearData(r) ==
  /\ Alive
  /\ at[r] = "entered"
  /\ MoveTo(r, "cleared")
  /\ Clear({<<r, of[r]>>})
  /\ UNCHANGED <<activationVars, loaded, logger, shown, of, torn>>

(* The DACTargetProvider comes. *)
BeginDump(r) ==
  /\ Alive
  /\ at[r] = "cleared"
  /\ MoveTo(r, "dumping")
  /\ locks' = locks + 1
  /\ UNCHANGED <<activationVars, loaded, logger, stored, shown, of, torn>>

(* The dumper has run, and its dump is the head of the list. *)
KeepDump(r) ==
  /\ Alive
  /\ at[r] = "dumping"
  /\ MoveTo(r, "kept")
  /\ stored' = [stored EXCEPT ![<<r, of[r]>>] = "own"]
  /\ locks' = locks + 1
  /\ UNCHANGED <<activationVars, loaded, logger, shown, of, torn>>

(* The maximum number of entries is zero. *)
TrimDump(r) ==
  /\ Alive
  /\ at[r] = "kept" /\ stored[<<r, of[r]>>] = "own"
  /\ Clear({<<r, of[r]>>})
  /\ UNCHANGED <<activationVars, loaded, logger, shown, at, of, torn>>

(* Mutation: the DACTargetProvider is leaked. *)
EndDumpLeaking(r) ==
  /\ Alive
  /\ at[r] \in Dumping
  /\ MoveTo(r, "dumped")
  /\ UNCHANGED <<activationVars, loaded, locks, logger, stored, shown, of,
                 torn>>

(* The target goes, after the dump has been kept or something has thrown. *)
EndDump(r) ==
  /\ Alive
  /\ at[r] \in Dumping
  /\ MoveTo(r, "dumped")
  /\ locks' = locks - 1
  /\ UNCHANGED <<activationVars, loaded, logger, stored, shown, of, torn>>

(* in_veh is decremented, with code of the module still to run. *)
CountOut(r) ==
  /\ Alive
  /\ at[r] = "dumped"
  /\ MoveTo(r, "leaving")
  /\ UNCHANGED <<activationVars, loaded, locks, logger, stored, shown, of,
                 torn>>

LeaveHandler(r) ==
  /\ Alive
  /\ at[r] = "leaving"
  /\ MoveTo(r, "idle")
  /\ UNCHANGED <<activationVars, loaded, locks, logger, stored, shown, of,
                 torn>>

-----------------------------------------------------------------------------
(* The application reads and clears dumps, on the thread that raised. *)

Reachable(p) == Alive /\ at[p[1]] = "idle" /\ logger[p[2]] = "held"

ShowDump(p) ==
  /\ Reachable(p)
  /\ stored[p] = "own" /\ shown[p] = "none"
  /\ stored' = [stored EXCEPT ![p] = "shared"]
  /\ shown' = [shown EXCEPT ![p] = "held"]
  /\ UNCHANGED <<activationVars, loaded, locks, logger, at, of, torn>>

ClearDump(p) ==
  /\ Reachable(p)
  /\ Clear({p})
  /\ UNCHANGED <<activationVars, loaded, logger, shown, at, of, torn>>

(* DllMain runs the callbacks of the storage while the loader lock, which an
   unmapping needs as well, is held. *)
EndThread(r) ==
  /\ Alive
  /\ at[r] = "idle"
  /\ Clear({p \in Cells : p[1] = r})
  /\ UNCHANGED <<activationVars, loaded, logger, shown, at, of, torn>>

(* The application lets a dump go: the storage keeps it, or it counts itself
   out and is destroyed. *)
ReleaseDump(p) ==
  /\ Alive
  /\ shown[p] = "held"
  /\ IF stored[p] = "shared"
     THEN /\ stored' = [stored EXCEPT ![p] = "own"]
          /\ shown' = [shown EXCEPT ![p] = "none"]
          /\ UNCHANGED locks
     ELSE /\ locks' = locks - 1
          /\ shown' = [shown EXCEPT ![p] = "freeing"]
          /\ UNCHANGED stored
  /\ UNCHANGED <<activationVars, loaded, logger, at, of, torn>>

DestroyDump(p) ==
  /\ Alive
  /\ shown[p] = "freeing"
  /\ shown' = [shown EXCEPT ![p] = "none"]
  /\ UNCHANGED <<activationVars, loaded, locks, logger, stored, at, of, torn>>

-----------------------------------------------------------------------------
CallStep(c) ==
  \/ InstallerStep(c) \/ FreeModule(c) \/ CopyModule(c)
  \/ LoadModule(c) \/ CreateLogger(c) \/ ReturnLogger(c) \/ FailToCreate(c)
LoggerStep(c) ==
  \/ ReleaseLogger(c) \/ RemoveHandler(c)
  \/ DestroyLogger(c) \/ FinishDestruction(c)
HandlerStep(r) ==
  \/ \E c \in Calls : EnterHandler(r, c)
  \/ SkipDump(r) \/ ClearData(r) \/ BeginDump(r) \/ KeepDump(r)
  \/ TrimDump(r) \/ EndDump(r) \/ CountOut(r) \/ LeaveHandler(r)
DumpStep(p) ==
  ShowDump(p) \/ ClearDump(p) \/ ReleaseDump(p) \/ DestroyDump(p)

Next ==
  \/ \E c \in Calls :
       CallStep(c) \/ Interruption(c) \/ Finalization(c) \/ LoggerStep(c)
  \/ \E r \in Raisers : HandlerStep(r) \/ EndThread(r)
  \/ \E p \in Cells : DumpStep(p)

Spec == Init /\ [][Next]_vars

(* A call that has begun comes back, as COM and the loader come back to it,
   and the runtime runs the finalizers it owes, at the latest when the
   application domain is unloaded.  Nothing obliges anyone to begin a call,
   to abort a thread, to raise an exception or to let a logger go. *)
Fairness ==
  \A c \in Calls :
    /\ WF_vars(Running(c) /\ CallStep(c))
    /\ WF_vars(Finalization(c))

FairSpec == Spec /\ Fairness

-----------------------------------------------------------------------------
TypeOK ==
  /\ ActivationTypeOK
  /\ loaded \in BOOLEAN
  /\ locks \in Nat
  /\ logger \in [Calls -> LoggerStates]
  /\ stored \in [Cells -> {"empty", "own", "shared"}]
  /\ shown \in [Cells -> {"none", "held", "freeing"}]
  /\ at \in [Raisers -> Positions]
  /\ of \in [Raisers -> Calls]
  /\ torn \in BOOLEAN

(* The lock count is the number of objects that exist, over every order in
   which loggers, dumps and targets come and go. *)
LocksExact ==
  locks = Cardinality(Factories) + Cardinality(Loggers)
            + Cardinality(OwnDumps) + Cardinality(HeldDumps)
            + Cardinality(Targets)

(* An interface pointer that anyone holds points into a mapped module. *)
InterfacesKeepModule ==
  /\ \A c \in Calls : logger[c] \in {"creating"} \cup Referenced => loaded
  /\ \A p \in Cells : stored[p] # "empty" \/ shown[p] = "held" => loaded

(* When the module is unmapped under an invocation that in_veh still counts,
   the logger of that invocation has counted itself out of the module, and is
   waiting for it or about to (it does happen: see HandlingFinishes); and no
   dump is in progress, as its DACTargetProvider counts.  The handler of a
   logger that somebody holds is not hit before it has left in_veh. *)
HeldLoggersIntact ==
  torn => \A r \in Raisers :
            at[r] \in Counted => /\ logger[of[r]] \in {"unlocked", "waiting"}
                                /\ at[r] \notin Dumping

(* Every activation context that is opened and stored is released in the end,
   however the call that opened it comes out, unless the process ends. *)
ContextsReleased ==
  \A c \in Calls :
    handle[c] = "open" ~> (releases[c] = 1 \/ died \/ torn)

(* The destructor of a logger says "Then wait for current VEH handling to
   finish": the module outlasts the handling it waits for. *)
HandlingFinishes ==
  \A r \in Raisers :
    at[r] \in Counted /\ logger[of[r]] = "waiting" => loaded
=============================================================================
