-------------------------- MODULE VectoredHandler --------------------------
(***************************************************************************)
(* The life of one StackLogger object and the vectored exception handler   *)
(* it installs: the constructor, FinalConstruct and the destructor, run by *)
(* whoever owns the object, against the handler invocations that any       *)
(* thread of the process makes whenever it raises an exception.            *)
(*                                                                         *)
(* A handler invocation is reached through a thunk, a page of generated    *)
(* code that belongs to the object; it counts itself in in_veh, does its   *)
(* work, counts itself out, and returns through the thunk again.  While it *)
(* works it may raise exceptions of its own, and the system calls the      *)
(* handler for those as well, one level deeper on the same thread.         *)
(*                                                                         *)
(* Memory is modelled as far as the protocol needs it: the thunk, the DAC  *)
(* module and the object are held or released, and an invocation that      *)
(* executes or reads what has been released faults.                        *)
(***************************************************************************)
EXTENDS Integers, FiniteSets

CONSTANTS
  Threads,   \* the threads of the process that raise exceptions
  MaxDepth,  \* deepest nesting of exception dispatch on a thread; a bound
  Codes,     \* the exception codes that occur
  CLR        \* the code of a managed exception, 0xE0434352

ASSUME ThreadsAssumption == IsFiniteSet(Threads)
ASSUME DepthAssumption == MaxDepth \in Nat \ {0}
ASSUME CodesAssumption == CLR \in Codes

VARIABLES
  owner,     \* how far construction or destruction of the object has come
  veh,       \* is the handler in the system's list
  thunk,     \* the page with the generated code of vthunk
  dmod,      \* the module mscordacwks.dll
  in_veh,    \* the counter of invocations, -1 once the destructor shut it
  reentrant, \* the thread_local flag of HandleProcessException
  pc,        \* where each invocation stands
  cveh,      \* the value of in_veh an invocation has read
  code       \* the code of the exception an invocation is called for

vars == <<owner, veh, thunk, dmod, in_veh, reentrant, pc, cveh, code>>

(***************************************************************************)
(* An invocation is named by its thread and its depth: while one at depth  *)
(* d dumps, one at depth d + 1 may run on the same thread.                 *)
(***************************************************************************)
Invocations == Threads \X (1 .. MaxDepth)

(* Construction, then a live object, then the statements of the destructor
   and of the destructors of its members, in the order they run. *)
Stages == {"none", "constructed", "loaded", "thunked", "live",
           "destroying", "draining", "yielding", "members", "unloading",
           "storage", "freed"}

Counted == {"entered", "dumping", "leaving"}
Positions == {"idle", "picked", "reading", "swapping", "bailed", "left",
              "fault"} \cup Counted

Inside == {a \in Invocations : pc[a] \in Counted}

(* The object's own memory, which in_veh lives in. *)
Allocated == owner \notin {"none", "freed"}

Init ==
  /\ owner = "none"
  /\ veh = FALSE
  /\ thunk = "none"
  /\ dmod = "none"
  /\ in_veh = 0
  /\ reentrant = [t \in Threads |-> FALSE]
  /\ pc = [a \in Invocations |-> "idle"]
  /\ cveh = [a \in Invocations |-> 0]
  /\ code = [a \in Invocations |-> CLR]

-----------------------------------------------------------------------------
(* The owner: construction. *)

handlerVars == <<reentrant, pc, cveh, code>>

Construct ==
  /\ owner = "none"
  /\ owner' = "constructed"
  /\ UNCHANGED <<veh, thunk, dmod, in_veh, handlerVars>>

(* A step of FinalConstruct that fails makes ATL destroy the object, which
   runs the whole destructor on whatever has been acquired so far. *)
ConstructionFails ==
  /\ owner \in {"constructed", "loaded", "thunked"}
  /\ owner' = "destroying"
  /\ UNCHANGED <<veh, thunk, dmod, in_veh, handlerVars>>

LoadDac ==
  /\ owner = "constructed"
  /\ owner' = "loaded"
  /\ dmod' = "held"
  /\ UNCHANGED <<veh, thunk, in_veh, handlerVars>>

CreateThunk ==
  /\ owner = "loaded"
  /\ owner' = "thunked"
  /\ thunk' = "held"
  /\ UNCHANGED <<veh, dmod, in_veh, handlerVars>>

InstallHandler ==
  /\ owner = "thunked"
  /\ owner' = "live"
  /\ veh' = TRUE
  /\ UNCHANGED <<thunk, dmod, in_veh, handlerVars>>

(* The last COM reference goes. *)
Release ==
  /\ owner = "live"
  /\ owner' = "destroying"
  /\ UNCHANGED <<veh, thunk, dmod, in_veh, handlerVars>>

-----------------------------------------------------------------------------
(* The owner: destruction. *)

(* If the handler cannot be removed, the throw ends the process. *)
UninstallHandler ==
  /\ owner = "destroying"
  /\ owner' = "draining"
  /\ veh' = FALSE
  /\ UNCHANGED <<thunk, dmod, in_veh, handlerVars>>

(* Mutation: the destructor only waits for the counter to be zero. *)
WaitWithoutShutting ==
  /\ owner = "draining"
  /\ in_veh = 0
  /\ owner' = "yielding"
  /\ UNCHANGED <<veh, thunk, dmod, in_veh, handlerVars>>

(* The interlocked exchange of 0 for -1, retried until it succeeds. *)
ShutCounter ==
  /\ owner = "draining"
  /\ in_veh = 0
  /\ in_veh' = -1
  /\ owner' = "yielding"
  /\ UNCHANGED <<veh, thunk, dmod, handlerVars>>

(* Sleep(0) lets other threads run, and promises nothing about them. *)
YieldOnce ==
  /\ owner = "yielding"
  /\ owner' = "members"
  /\ UNCHANGED <<veh, thunk, dmod, in_veh, handlerVars>>

(* Mutation: a thunk whose destructor frees nothing. *)
KeepThunk ==
  /\ owner = "members"
  /\ owner' = "unloading"
  /\ UNCHANGED <<veh, thunk, dmod, in_veh, handlerVars>>

(* The members go in the reverse of the order they are declared in. *)
FreeThunk ==
  /\ owner = "members"
  /\ owner' = "unloading"
  /\ thunk' = IF thunk = "held" THEN "released" ELSE thunk
  /\ UNCHANGED <<veh, dmod, in_veh, handlerVars>>

(* If the DAC cannot be unloaded, the throw ends the process. *)
UnloadDac ==
  /\ owner = "unloading"
  /\ owner' = "storage"
  /\ dmod' = IF dmod = "held" THEN "released" ELSE dmod
  /\ UNCHANGED <<veh, thunk, in_veh, handlerVars>>

FreeObject ==
  /\ owner = "storage"
  /\ owner' = "freed"
  /\ UNCHANGED <<veh, thunk, dmod, in_veh, handlerVars>>

Destructor ==
  \/ UninstallHandler \/ ShutCounter \/ YieldOnce
  \/ FreeThunk \/ UnloadDac \/ FreeObject

Owner ==
  \/ Construct \/ ConstructionFails
  \/ LoadDac \/ CreateThunk \/ InstallHandler
  \/ Release
  \/ Destructor

-----------------------------------------------------------------------------
(* The threads. *)

ownerVars == <<owner, veh, thunk, dmod>>

GoTo(a, position) == pc' = [pc EXCEPT ![a] = position]

(* The thread runs this invocation and none deeper. *)
Innermost(a) ==
  \A b \in Invocations : b[1] = a[1] /\ b[2] > a[2] => pc[b] = "idle"

(* Thread code or, one level up, a dump in progress raises an exception, and
   the system, finding the handler in its list, is about to call it. *)
Raise(a, c) ==
  /\ veh
  /\ pc[a] = "idle"
  /\ Innermost(a)
  /\ a[2] > 1 => pc[<<a[1], a[2] - 1>>] = "dumping"
  /\ code' = [code EXCEPT ![a] = c]
  /\ GoTo(a, "picked")
  /\ UNCHANGED <<ownerVars, in_veh, reentrant, cveh>>

(* Mutation: the filter shares the way out of a handled exception. *)
FilterThenCountOut(a) ==
  /\ pc[a] = "picked"
  /\ thunk = "held"
  /\ GoTo(a, IF code[a] = CLR THEN "reading" ELSE "leaving")
  /\ UNCHANGED <<ownerVars, in_veh, reentrant, cveh, code>>

(* The thunk passes the call on; only managed exceptions are of interest. *)
FilterException(a) ==
  /\ pc[a] = "picked"
  /\ thunk = "held"
  /\ GoTo(a, IF code[a] = CLR THEN "reading" ELSE "bailed")
  /\ UNCHANGED <<ownerVars, in_veh, reentrant, cveh, code>>

(* The first half of the loop that counts an invocation in. *)
ReadCounter(a) ==
  /\ pc[a] = "reading"
  /\ cveh' = [cveh EXCEPT ![a] = in_veh]
  /\ GoTo(a, IF in_veh = -1 THEN "bailed" ELSE "swapping")
  /\ UNCHANGED <<ownerVars, in_veh, reentrant, code>>

(* Mutation: the increment is a plain store of what was read plus one. *)
CountInByStore(a) ==
  /\ pc[a] = "swapping"
  /\ in_veh' = cveh[a] + 1
  /\ GoTo(a, "entered")
  /\ UNCHANGED <<ownerVars, reentrant, cveh, code>>

(* The second half: the interlocked exchange, which sends the invocation
   round the loop again when the counter has moved. *)
CountIn(a) ==
  /\ pc[a] = "swapping"
  /\ IF in_veh = cveh[a]
     THEN /\ in_veh' = cveh[a] + 1
          /\ GoTo(a, "entered")
     ELSE /\ GoTo(a, "reading")
          /\ UNCHANGED in_veh
  /\ UNCHANGED <<ownerVars, reentrant, cveh, code>>

(* Mutation: the reentrancy flag is not looked at. *)
BeginDumpAlways(a) ==
  /\ pc[a] = "entered"
  /\ GoTo(a, "dumping")
  /\ reentrant' = [reentrant EXCEPT ![a[1]] = TRUE]
  /\ UNCHANGED <<ownerVars, in_veh, cveh, code>>

(* Mutation: the reentrant case returns from the handler at once. *)
BeginDumpOrReturn(a) ==
  /\ pc[a] = "entered"
  /\ IF reentrant[a[1]]
     THEN /\ GoTo(a, "left")
          /\ UNCHANGED reentrant
     ELSE /\ GoTo(a, "dumping")
          /\ reentrant' = [reentrant EXCEPT ![a[1]] = TRUE]
  /\ UNCHANGED <<ownerVars, in_veh, cveh, code>>

(* Mutation: the reentrant case counts itself out and tries again. *)
BeginDumpOrRetry(a) ==
  /\ pc[a] = "entered"
  /\ IF reentrant[a[1]]
     THEN /\ GoTo(a, "reading")
          /\ in_veh' = in_veh - 1
          /\ UNCHANGED reentrant
     ELSE /\ GoTo(a, "dumping")
          /\ reentrant' = [reentrant EXCEPT ![a[1]] = TRUE]
          /\ UNCHANGED in_veh
  /\ UNCHANGED <<ownerVars, cveh, code>>

(* The test of the thread's flag, before anything that may raise. *)
BeginDump(a) ==
  /\ pc[a] = "entered"
  /\ IF reentrant[a[1]]
     THEN /\ GoTo(a, "leaving")
          /\ UNCHANGED reentrant
     ELSE /\ GoTo(a, "dumping")
          /\ reentrant' = [reentrant EXCEPT ![a[1]] = TRUE]
  /\ UNCHANGED <<ownerVars, in_veh, cveh, code>>

(* Mutation: a dump that fails skips the reset of the flag. *)
EndDumpOrFail(a) ==
  /\ pc[a] = "dumping"
  /\ Innermost(a)
  /\ \/ reentrant' = [reentrant EXCEPT ![a[1]] = FALSE]
     \/ UNCHANGED reentrant
  /\ GoTo(a, "leaving")
  /\ UNCHANGED <<ownerVars, in_veh, cveh, code>>

(* However the dump ends, every path reaches the label Exit. *)
EndDump(a) ==
  /\ pc[a] = "dumping"
  /\ Innermost(a)
  /\ reentrant' = [reentrant EXCEPT ![a[1]] = FALSE]
  /\ GoTo(a, "leaving")
  /\ UNCHANGED <<ownerVars, in_veh, cveh, code>>

CountOut(a) ==
  /\ pc[a] = "leaving"
  /\ in_veh' = in_veh - 1
  /\ GoTo(a, "left")
  /\ UNCHANGED <<ownerVars, reentrant, cveh, code>>

(* Back through the thunk to the system. *)
Return(a) ==
  /\ pc[a] \in {"bailed", "left"}
  /\ thunk = "held"
  /\ GoTo(a, "idle")
  /\ UNCHANGED <<ownerVars, in_veh, reentrant, cveh, code>>

(* The page of the thunk is gone: executing it is an access violation. *)
ExecuteFreedThunk(a) ==
  /\ pc[a] \in {"picked", "bailed", "left"}
  /\ thunk = "released"
  /\ GoTo(a, "fault")
  /\ UNCHANGED <<ownerVars, in_veh, reentrant, cveh, code>>

(* The memory of in_veh has been returned to the heap: it may still hold its
   last value, which ReadCounter and CountIn then see, or no longer. *)
TouchFreedObject(a) ==
  /\ pc[a] \in {"reading", "swapping"}
  /\ ~Allocated
  /\ GoTo(a, "fault")
  /\ UNCHANGED <<ownerVars, in_veh, reentrant, cveh, code>>

Handler(a) ==
  \/ FilterException(a) \/ ReadCounter(a) \/ CountIn(a)
  \/ BeginDump(a) \/ EndDump(a) \/ CountOut(a) \/ Return(a)
  \/ ExecuteFreedThunk(a) \/ TouchFreedObject(a)

(* The object is gone and no thread is in its handler. *)
Terminated ==
  /\ owner = "freed"
  /\ \A a \in Invocations : pc[a] \in {"idle", "fault"}
  /\ UNCHANGED vars

Next ==
  \/ Owner
  \/ \E a \in Invocations : Handler(a) \/ \E c \in Codes : Raise(a, c)
  \/ Terminated

Spec == Init /\ [][Next]_vars

(* The system schedules every thread, so a destructor that has begun and an
   invocation that has begun both go on; nobody has to construct or release
   a logger, or to raise an exception. *)
Fairness ==
  /\ WF_vars(Destructor)
  /\ \A a \in Invocations : WF_vars(Handler(a))

FairSpec == Spec /\ Fairness

-----------------------------------------------------------------------------
(* Properties. *)

(* Every variable has its type; the counter never leaves the range from -1
   to the number of invocations there can be. *)
TypeOK ==
  /\ owner \in Stages
  /\ veh \in BOOLEAN
  /\ thunk \in {"none", "held", "released"}
  /\ dmod \in {"none", "held", "released"}
  /\ in_veh \in -1 .. Cardinality(Invocations)
  /\ reentrant \in [Threads -> BOOLEAN]
  /\ pc \in [Invocations -> Positions]
  /\ cveh \in [Invocations -> -1 .. Cardinality(Invocations)]
  /\ code \in [Invocations -> Codes]

(* The counter is exactly the number of invocations inside, or -1: no
   increment is lost to a race between threads, no nested invocation is
   counted out twice, and a shut counter has nobody behind it. *)
CounterExact ==
  \/ in_veh = Cardinality(Inside)
  \/ in_veh = -1 /\ Inside = {}

(* While an invocation is counted in, the destructor has not got past its
   wait: the thunk the invocation will return through, the DAC module its
   dump calls into and the object it works on are all still there. *)
CountedAreSafe ==
  Inside # {} =>
    /\ owner \in {"live", "destroying", "draining"}
    /\ thunk = "held"
    /\ dmod = "held"

(* The reentrancy flag works: on each thread at most one invocation dumps,
   however the dump's own exceptions nest, and the nesting therefore ends
   at the second level. *)
NoRecursiveDump ==
  \A a, b \in Invocations :
    /\ a[1] = b[1] /\ pc[a] = "dumping" /\ pc[b] = "dumping" => a = b
    /\ pc[a] # "idle" => a[2] <= 2

(* The reentrancy flag is never left set behind a finished dump, which would
   silence the logger on that thread for good. *)
FlagNotLeaked ==
  \A t \in Threads :
    reentrant[t] => \E a \in Invocations : a[1] = t /\ pc[a] = "dumping"

(* Wherever construction stopped, the destructor gives back everything that
   had been acquired. *)
NothingLeaked ==
  owner = "freed" => ~veh /\ thunk # "held" /\ dmod # "held"

(* A counter that has been shut stays shut. *)
StaysShut == [][in_veh = -1 => in_veh' = -1]_vars

(* Once begun, the destructor gets to its end: its wait for the handlers
   is not for ever. *)
DestructionCompletes == owner = "destroying" ~> owner = "freed"

(* Once a destructor has begun, every exception offered to the handler is
   given back to the system (or the invocation faults): neither the loop that
   counts it in nor the nesting of dumps holds it for ever. *)
HandlersFinish ==
  \A a \in Invocations :
    (pc[a] # "idle" /\ owner = "destroying") ~> pc[a] \in {"idle", "fault"}

(* The counter implements the abstract door. *)
Gate == INSTANCE HandlerGate WITH
  Handlers <- Invocations, inside <- Inside, shut <- (in_veh = -1)
GateSpec == Gate!Spec

(* The destructor says "Then wait for current VEH handling to finish", and
   yields "to delay object destroying" for an exception "already fired before
   we do RemoveVectoredExceptionHandler()": the thunk outlives the invocations
   that have yet to enter through it and those that have yet to leave. *)
ThunkOutlivesHandlers ==
  \A a \in Invocations :
    pc[a] \in {"picked", "bailed", "left"} => thunk # "released"
=============================================================================
