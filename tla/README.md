# StackLogger in TLA+

StackLogger is a COM component that is loaded into a .NET process, installs a
vectored exception handler, and, whenever a managed exception is raised, dumps
the managed stack of the raising thread, with the values of the arguments, into
data that the application reads back through `IStackLogger`. It runs in the
worst of places: inside an exception, on any thread, next to all the other
threads, in memory that belongs to a runtime it looks at from below.

This directory models its own logic, checks the models with TLC on small
instances, and proves the safety properties with TLAPS for all values of the
constants. `PROJECT.json` lists the runs, the properties with a mutation that
breaks each, the source lines each definition stands for, the hazards of the
code and the theorems. Paths below are relative to
`src/Jetabroad.StackLogger.Logger/`, those of C# files to
`src/Jetabroad.StackLogger.Api/`.

    tlc -config ThreadStorage.cfg MCThreadStorage.tla     # a run
    tlapm ExceptionDataProofs.tla                         # the proofs of a module

## 1. The system

| Part | State it keeps | Operations |
|---|---|---|
| `StackLogger` as an object (`StackLogger.cpp` 14-69, 396-425) | `veh`, `vthunk`, `dmod`, `in_veh`; the `thread_local` flag `reentrant` | constructor, `FinalConstruct`, destructor, `VectoredExceptionHandler` |
| `StackLogger` as a store (`StackLogger.cpp` 71-394, 427-470) | `enabled`, `logging`, `max_data_entries`, `dconf`; per thread `exceptions` and `logs` | getters and setters, `ClearData`, `ClearOperationLogs`, `HandleProcessException`, `WriteLog` |
| `thread_storage` (`ThreadLocalStorage.h`) and `GlobalEvents` | a map from thread identifier to data per logger, its `shared_mutex`; the process-wide list of callbacks and its `shared_mutex` | `get_value`, `set_value`, `clear_value`; `listen_thread_exit`, `unsubscribe`, `raise_thread_exit` |
| `exception_dumper` | the copied configuration; nothing between dumps | `run`, `dump_frame`, `dump_method_argument`, `dump_object` and what it calls |
| `callback_thunk` | a page of generated code | generation, destruction |
| `DAC`, `module_handle` | the handle of `mscordacwks.dll` | load, unload, create an instance |
| `DACTargetProvider` | the exception in hand | what the DAC asks of the process: memory read, written, allocated and freed, the machine, the context of the exception |
| `Main` | the ATL module and its lock count, in which every object takes part | `DllMain`, `DllGetClassObject`, `DllCanUnloadNow` |
| Value objects (`*Value`, `FrameData`, `StackData`, `ObjectDescriptor2`, `OperationLog`) | what they were built with | getters |
| `Jetabroad.StackLogger.Api` (C#) | per call the activation context and its cookie; per thread, in Windows, the stack of active contexts | `Install`, `InstallForWeb`, `Dispose` and finalizers |

How they interact. Windows calls the thunk, the thunk calls
`VectoredExceptionHandler`, which counts itself in `in_veh` and calls
`HandleProcessException`; that takes the thread's data from `thread_storage`,
copies the dumper's configuration, empties the old data, makes a DAC instance
whose questions go to a `DACTargetProvider`, and runs an `exception_dumper`.
The application's threads call the setters and getters at any time, and release
the logger at any time. `DllMain` calls `raise_thread_exit` for every thread
that ends, which calls into the `thread_storage` of every logger. The installer
makes the logger's class known to COM by an activation context of its own for
the time of one creation; its variant for web applications first asks COM to
unload the module if nothing uses it, and copies a new file over the old.

Which behaviours are hard, and what makes each part correct:

- *Counting against destruction.* Invocations that overlap and nest, against a
  destructor that takes the handler off the list, spins until `in_veh` is 0 and
  sets it to -1. Nothing an invocation stands on may go while it is counted; the
  counter must be exact; the destructor and the invocations must come to an end.
- *Re-entry.* A dump raises managed exceptions itself; they must not be dumped,
  and the flag that prevents it must never be left set.
- *Identifiers used again.* Windows gives the identifier of a thread that ended
  to a new one, which must not find the data of the old, whichever logger is
  coming or going meanwhile; the two kinds of lock must not deadlock, and no map
  may be raced.
- *Configuration that changes under a dump*, and dumps that fail at any step:
  the application must not take old data for new, and must not lose the new in
  silence.
- *A heap that changes under the dump*, values that cannot be read, values that
  hold themselves: one bad value must cost one value.
- *Machine code* with a stack layout by hand.
- *Memory that is released while it is read.*
- *Unloading.* COM unmaps the module when its lock count is zero. The count must
  be that of the objects, whatever order they come and go in, and no interface
  may point into memory that is gone; an object leaves the count before it has
  been destroyed.
- *Calls cut short.* A call of the installer may fail at each of its steps, and a
  thread abort may come between them; what the two `using` blocks miss is left to
  finalizers, on another thread. A context must be released exactly once, and the
  next call on the thread must find its own context on top.

## 2. Modules

| Modules | Of the code |
|---|---|
| `VectoredHandler`, abstract `HandlerGate` | the object's life and the handler |
| `ThreadStorage`, abstract `ThreadCells` | `thread_storage` and `GlobalEvents` |
| `ExceptionData` | the store, with the frame loop of `exception_dumper::run` |
| `ValueWalk` | `dump_frame` and the recursion over values |
| `ThunkCode` | `create_x64_thunk` and the code it makes |
| `DataTarget` | `DACTargetProvider` |
| `Activation` | `StackLoggerInstaller`, `Win32ActivationContext`, `ActivationCookie` |
| `Unloading`, which extends `Activation` | the lock count of the module and `DllCanUnloadNow`, with the lives of loggers, dumps and handlers as far as they count |
| `MC...` | values of the constants, nothing else |
| `...Proofs` | theorems and proofs |

**VectoredHandler.** `owner` walks through the statements of the constructor,
`FinalConstruct` and the destructor, and then through the destruction of the
members in the reverse of the order `StackLogger.h` 63-73 declares them, which
the header calls significant: thunk, DAC module, storage. `FinalConstruct` may
fail after each of its steps. An invocation is a pair of a thread and a depth;
its `pc` follows the handler instruction by instruction where it matters: the
read of `in_veh` (408), the compare-exchange (412), the dump under the flag, the
decrement (422), the way back through the thunk. `picked` is an exception the
system has decided to call the handler for, but has not yet called it for.
Whatever is executed or read after it was released leads to `fault`.
`HandlerGate` is the door the counter is there to be: handlers go in and out,
it is shut when nobody is in, and never opens.

**ThreadStorage.** One action for each section under the exclusive lock of the
callback list; two for each section under the lock of a storage, so that a map
is seen being changed. `raise_thread_exit` holds the list's lock shared from
`exiting` to the end and takes the storages' locks one by one in any order of
the list. The entry a thread makes is the number of the thread among those that
had its identifier, so that a stale entry shows. `ThreadCells` is what it is all
for: one cell per thread and logger, filled only by its own thread, with that
thread's number, while the thread runs and the storage is in use; emptied with
either; and a thread can start only when the cells under its identifier are empty.
The mapping takes the entries of a thread that is in its end for gone, since in
`DllMain` it looks nothing up; an entry that is still there when the end is over
is in its cell again, which no step of `ThreadCells` does.

**ExceptionData.** One action for each step of `HandleProcessException` between
which another thread can change the configuration, or which can fail. Exceptions
are numbered as they are accepted; a dump and a log line are the number of their
exception. Data is per thread, which is what `ThreadStorage` shows, and only the
configuration is shared, so the other threads appear as setters that may act
between any two steps. What the application sees is what `get_AllData`,
`get_Data` and `get_OperationLogs` return, and the properties speak of that.
`seen` collects the configurations in force while an exception is handled.

**ValueWalk.** The recursion of `dump_object` is a machine with a stack of
activations, so that other threads can store to arrays between any two of its
steps, any call of the DAC can fail, and the thread's stack can run out. A
dumped value is the sequence of its parts; an array says how many values follow
it. What is dumped is compared with `Image`, a recursive function on the heap.

**ThunkCode.** `create_x64_thunk(n)` is the sequence of instructions the
generator emits for `n` arguments, and the rest of the module executes it on as
much of an x64 as it needs, with a callback that may write to its home space and
its stack arguments and lose every volatile register, as the calling convention
allows. Words are what they stand for, addresses are numbers. `MostArguments` is
the largest count asked for, a byte; the stack is as large as the thunk for it
needs.

**DataTarget.** `memcpy` moves the bytes in any order and faults at the first it
cannot access, while other threads store values and change protections. A
guarded page raises another exception than the one the filter takes. The other
requests move no bytes and are one step each: `AllocVirtual` and `FreeVirtual`
change what may be done with whole pages, the rest answer. The context is that of
the exception whichever thread the DAC asks about, and is the value of nothing
here; what the DAC concludes from it is outside.

**Activation.** `step` walks a call through `StackLoggerInstaller` and the two
nested `using` blocks of `Install`: context created, activated, cookie wrapped,
body, cookie given back, context released. Each of them can fail. `CutCreation`,
`CutBeforeUsing` and `CutActivation` are thread aborts and lacks of memory at the
places where they reach managed code outside a `finally`: on the return from
`CreateActCtx`, between the constructor and the `try`, and between
`ActivateActCtx` and the inner `try`. `contexts` and `cookies` are the objects
whose finalizer is still owed. `frames` is the stack of active contexts that
Windows keeps for each thread; a cookie that is not on top of the stack of the
calling thread is refused, so that the finalizer of a cookie throws
(`ActivationCookie.cs` 38) and ends the process. The calls of one thread do not
overlap; those of different threads do.

**Unloading.** The steps of `Activation`, with what they do to the native module,
and with the other users of the module. `locks` is changed where objects come and
go, and `LocksExact` says what it should be: class factories that COM holds,
loggers, dumps that the storage alone holds, dumps the application holds, and the
`DACTargetProvider` of each dump in progress. The set of objects one dump stands
for (stack, frames, values) comes and goes together and counts as one, and log
entries behave as dumps do. `ReleaseLogger` is the point of the module: the
destructor of `CComObject` takes the object out of the count, and only then does
the destructor of the class remove the handler and wait, release the dumps of the
storage (`DestroyLogger`) and destroy the rest (`FinishDestruction`). A handler
goes through the statements between which objects count themselves in or out:
the old dump goes (348), the target comes (352), the new dump comes (363) and may
be trimmed away again (377), the target goes at the end of the block, the
invocation leaves `in_veh` (422), and only then does it return. `Counted` are the
positions in which `in_veh` counts it. `EndThread` clears the
data of a thread under the loader lock, without which nothing is unmapped.
`CopyModule` needs the module to be unmapped, because Windows does not overwrite
the file of a mapped image: "Unload old logger first." (`StackLoggerInstaller.cs`
49) is a request, and with a logger alive the copy fails. Invocations that
Windows has picked and that have not entered yet are the matter of
`VectoredHandler`, and so is the thunk; here a handler runs from `EnterHandler`
to `LeaveHandler`.

## 3. Runs

| Run | Shows | Bounds | Distinct states |
|---|---|---|---|
| `handlers` | counting, nesting, the flag, release of everything; `HandlerGate` implemented; destruction and handlers end | 2 threads, nesting 2, two exception codes | 481,395 |
| `thunk_outlived` | *violation*, finding 1 | as above | |
| `storage` | `ThreadCells` implemented: a thread finds its own data or nothing; no stale data, no callback into a storage that is going, no race, no deadlock, ends are reached | 2 identifiers used twice each, 2 loggers | 210,872 |
| `data_safety` | latest data only, one configuration per dump, trimming, no silent loss | 1 thread, 2 exceptions, stacks of 0, 2 and 4 frames, setters called with -1, 0 and 1, 3 changes | 284,000 |
| `history_kept` | *violation*, finding 2 | as above, 1 change | |
| `values` | dumped values are whole, exact without stores, and the dump ends | heaps of 5 objects in 72 shapes, cycles and sharing among them, 3 argument lists, 1 store, 5 activations | 91,276 |
| `value_failures` | *violation*, finding 3 | as above | |
| `thunk` | arguments forwarded, stack aligned, caller restored | 0 to 4 arguments, any writes of the callback to its space | 442 |
| `thunk_many_arguments` | *violation*, finding 4 | 5 and 6 arguments | |
| `data_target` | success is for all bytes and their count and for nothing less (finding 6), the count comes before the write | 3 addresses, requests of 0 to 2 bytes, 2 changes | 1,293,968 |
| `unloading` | the lock count is exact and keeps the module under every interface; which invocations unmapping can hit; contexts nest, are released once, and are released | 2 calls, on one thread or on two, 1 raising thread | 228,620 |
| `unloaded_in_use` | *violation*, finding 5 | as above | |

Why the bounds are enough. *Nesting*: the reachable states are the same in number
for a bound of two and of three, since an invocation nested in a dump does not
dump; `NoRecursiveDump` says so, and the bound does not bind. Symmetry is not
used, because the run has liveness properties.
*Two threads*: one to be between a read and an exchange, one to spoil it; the
destructor is a third actor. *Identifiers twice*: one thread to leave data, one
to find it. *Changes*: one of each setter's effects at a place of its own in one
exception; the proofs have no bound. *Five activations*: the heaps without
cycles are at most four deep, so that the stack runs out only on an array that
reaches itself. *Arguments*: `spills` and `fetches` treat up to four and three
alike, and four is the first count that pushes a word; the proofs are for every
count. *Two calls*: one to have a
logger, or to leave a context behind, and one to unload the module, or to find
it; every start puts them on one thread or on two. *One raising thread*: a
handler only meets the ends of loggers here; handlers that meet each other are in
`handlers`. The proofs of both have no bound.

`ValueWalk` and `ThunkCode` stop when there is nothing more to do, and
`Unloading` when its calls are used up or the process has ended, so their runs do
not look for deadlocks. The others either have an explicit step for the
end, or can always take another request.

### Fairness

- `VectoredHandler`: weak fairness of the destructor and of each invocation.
  Every thread is scheduled; nobody has to raise an exception or release a
  logger. The compare-exchange loop needs no more, because the destructor is the
  actor of the last exchange and shut is shut.
- `ThreadStorage`: weak fairness for the steps that need no lock; strong
  fairness for a thread or destructor that has begun and waits for a lock, since
  the lock behind `std::shared_mutex` on Windows queues its waiters. No thread
  has to begin anything.
- `ValueWalk`: weak fairness of the dumping thread.
- `Unloading`: weak fairness of each call that has begun, since COM and the
  loader come back from what they are asked, and of the finalizers, which the
  runtime runs at the latest when the application domain is unloaded. Nobody has
  to begin a call, abort a thread, raise an exception or release anything.

## 4. Findings

1. *The wait is not for the thunk* (`StackLogger.cpp` 422, 36). The destructor
   waits "for current VEH handling to finish", but an invocation leaves `in_veh`
   before it has returned through the thunk, whose page may be freed under it; and
   the last `Sleep(0)`, there for an exception "already fired before we do
   RemoveVectoredExceptionHandler()", promises nothing for a thread that is
   scheduled later and enters a freed thunk. `ThunkOutlivesHandlers` is both.
2. *No history* (348). The maximum number of entries is ten, the interface
   speaks of the number "of exception data that will be keep", and every dump
   begins by emptying the list.
3. *A failure of one value may cost the dump* (`ExceptionDumper.cpp` 303). The
   handler around an argument takes `CAtlException` only; `bad_alloc` and a stack
   overflow go past it.
4. *The thunk for five arguments and more* (`CallbackThunk.cpp` 126) forwards
   words that are not the arguments. The logger makes thunks for one argument
   only. For an even number of arguments from four on the stack is also not
   aligned at the call; `CallAligned` is stated for the others.
5. *The module is unmapped under the wait* (`StackLoggerInstaller.cs` 50). A
   logger is out of the module's lock count before its destructor waits "for
   current VEH handling to finish" (`StackLogger.cpp` 30). `InstallForWeb` asks
   COM to unload with a delay of zero, `DllCanUnloadNow` says yes (`Main.cpp` 37),
   and the code of the destructor and of the handling it waits for goes. It takes
   a second call on another thread meanwhile. `HeldLoggersIntact` bounds the
   damage: an invocation that `in_veh` counts is hit only if its logger is waiting
   for it or about to, and not while its target exists. What else may be hit has
   left every count: a logger or a dump in its destructor, and a handler on the
   way back from the decrement.
6. *A part is refused* (`DACTargetProvider.cpp` 89, 110). A read or write whose
   memory ends part way has moved bytes and is answered with `E_ACCESSDENIED` and
   without a count. The interface says "If any bytes can be processed the call is
   considered successful" (`clrdata.idl` 87-88). `AllOrNothing`, which the run
   `data_target` checks and which is proved, is what the code does: it answers S_OK
   exactly when all the bytes have been moved and counted. It holds because the code
   departs from the interface here, so no property is violated.

## 5. Proofs

All theorems hold for any values of the constants that satisfy the assumptions
next to them: finite `Threads`, natural bounds, `CLR` among the codes, heaps
whose references have one referent, and the like. Each is `Spec => []IInv`, from
`Init => IInv` and one lemma per group of actions, followed by the properties
that `IInv` implies.

- **VectoredHandlerProofs** (eight theorems). `CounterExact` is not inductive:
  the step that shuts the counter needs to know that the destructor is there only
  once, and the exchange that the value compared is no -1. `IInv` adds what each
  stage of the owner says about the counter, the list, thunk and module
  (`OwnerInv`), that an invocation exists only after installation (`ActiveInv`),
  that the value held for the exchange is not -1 (`SwapInv`), that the flag is
  exactly "a dump of this thread is in progress" (`FlagInv`), that there is one
  such dump (`UniqueInv`), and that below each nested invocation lies a dump
  (`NestInv`). Cardinality facts come from `FiniteSetTheorems`. The step
  simulation of `HandlerGate` gives `Spec => GateSpec`.
- **ThreadStorageProofs** (six). `EntryInv` is the point: in every listed
  storage an entry is of the present holder of the identifier, is gone once the
  callback has been made, and is gone when the thread is. It is inductive
  because a storage that is listed is fresh (`FreshInv`), its users keep it
  alive (`UsersInv`) and a thread that inserts had nothing (`MissingInv`).
  `ImplementsCells` maps a cell to the entry a thread can find, the storages in
  use to those that are `live`, and the running threads to those not in their end
  or past it. That each reuse of an identifier is a `ThreadStarts`, which wants
  empty cells, is `EntryInv` for ended threads; that each insertion is a `Fill`, of
  an empty cell in a storage in use, is `MissingInv` and `UsersInv`.
- **ExceptionDataProofs** (five). `DataInv`, `SeenInv`, `WalkInv`, `LogInv` and
  `KeptInv` say, position by position, which entries and lines there are, that
  the configuration in force has been seen, which limit the walk runs under, and
  what the trimming has left.
- **DataTargetProofs** (three). Requests that move no bytes share one lemma.
  `OrderInv` (a read copies and then counts, a write counts and then copies),
  `MovedInv` and `HeldInv` (what was moved has been in memory), `AnswerInv`.
- **ValueWalkProofs** (three). Type correctness, with the bound on the stack, needs
  that references keep their one referent under the stores of others
  (`ReferencesHold`). For `ValuesWhole` the invariant `WholeInv` is a balance: what
  the activations on the stack still have to dump (`Owed`: an activation that has
  not begun owes one value, one in the middle of an array the elements left) is what
  the parts dumped so far leave `Missed`. For `ValuesExact`, where nothing has been
  stored, `Walked` is an account of those parts: each activation is of the element
  the one below it has reached (`Links`), and the parts are the pieces of all of them
  joined from the bottom of the stack up (`Joined`, `Sofar`). `Missing`, `UpTo` and
  `Images` are recursive functions. That each exists and is the only one with its
  equations (`RecursionExists`) is shown by induction over a set of naturals
  (`Induction`), which comes from their well-foundedness and needs no parameter.
- **ThunkCodeProofs** (four). The length of the code depends on the number `n` of
  arguments. `Layout` says which instruction is at which place of it, `Where` reads
  that backwards. `ThunkInv` then gives the stack pointer as a function of the place
  (`Sp`), says that the frame pointer is set between the prolog and its end, and
  that the return address and the caller's frame are where the prolog put them,
  which neither the arguments put aside, nor the words pushed, nor the space of the
  callback reach. Type correctness, `CallAligned` and `CallerRestored` hold for
  every `n` a byte can give. `ArgumentsForwarded` is false from five on (finding 4),
  and the theorem is of the thunks for no more than four: `Carried` follows each
  argument from its register to the place it is put aside in, and from there to the
  next register, or onto the stack.
- **ActivationProofs** (three). `ReleaseInv` counts, for each step of a call, the
  releases so far against the finalizer that is owed, so that `Dispose` and the
  finalizer cannot both release. `StackInv` describes the stack of each thread: a
  call in its `using` is on top of it (`OnTop`), what lies below belongs to calls
  that were cut short (`Below`), no two calls of a thread are running
  (`Alternating`), and a cookie is left to its finalizer only after such a cut
  (`Refused`). With that a pop always pops the caller's own.
- **UnloadingProofs** (seven). The composition implements `ActivationSpec`: each
  step is a step of the installer or leaves its variables alone, and a step that
  is shared is only restricted. What is safe in `Activation` is therefore safe in the
  whole system, and is not proved twice. `ModuleInv` adds to `LocksExact` that
  what is counted keeps the module mapped (`Kept`), and so does code that runs in
  it until something is torn (`Mapped`); that a dump is shared only while the
  application holds it (`Shared`); and that the destructor of a counted
  invocation's logger is no further than its wait, and no dump stored where one is
  being made (`Handling`). An unmapping needs a count of zero, so by `LocksExact` no
  object: no target, and no logger that is not in its destructor, which with
  `Handling` is `HeldLoggersIntact`. How each set grows and shrinks by one, and a cleared set by its
  number, comes from `FiniteSetTheorems`.

Model-checked only: liveness (`DestructionCompletes`, `HandlersFinish`,
`ThreadsExit`, `StoragesDie`, `DumpEnds`, `ContextsReleased`), which TLAPS does
not do. Every invariant and every safety property of steps that a passing run
checks is stated by a theorem, `ArgumentsForwarded` with the bound above.

## 6. Not modelled

- The value objects: written before anyone else has them, and read-only then.
- Text: names of types and methods, formats of log lines. A log line is known
  by the exception it was written for.
- The failure of `RemoveVectoredExceptionHandler` in the destructor
  (`StackLogger.cpp` 27-28) and that of `FreeLibrary` (`ModuleHandle.cpp` 45-46).
  Both throw out of a destructor, which ends the process: `UninstallHandler` and
  `UnloadDac` are the calls that succeed, and what `DestructionCompletes` says
  is said of those.
- The log lines that the requests of the DAC write while it is created and used
  (`DACTargetProvider.cpp`): `CreateDac` of `ExceptionData` writes none. They are
  further lines of the exception in hand, and leave `NoSilentLoss`, which asks for
  an entry or a line, the harder case.
- What stands in the answers of `DACTargetProvider` to questions that move no
  bytes, and the sizes and kinds that `AllocVirtual` and `FreeVirtual` pass on;
  nor that memory that is committed anew reads as zero.
- The attachment of the module to the process (`Main.cpp` 54-70): its failure is
  one of the failures of a creation.
- A null argument of `InstallForWeb`, which is refused before anything happens,
  and what the paths are.
- What the CLR does: the DAC answers or fails, managed threads store to arrays;
  objects that the collector moves during a dump are not modelled.
- Interface definitions and build files.
- Floating-point arguments of thunks: they go through xmm registers, in the same
  places of the same layout. A 32-bit build: the source stops it with `#error`.

## 7. Plan

Done, in this order, the most important first:

1. `HandlerGate`, `VectoredHandler`: the life of the object against its handler,
   with safety and progress in one run.
2. `ThreadCells`, `ThreadStorage`: per-thread data against ends of threads.
3. `ExceptionData`: what is kept of an exception.
4. `ValueWalk`: values against failures and other threads.
5. `ThunkCode`: the generated code.
6. `DataTarget`: what the DAC asks.
7. `Activation`: contexts and cookies under `Dispose`, finalizers, failures and
   aborts.
8. `Unloading`: the lock count, composed with `Activation` and with the objects
   that count.

Left:

9. `Logger`: `VectoredHandler`, `ThreadStorage` and `ExceptionData` composed. What
   they assume of each other is small: that the storage outlives the handler that
   fills it is already in `VectoredHandler`, where a dump that reads a released
   member is a fault; that a thread in its handler does not end is left.
10. Theorems: those of 9.
