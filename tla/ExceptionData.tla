--------------------------- MODULE ExceptionData ---------------------------
(***************************************************************************)
(* What a StackLogger keeps of the exceptions of each thread:              *)
(* HandleProcessException from its first test to the label Exit, the loop  *)
(* of exception_dumper::run over the stack frames, WriteLog, and the       *)
(* methods by which the application changes the configuration, from any    *)
(* thread at any moment, and clears the data of its own thread.            *)
(*                                                                         *)
(* Exceptions are numbered per thread in the order they are accepted.  A   *)
(* dump is the number of its exception, a log line is the number of the    *)
(* exception it was written for, and a line written twice is one line.     *)
(* The data of a thread is the thread's alone (ThreadStorage), so only the *)
(* configuration is shared.                                                *)
(***************************************************************************)
EXTENDS Integers, Sequences

CONSTANTS
  Threads,
  Depths,        \* how many managed frames are on a stack that raises
  EntryLimits,   \* arguments of put_MaximumDataEntries
  FrameLimits,   \* arguments of put_MaximumStackDepth
  MaxExceptions, \* exceptions accepted for each thread; a bound
  MaxChanges     \* changes of the configuration; a bound

ASSUME DepthsAssumption == Depths \subseteq Nat
ASSUME LimitsAssumption == EntryLimits \subseteq Int /\ FrameLimits \subseteq Int
ASSUME BoundsAssumption == MaxExceptions \in Nat /\ MaxChanges \in Nat

VARIABLES
  conf,       \* enabled, logging, max_data_entries and dconf.max_frames
  has,        \* has the thread an entry in tls
  exceptions, \* its thread_data::exceptions, the latest first
  logs,       \* its thread_data::logs
  pc,         \* where the thread stands in HandleProcessException
  limit,      \* the max_frames its dumper was given
  depth,      \* the frames there are on its stack
  frames,     \* the frames dumped so far
  (* history, for the properties *)
  accepted,   \* the exceptions accepted for the thread so far
  seen,       \* the configurations in force since the last was accepted
  outcome,    \* what became of it
  lost,       \* was a log line for it lost to lack of memory
  cleared,    \* has the application cleared anything since
  dumped,     \* dumps made since the application last called ClearData
  changes     \* changes of the configuration so far

dataVars == <<has, exceptions, logs, lost>>
workVars == <<pc, limit, depth, frames>>
historyVars == <<accepted, seen, outcome, cleared, dumped>>
vars == <<conf, dataVars, workVars, historyVars, changes>>

Working == {"preparing", "configuring", "cleaning", "connecting", "starting",
            "walking", "keeping", "trimming", "reporting"}

Configurations ==
  [enabled : BOOLEAN, logging : BOOLEAN, max_data_entries : Nat, max_frames : Nat]

Init ==
  /\ conf = [enabled |-> TRUE, logging |-> FALSE,
             max_data_entries |-> 10, max_frames |-> 3]
  /\ has = [t \in Threads |-> FALSE]
  /\ exceptions = [t \in Threads |-> <<>>]
  /\ logs = [t \in Threads |-> {}]
  /\ pc = [t \in Threads |-> "idle"]
  /\ limit = [t \in Threads |-> 0]
  /\ depth = [t \in Threads |-> 0]
  /\ frames = [t \in Threads |-> 0]
  /\ accepted = [t \in Threads |-> 0]
  /\ seen = [t \in Threads |-> {}]
  /\ outcome = [t \in Threads |-> "none"]
  /\ lost = [t \in Threads |-> FALSE]
  /\ cleared = [t \in Threads |-> FALSE]
  /\ dumped = [t \in Threads |-> 0]
  /\ changes = 0

-----------------------------------------------------------------------------
(* What a thread finds of its own exceptions.  The arrays are copies, and for
   lack of memory a call may fail and change nothing. *)

E_FAIL == 0 \* instead of a dump: exceptions are numbered from 1

get_HasData(t) == has[t] /\ exceptions[t] # <<>>

get_HasOperationLogs(t) == has[t] /\ logs[t] # {}

get_AllData(t) == IF get_HasData(t) THEN exceptions[t] ELSE <<>>

get_Data(t) == IF get_HasData(t) THEN Head(exceptions[t]) ELSE E_FAIL

get_OperationLogs(t) == IF get_HasOperationLogs(t) THEN logs[t] ELSE {}

-----------------------------------------------------------------------------
(* The configuration, from any thread. *)

Configure(c) ==
  /\ changes < MaxChanges
  /\ changes' = changes + 1
  /\ conf' = c
  /\ seen' = [t \in Threads |->
               IF pc[t] = "idle" THEN seen[t] ELSE seen[t] \cup {c}]
  /\ UNCHANGED <<dataVars, workVars, accepted, outcome, cleared, dumped>>

put_Enabled == Configure([conf EXCEPT !.enabled = ~@])

put_InternalLoggingEnabled == Configure([conf EXCEPT !.logging = ~@])

(* Mutation: any number is taken. *)
TakeAnyNumber(number) == Configure([conf EXCEPT !.max_data_entries = number])

(* A negative number is E_INVALIDARG and changes nothing. *)
put_MaximumDataEntries(number) ==
  /\ number >= 0
  /\ Configure([conf EXCEPT !.max_data_entries = number])

put_MaximumStackDepth(number) ==
  /\ number >= 0
  /\ Configure([conf EXCEPT !.max_frames = number])

Application ==
  \/ put_Enabled
  \/ put_InternalLoggingEnabled
  \/ \E number \in EntryLimits : put_MaximumDataEntries(number)
  \/ \E number \in FrameLimits : put_MaximumStackDepth(number)

-----------------------------------------------------------------------------
(* A thread clears its own data. *)

ClearData(t) ==
  /\ pc[t] = "idle"
  /\ exceptions' = [exceptions EXCEPT ![t] = <<>>]
  /\ cleared' = [cleared EXCEPT ![t] = TRUE]
  /\ dumped' = [dumped EXCEPT ![t] = 0]
  /\ UNCHANGED <<conf, has, logs, lost, workVars, accepted, seen, outcome, changes>>

ClearOperationLogs(t) ==
  /\ pc[t] = "idle"
  /\ logs' = [logs EXCEPT ![t] = {}]
  /\ cleared' = [cleared EXCEPT ![t] = TRUE]
  /\ UNCHANGED <<conf, has, exceptions, lost, workVars, accepted, seen, outcome,
                 dumped, changes>>

-----------------------------------------------------------------------------
(* A thread raises a managed exception. *)

GoTo(t, position) == pc' = [pc EXCEPT ![t] = position]

(* The flag logging is read for every line; a line for which there is no
   memory is dropped, and everything goes on. *)
WriteLog(t) ==
  /\ UNCHANGED exceptions
  /\ \/ /\ ~conf.logging
        /\ UNCHANGED <<has, logs, lost>>
     \/ /\ conf.logging
        /\ has' = [has EXCEPT ![t] = TRUE]
        /\ logs' = [logs EXCEPT ![t] = @ \cup {accepted[t]}]
        /\ UNCHANGED lost
     \/ /\ conf.logging
        /\ lost' = [lost EXCEPT ![t] = TRUE]
        /\ \E h \in {has[t], TRUE} : has' = [has EXCEPT ![t] = h]
        /\ UNCHANGED logs

(* With the logger disabled the handler leaves everything as it is. *)
HandleException(t, d) ==
  /\ pc[t] = "idle"
  /\ conf.enabled
  /\ accepted[t] < MaxExceptions
  /\ accepted' = [accepted EXCEPT ![t] = @ + 1]
  /\ depth' = [depth EXCEPT ![t] = d]
  /\ seen' = [seen EXCEPT ![t] = {conf}]
  /\ outcome' = [outcome EXCEPT ![t] = "pending"]
  /\ lost' = [lost EXCEPT ![t] = FALSE]
  /\ cleared' = [cleared EXCEPT ![t] = FALSE]
  /\ GoTo(t, "preparing")
  /\ UNCHANGED <<conf, has, exceptions, logs, limit, frames, dumped, changes>>

PrepareStorage(t) ==
  /\ pc[t] = "preparing"
  /\ has' = [has EXCEPT ![t] = TRUE]
  /\ GoTo(t, "configuring")
  /\ UNCHANGED <<conf, exceptions, logs, lost, limit, depth, frames,
                 historyVars, changes>>

(* Only a thread without data allocates here. *)
PrepareFails(t) ==
  /\ pc[t] = "preparing"
  /\ ~has[t]
  /\ GoTo(t, "reporting")
  /\ UNCHANGED <<conf, dataVars, limit, depth, frames, historyVars, changes>>

CopyConfig(t) ==
  /\ pc[t] = "configuring"
  /\ limit' = [limit EXCEPT ![t] = conf.max_frames]
  /\ frames' = [frames EXCEPT ![t] = 0]
  /\ GoTo(t, "cleaning")
  /\ UNCHANGED <<conf, dataVars, depth, historyVars, changes>>

(* Mutation: only the dumps are cleaned away. *)
CleanDumps(t) ==
  /\ pc[t] = "cleaning"
  /\ exceptions' = [exceptions EXCEPT ![t] = <<>>]
  /\ GoTo(t, "connecting")
  /\ UNCHANGED <<conf, has, logs, lost, limit, depth, frames, historyVars, changes>>

CleanOld(t) ==
  /\ pc[t] = "cleaning"
  /\ exceptions' = [exceptions EXCEPT ![t] = <<>>]
  /\ logs' = [logs EXCEPT ![t] = {}]
  /\ GoTo(t, "connecting")
  /\ UNCHANGED <<conf, has, lost, limit, depth, frames, historyVars, changes>>

CreateDac(t) ==
  /\ pc[t] = "connecting"
  /\ GoTo(t, "starting")
  /\ UNCHANGED <<conf, dataVars, limit, depth, frames, historyVars, changes>>

DacFails(t) ==
  /\ pc[t] = "connecting"
  /\ GoTo(t, "reporting")
  /\ UNCHANGED <<conf, dataVars, limit, depth, frames, historyVars, changes>>

(* The task and the stack walker of the thread, with a line for each. *)
BeginRun(t) ==
  /\ pc[t] = "starting"
  /\ WriteLog(t)
  /\ GoTo(t, "walking")
  /\ UNCHANGED <<conf, limit, depth, frames, historyVars, changes>>

(* Mutation: the loop looks at the logger's limit, not at its own copy. *)
ReachSharedLimit(t) ==
  /\ pc[t] = "walking"
  /\ frames[t] >= conf.max_frames
  /\ WriteLog(t)
  /\ GoTo(t, "keeping")
  /\ UNCHANGED <<conf, limit, depth, frames, historyVars, changes>>

ReachLimit(t) ==
  /\ pc[t] = "walking"
  /\ frames[t] >= limit[t]
  /\ WriteLog(t)
  /\ GoTo(t, "keeping")
  /\ UNCHANGED <<conf, limit, depth, frames, historyVars, changes>>

(* The loop ends with S_FALSE at the last frame. *)
DumpFrame(t) ==
  /\ pc[t] = "walking"
  /\ frames[t] < limit[t]
  /\ frames[t] < depth[t]
  /\ WriteLog(t)
  /\ frames' = [frames EXCEPT ![t] = @ + 1]
  /\ GoTo(t, IF frames[t] + 1 < depth[t] THEN "walking" ELSE "keeping")
  /\ UNCHANGED <<conf, limit, depth, historyVars, changes>>

(* A call of the DAC fails; for a stack without managed frames it must. *)
WalkFails(t) ==
  /\ \/ pc[t] = "starting"
     \/ pc[t] = "walking" /\ frames[t] < limit[t]
  /\ WriteLog(t)
  /\ GoTo(t, "reporting")
  /\ UNCHANGED <<conf, limit, depth, frames, historyVars, changes>>

KeepDump(t) ==
  /\ pc[t] = "keeping"
  /\ exceptions' = [exceptions EXCEPT ![t] = <<accepted[t]>> \o @]
  /\ dumped' = [dumped EXCEPT ![t] = @ + 1]
  /\ GoTo(t, "trimming")
  /\ UNCHANGED <<conf, has, logs, lost, limit, depth, frames, accepted, seen,
                 outcome, cleared, changes>>

(* There is no memory for the entry of the list. *)
KeepFails(t) ==
  /\ pc[t] = "keeping"
  /\ GoTo(t, "reporting")
  /\ UNCHANGED <<conf, dataVars, limit, depth, frames, historyVars, changes>>

Shortest(n, m) == IF n < m THEN n ELSE m

(* Mutation: one entry too many is removed. *)
TrimTooMuch(t) ==
  /\ pc[t] = "trimming"
  /\ exceptions' = [exceptions EXCEPT ![t] =
       SubSeq(@, 1, Shortest(Len(@), conf.max_data_entries - 1))]
  /\ outcome' = [outcome EXCEPT ![t] = "dumped"]
  /\ GoTo(t, "idle")
  /\ UNCHANGED <<conf, has, logs, lost, limit, depth, frames, accepted, seen,
                 cleared, dumped, changes>>

(* Mutation: nothing is removed. *)
TrimNothing(t) ==
  /\ pc[t] = "trimming"
  /\ outcome' = [outcome EXCEPT ![t] = "dumped"]
  /\ GoTo(t, "idle")
  /\ UNCHANGED <<conf, dataVars, limit, depth, frames, accepted, seen,
                 cleared, dumped, changes>>

TrimOld(t) ==
  /\ pc[t] = "trimming"
  /\ exceptions' = [exceptions EXCEPT ![t] =
       SubSeq(@, 1, Shortest(Len(@), conf.max_data_entries))]
  /\ outcome' = [outcome EXCEPT ![t] = "dumped"]
  /\ GoTo(t, "idle")
  /\ UNCHANGED <<conf, has, logs, lost, limit, depth, frames, accepted, seen,
                 cleared, dumped, changes>>

ReportFailure(t) ==
  /\ pc[t] = "reporting"
  /\ WriteLog(t)
  /\ outcome' = [outcome EXCEPT ![t] = "failed"]
  /\ GoTo(t, "idle")
  /\ UNCHANGED <<conf, limit, depth, frames, accepted, seen, cleared, dumped,
                 changes>>

Work(t) ==
  \/ PrepareStorage(t) \/ PrepareFails(t) \/ CopyConfig(t) \/ CleanOld(t)
  \/ CreateDac(t) \/ DacFails(t)
  \/ BeginRun(t) \/ ReachLimit(t) \/ DumpFrame(t) \/ WalkFails(t)
  \/ KeepDump(t) \/ KeepFails(t) \/ TrimOld(t) \/ ReportFailure(t)

Next ==
  \/ Application
  \/ \E t \in Threads :
       \/ Work(t)
       \/ \E d \in Depths : HandleException(t, d)
       \/ ClearData(t) \/ ClearOperationLogs(t)

Spec == Init /\ [][Next]_vars

-----------------------------------------------------------------------------
(* Properties. *)

(* Every variable has its type; no limit is ever negative. *)
TypeOK ==
  /\ conf \in Configurations
  /\ has \in [Threads -> BOOLEAN]
  /\ exceptions \in [Threads -> Seq(Nat)]
  /\ logs \in [Threads -> SUBSET Nat]
  /\ pc \in [Threads -> Working \cup {"idle"}]
  /\ limit \in [Threads -> Nat]
  /\ depth \in [Threads -> Nat]
  /\ frames \in [Threads -> Nat]
  /\ accepted \in [Threads -> Nat]
  /\ seen \in [Threads -> SUBSET Configurations]
  /\ outcome \in [Threads -> {"none", "pending", "dumped", "failed"}]
  /\ lost \in [Threads -> BOOLEAN]
  /\ cleared \in [Threads -> BOOLEAN]
  /\ dumped \in [Threads -> Nat]
  /\ changes \in Nat

(* The application never sees the dump or the log lines of an exception that
   came before the last one the logger accepted, also when the dump of the
   last one failed: what there is belongs to the exception it is handling. *)
LatestOnly ==
  \A t \in Threads :
    pc[t] \notin {"preparing", "configuring", "cleaning"} =>
      /\ get_AllData(t) \in {<<>>, <<accepted[t]>>}
      /\ get_OperationLogs(t) \subseteq {accepted[t]}

(* A finished walk has the frames of one configuration that was in force
   while the exception was handled, whatever was changed meanwhile. *)
OneConfiguration ==
  \A t \in Threads : pc[t] = "keeping" =>
    \E c \in seen[t] : frames[t] = Shortest(depth[t], c.max_frames)

(* At the end of the handler no more is kept than the maximum that was in
   force at some moment while it ran. *)
TrimmedToMaximum ==
  \A t \in Threads : pc[t] = "idle" /\ get_HasData(t) =>
    \E c \in seen[t] : Len(get_AllData(t)) <= c.max_data_entries

(* Nothing is lost in silence: unless the application cleared it, an accepted
   exception that was dumped is there if there was room for it throughout,
   and its log lines are there if logging was on throughout. *)
NoSilentLoss ==
  \A t \in Threads : pc[t] = "idle" /\ accepted[t] > 0 /\ ~cleared[t] =>
    /\ outcome[t] = "dumped" /\ (\A c \in seen[t] : c.max_data_entries > 0)
         => get_Data(t) = accepted[t]
    /\ ~lost[t] /\ (\A c \in seen[t] : c.logging) => accepted[t] \in get_OperationLogs(t)

(* "The maximum number of exception data that will be keep": with room for
   two, two dumps the application has not cleared are both there. *)
HistoryKept ==
  \A t \in Threads :
    pc[t] = "idle" /\ dumped[t] >= 2 /\ changes = 0 => Len(get_AllData(t)) >= 2
=============================================================================
