------------------------ MODULE ExceptionDataProofs ------------------------
(***************************************************************************)
(* Proofs about ExceptionData, for any number of threads, any stacks, any  *)
(* arguments of the setters and any number of exceptions and changes: what *)
(* a thread finds is of the last accepted exception, was dumped under one  *)
(* configuration, is no more than the maximum, and is not lost in silence. *)
(***************************************************************************)
EXTENDS ExceptionData, SequenceTheorems, TLAPS

-----------------------------------------------------------------------------
(* The inductive invariant. *)

(* Between the clearing of the old data and the keeping of the new. *)
Cleaned == {"connecting", "starting", "walking", "keeping", "reporting"}

(* Old data is gone once it has been cleaned away, and never comes without
   an entry in tls. *)
DataInv(t) ==
  /\ ~has[t] => exceptions[t] = <<>> /\ logs[t] = {}
  /\ pc[t] \in (Cleaned \cup {"configuring", "cleaning", "trimming"}) \ {"reporting"}
       => has[t]
  /\ pc[t] \in Cleaned => exceptions[t] = <<>>
  /\ pc[t] = "trimming" => exceptions[t] = <<accepted[t]>>
  /\ pc[t] = "idle" => exceptions[t] \in {<<>>, <<accepted[t]>>}
  /\ pc[t] \in Cleaned \cup {"trimming", "idle"} => logs[t] \subseteq {accepted[t]}

(* The configuration in force has been seen by everyone in the handler. *)
SeenInv(t) == pc[t] # "idle" => conf \in seen[t]

(* The dumper's copy of the limit, and how far the walk has come. *)
WalkInv(t) ==
  /\ pc[t] \in {"cleaning", "connecting", "starting", "walking", "keeping"} =>
       \E c \in seen[t] : limit[t] = c.max_frames
  /\ pc[t] \in {"cleaning", "connecting", "starting"} => frames[t] = 0
  /\ pc[t] = "walking" => frames[t] <= depth[t] /\ frames[t] <= limit[t]
  /\ pc[t] = "keeping" => frames[t] = Shortest(depth[t], limit[t])

(* Where a line for the last accepted exception has been due. *)
LineDue(t) ==
  \/ pc[t] \in {"walking", "keeping", "trimming"}
  \/ pc[t] = "idle" /\ accepted[t] > 0 /\ ~cleared[t]

LogInv(t) ==
  LineDue(t) /\ ~lost[t] /\ (\A c \in seen[t] : c.logging) => accepted[t] \in logs[t]

(* What the trimming left. *)
KeptInv(t) ==
  pc[t] = "idle" =>
    /\ exceptions[t] # <<>> => \E c \in seen[t] : Len(exceptions[t]) <= c.max_data_entries
    /\ /\ accepted[t] > 0 /\ ~cleared[t] /\ outcome[t] = "dumped"
       /\ \A c \in seen[t] : c.max_data_entries > 0
       => exceptions[t] = <<accepted[t]>>

ThreadInv(t) == DataInv(t) /\ SeenInv(t) /\ WalkInv(t) /\ LogInv(t) /\ KeptInv(t)

IInv == TypeOK /\ \A t \in Threads : ThreadInv(t)

USE DEF dataVars, workVars, historyVars, GoTo

-----------------------------------------------------------------------------
(* Trimming a list of one. *)

LEMMA TrimOne ==
  ASSUME NEW x \in Nat, NEW m \in Nat
  PROVE  SubSeq(<<x>>, 1, Shortest(Len(<<x>>), m)) = IF m > 0 THEN <<x>> ELSE <<>>
<1>1. CASE m > 0
  <2>1. Shortest(Len(<<x>>), m) = 1
    BY <1>1 DEF Shortest
  <2>2. SubSeq(<<x>>, 1, 1) = <<x>>
    <3>1. <<x>> \in Seq(Nat) /\ Len(<<x>>) = 1
      OBVIOUS
    <3> QED
      BY <3>1, SubSeqFull
  <2> QED
    BY <1>1, <2>1, <2>2
<1>2. CASE m = 0
  <2>1. Shortest(Len(<<x>>), m) = 0
    BY <1>2 DEF Shortest
  <2>2. SubSeq(<<x>>, 1, 0) = <<>>
    BY SubSeqEmpty
  <2> QED
    BY <1>2, <2>1, <2>2
<1> QED
  BY <1>1, <1>2

LEMMA ConfType ==
  ASSUME TypeOK
  PROVE  /\ conf.max_data_entries \in Nat /\ conf.max_frames \in Nat
         /\ conf.logging \in BOOLEAN /\ conf.enabled \in BOOLEAN
BY DEF TypeOK, Configurations

(* A thread whose own variables do not change, under the same configuration. *)
LEMMA Untouched ==
  ASSUME NEW t \in Threads, ThreadInv(t), UNCHANGED conf,
         has'[t] = has[t], exceptions'[t] = exceptions[t], logs'[t] = logs[t],
         pc'[t] = pc[t], limit'[t] = limit[t], depth'[t] = depth[t],
         frames'[t] = frames[t], accepted'[t] = accepted[t], seen'[t] = seen[t],
         outcome'[t] = outcome[t], lost'[t] = lost[t], cleared'[t] = cleared[t]
  PROVE  ThreadInv(t)'
BY DEF ThreadInv, DataInv, SeenInv, WalkInv, LogInv, LineDue, KeptInv

-----------------------------------------------------------------------------
(* The configuration changes. *)

LEMMA ConfigureStep ==
  ASSUME IInv, NEW c \in Configurations, Configure(c)
  PROVE  IInv'
<1> USE DEF IInv
<1>1. /\ conf' = c /\ UNCHANGED <<has, exceptions, logs, lost, pc, limit, depth, frames>>
      /\ UNCHANGED <<accepted, outcome, cleared, dumped>>
  BY DEF Configure
<1>2. /\ seen' \in [Threads -> SUBSET Configurations]
      /\ \A t \in Threads :
           seen'[t] = IF pc[t] = "idle" THEN seen[t] ELSE seen[t] \cup {c}
  BY DEF Configure, TypeOK
<1>3. changes' \in Nat
  BY DEF Configure, TypeOK
<1>4. TypeOK'
  BY <1>1, <1>2, <1>3 DEF TypeOK
<1>5. ASSUME NEW t \in Threads
      PROVE  ThreadInv(t)'
  <2> USE DEF ThreadInv
  <2>1. DataInv(t)'
    BY <1>1 DEF DataInv
  <2>2. SeenInv(t)'
    BY <1>1, <1>2 DEF SeenInv
  <2>3. WalkInv(t)'
    BY <1>1, <1>2 DEF WalkInv
  <2>4. LogInv(t)'
    BY <1>1, <1>2 DEF LogInv, LineDue
  <2>5. KeptInv(t)'
    BY <1>1, <1>2 DEF KeptInv
  <2> QED
    BY <2>1, <2>2, <2>3, <2>4, <2>5
<1> QED
  BY <1>4, <1>5

LEMMA ApplicationStep ==
  ASSUME IInv, Application
  PROVE  IInv'
<1> USE DEF IInv
<1>1. \E c \in Configurations : Configure(c)
  <2>1. CASE put_Enabled
    <3>1. [conf EXCEPT !.enabled = ~@] \in Configurations
      <4> DEFINE b == ~conf.enabled
      <4>1. b \in BOOLEAN
        OBVIOUS
      <4>2. [conf EXCEPT !.enabled = b] \in Configurations
        <5> HIDE DEF b
        <5> QED
          BY <4>1 DEF TypeOK, Configurations
      <4> QED
        BY <4>2
    <3> QED
      BY <2>1, <3>1 DEF put_Enabled
  <2>2. CASE put_InternalLoggingEnabled
    <3>1. [conf EXCEPT !.logging = ~@] \in Configurations
      <4> DEFINE b == ~conf.logging
      <4>1. b \in BOOLEAN
        OBVIOUS
      <4>2. [conf EXCEPT !.logging = b] \in Configurations
        <5> HIDE DEF b
        <5> QED
          BY <4>1 DEF TypeOK, Configurations
      <4> QED
        BY <4>2
    <3> QED
      BY <2>2, <3>1 DEF put_InternalLoggingEnabled
  <2>3. ASSUME NEW n \in EntryLimits, put_MaximumDataEntries(n)
        PROVE  \E c \in Configurations : Configure(c)
    <3>1. [conf EXCEPT !.max_data_entries = n] \in Configurations
      <4>1. n \in Nat
        BY <2>3, LimitsAssumption DEF put_MaximumDataEntries
      <4> QED
        BY <4>1 DEF TypeOK, Configurations
    <3> QED
      BY <2>3, <3>1 DEF put_MaximumDataEntries
  <2>4. ASSUME NEW n \in FrameLimits, put_MaximumStackDepth(n)
        PROVE  \E c \in Configurations : Configure(c)
    <3>1. [conf EXCEPT !.max_frames = n] \in Configurations
      <4>1. n \in Nat
        BY <2>4, LimitsAssumption DEF put_MaximumStackDepth
      <4> QED
        BY <4>1 DEF TypeOK, Configurations
    <3> QED
      BY <2>4, <3>1 DEF put_MaximumStackDepth
  <2> QED
    BY <2>1, <2>2, <2>3, <2>4 DEF Application
<1> QED
  BY <1>1, ConfigureStep

-----------------------------------------------------------------------------
(* A thread moves. *)

Steps(t) ==
  \/ Work(t)
  \/ \E d \in Depths : HandleException(t, d)
  \/ ClearData(t) \/ ClearOperationLogs(t)

(* What a line, written, dropped or switched off, does to the thread. *)
LEMMA LogStep ==
  ASSUME TypeOK, NEW t \in Threads, WriteLog(t)
  PROVE  /\ UNCHANGED exceptions
         /\ has' \in [Threads -> BOOLEAN]
         /\ logs' \in [Threads -> SUBSET Nat]
         /\ lost' \in [Threads -> BOOLEAN]
         /\ logs[t] \subseteq logs'[t] /\ logs'[t] \subseteq logs[t] \cup {accepted[t]}
         /\ ~has'[t] => ~has[t] /\ logs'[t] = logs[t]
         /\ ~lost'[t] => ~lost[t]
         /\ conf.logging => lost'[t] \/ accepted[t] \in logs'[t]
         /\ \A u \in Threads : u # t =>
              has'[u] = has[u] /\ logs'[u] = logs[u] /\ lost'[u] = lost[u]
<1> USE DEF WriteLog, TypeOK
<1>1. CASE ~conf.logging
  BY <1>1
<1>2. CASE /\ conf.logging /\ UNCHANGED lost
            /\ has' = [has EXCEPT ![t] = TRUE]
            /\ logs' = [logs EXCEPT ![t] = logs[t] \cup {accepted[t]}]
  BY <1>2
<1>3. CASE /\ conf.logging /\ UNCHANGED logs
            /\ lost' = [lost EXCEPT ![t] = TRUE]
            /\ \E h \in {has[t], TRUE} : has' = [has EXCEPT ![t] = h]
  <2>1. PICK h \in {has[t], TRUE} : has' = [has EXCEPT ![t] = h]
    BY <1>3
  <2> QED
    BY <1>3, <2>1
<1> QED
  BY <1>1, <1>2, <1>3

LEMMA OthersUntouched ==
  ASSUME IInv, NEW t \in Threads, Steps(t), NEW u \in Threads, u # t
  PROVE  ThreadInv(u)'
<1> USE DEF IInv
<1>1. UNCHANGED conf
  BY DEF Steps, Work, HandleException, ClearData, ClearOperationLogs,
     PrepareStorage, PrepareFails, CopyConfig, CleanOld, CreateDac, DacFails,
     BeginRun, ReachLimit, DumpFrame, WalkFails, KeepDump, KeepFails, TrimOld,
     ReportFailure
<1>2. /\ pc'[u] = pc[u] /\ limit'[u] = limit[u] /\ depth'[u] = depth[u]
      /\ frames'[u] = frames[u]
  BY DEF Steps, Work, HandleException, ClearData, ClearOperationLogs,
     PrepareStorage, PrepareFails, CopyConfig, CleanOld, CreateDac, DacFails,
     BeginRun, ReachLimit, DumpFrame, WalkFails, KeepDump, KeepFails, TrimOld,
     ReportFailure, TypeOK
<1>3. /\ accepted'[u] = accepted[u] /\ seen'[u] = seen[u]
      /\ outcome'[u] = outcome[u] /\ cleared'[u] = cleared[u]
  BY DEF Steps, Work, HandleException, ClearData, ClearOperationLogs,
     PrepareStorage, PrepareFails, CopyConfig, CleanOld, CreateDac, DacFails,
     BeginRun, ReachLimit, DumpFrame, WalkFails, KeepDump, KeepFails, TrimOld,
     ReportFailure, TypeOK
<1>4. /\ has'[u] = has[u] /\ exceptions'[u] = exceptions[u]
      /\ logs'[u] = logs[u] /\ lost'[u] = lost[u]
  <2>1. CASE WriteLog(t)
    BY <2>1, LogStep
  <2>2. CASE ~WriteLog(t)
    BY <2>2 DEF Steps, Work, HandleException, ClearData, ClearOperationLogs,
       PrepareStorage, PrepareFails, CopyConfig, CleanOld, CreateDac, DacFails,
       BeginRun, ReachLimit, DumpFrame, WalkFails, KeepDump, KeepFails,
       TrimOld, ReportFailure, TypeOK
  <2> QED
    BY <2>1, <2>2
<1> QED
  BY <1>1, <1>2, <1>3, <1>4, Untouched

(* Before the old data is cleaned away. *)
LEMMA EarlySteps ==
  ASSUME IInv, NEW t \in Threads,
         \/ PrepareStorage(t) \/ PrepareFails(t) \/ CopyConfig(t)
         \/ \E d \in Depths : HandleException(t, d)
  PROVE  TypeOK' /\ ThreadInv(t)'
<1> USE DEF IInv, ThreadInv, DataInv, SeenInv, WalkInv, LogInv, LineDue, KeptInv,
            Cleaned
<1>1. CASE PrepareStorage(t)
  BY <1>1 DEF PrepareStorage, TypeOK, Working
<1>2. CASE PrepareFails(t)
  BY <1>2 DEF PrepareFails, TypeOK, Working
<1>3. CASE CopyConfig(t)
  BY <1>3, ConfType DEF CopyConfig, TypeOK, Working
<1>4. ASSUME NEW d \in Depths, HandleException(t, d)
      PROVE  TypeOK' /\ ThreadInv(t)'
  <2>1. d \in Nat
    BY DepthsAssumption
  <2> QED
    BY <1>4, <2>1 DEF HandleException, TypeOK, Working
<1> QED
  BY <1>1, <1>2, <1>3, <1>4

LEMMA ClearSteps ==
  ASSUME IInv, NEW t \in Threads,
         CleanOld(t) \/ ClearData(t) \/ ClearOperationLogs(t)
  PROVE  TypeOK' /\ ThreadInv(t)'
<1> USE DEF IInv, ThreadInv, DataInv, SeenInv, WalkInv, LogInv, LineDue, KeptInv,
            Cleaned
<1>1. CASE CleanOld(t)
  BY <1>1 DEF CleanOld, TypeOK, Working
<1>2. CASE ClearData(t)
  BY <1>2 DEF ClearData, TypeOK, Working
<1>3. CASE ClearOperationLogs(t)
  BY <1>3 DEF ClearOperationLogs, TypeOK, Working
<1> QED
  BY <1>1, <1>2, <1>3

(* The walk over the stack, with a line at each step. *)
LEMMA WalkSteps ==
  ASSUME IInv, NEW t \in Threads,
         BeginRun(t) \/ ReachLimit(t) \/ DumpFrame(t) \/ WalkFails(t)
  PROVE  TypeOK' /\ ThreadInv(t)'
<1> USE DEF IInv
<1>1. WriteLog(t)
  BY DEF BeginRun, ReachLimit, DumpFrame, WalkFails
<1>2. TypeOK'
  <2>1. /\ UNCHANGED <<conf, exceptions, limit, depth, historyVars, changes>>
        /\ pc' \in [Threads -> Working \cup {"idle"}]
    BY <1>1, LogStep DEF BeginRun, ReachLimit, DumpFrame, WalkFails, TypeOK, Working
  <2>2. frames' \in [Threads -> Nat]
    <3>1. frames \in [Threads -> Nat]
      BY DEF TypeOK
    <3>2. UNCHANGED frames \/ frames' = [frames EXCEPT ![t] = frames[t] + 1]
      BY DEF BeginRun, ReachLimit, DumpFrame, WalkFails
    <3> QED
      BY <3>1, <3>2
  <2> QED
    BY <1>1, <2>1, <2>2, LogStep DEF TypeOK
<1>3. /\ UNCHANGED <<conf, limit, depth, historyVars>>
      /\ pc[t] \in {"starting", "walking"}
      /\ pc'[t] \in {"walking", "keeping", "reporting"}
      /\ pc[t] = "starting" => pc'[t] # "keeping" /\ frames'[t] = frames[t]
  BY DEF BeginRun, ReachLimit, DumpFrame, WalkFails, TypeOK
<1>4. DataInv(t)'
  BY <1>1, <1>3, LogStep DEF ThreadInv, DataInv, Cleaned
<1>5. SeenInv(t)' /\ KeptInv(t)'
  BY <1>3 DEF ThreadInv, SeenInv, KeptInv
<1>6. LogInv(t)'
  <2>1. conf \in seen[t]
    BY <1>3 DEF ThreadInv, SeenInv
  <2> QED
    BY <1>1, <1>3, <2>1, LogStep DEF LogInv, LineDue
<1>7. WalkInv(t)'
  BY <1>3 DEF BeginRun, ReachLimit, DumpFrame, WalkFails, TypeOK, ThreadInv,
     WalkInv, Shortest
<1> QED
  BY <1>2, <1>4, <1>5, <1>6, <1>7 DEF ThreadInv

(* The end of the dump. *)
LEMMA LateSteps ==
  ASSUME IInv, NEW t \in Threads,
         \/ CreateDac(t) \/ DacFails(t) \/ KeepDump(t) \/ KeepFails(t)
         \/ TrimOld(t) \/ ReportFailure(t)
  PROVE  TypeOK' /\ ThreadInv(t)'
<1> USE DEF IInv
<1>1. CASE CreateDac(t) \/ DacFails(t) \/ KeepFails(t)
  <2>1. UNCHANGED <<conf, dataVars, limit, depth, frames, historyVars, changes>>
    BY <1>1 DEF CreateDac, DacFails, KeepFails
  <2>2. /\ pc' \in [Threads -> Working \cup {"idle"}]
        /\ \/ pc[t] = "connecting" /\ pc'[t] \in {"starting", "reporting"}
           \/ pc[t] = "keeping" /\ pc'[t] = "reporting"
    BY <1>1 DEF CreateDac, DacFails, KeepFails, TypeOK, Working
  <2>3. TypeOK'
    BY <2>1, <2>2 DEF TypeOK
  <2> QED
    BY <2>1, <2>2, <2>3 DEF ThreadInv, DataInv, SeenInv, WalkInv, LogInv,
       LineDue, KeptInv, Cleaned
<1>2. CASE KeepDump(t)
  <2>1. exceptions[t] = <<>> /\ accepted[t] \in Nat
    BY <1>2 DEF KeepDump, ThreadInv, DataInv, Cleaned, TypeOK
  <2>2. <<accepted[t]>> \o <<>> = <<accepted[t]>> /\ <<accepted[t]>> \in Seq(Nat)
    BY <2>1, ConcatEmptySeq
  <2>3. exceptions' = [exceptions EXCEPT ![t] = <<accepted[t]>>]
    BY <1>2, <2>1, <2>2 DEF KeepDump
  <2>4. TypeOK'
    BY <1>2, <2>2, <2>3 DEF KeepDump, TypeOK, Working
  <2> QED
    BY <1>2, <2>3, <2>4 DEF KeepDump, TypeOK, ThreadInv, DataInv, SeenInv,
       WalkInv, LogInv, LineDue, KeptInv, Cleaned
<1>3. CASE TrimOld(t)
  <2> DEFINE kept == IF conf.max_data_entries > 0 THEN <<accepted[t]>> ELSE <<>>
  <2>1. exceptions[t] = <<accepted[t]>> /\ accepted[t] \in Nat
    BY <1>3 DEF TrimOld, ThreadInv, DataInv, TypeOK
  <2>2. exceptions' = [exceptions EXCEPT ![t] = kept]
    BY <1>3, <2>1, ConfType, TrimOne DEF TrimOld
  <2>3. kept \in Seq(Nat) /\ Len(kept) <= conf.max_data_entries
    BY <2>1, ConfType
  <2>4. exceptions'[t] = kept /\ conf \in seen[t]
    BY <1>3, <2>2 DEF TrimOld, TypeOK, ThreadInv, SeenInv
  <2>5. TypeOK'
    <3> HIDE DEF kept
    <3> QED
      BY <1>3, <2>2, <2>3 DEF TrimOld, TypeOK, Working
  <2>6. DataInv(t)'
    BY <1>3, <2>4 DEF TrimOld, TypeOK, ThreadInv, DataInv, Cleaned
  <2>7. SeenInv(t)' /\ WalkInv(t)' /\ LogInv(t)'
    BY <1>3 DEF TrimOld, TypeOK, ThreadInv, SeenInv, WalkInv, LogInv, LineDue
  <2>8. KeptInv(t)'
    BY <1>3, <2>3, <2>4, ConfType DEF TrimOld, TypeOK, KeptInv
  <2> QED
    BY <2>5, <2>6, <2>7, <2>8 DEF ThreadInv
<1>4. CASE ReportFailure(t)
  <2>1. WriteLog(t)
    BY <1>4 DEF ReportFailure
  <2>2. TypeOK'
    BY <1>4, <2>1, LogStep DEF ReportFailure, TypeOK, Working
  <2>3. /\ pc[t] = "reporting" /\ pc'[t] = "idle" /\ outcome'[t] = "failed"
        /\ UNCHANGED <<conf, accepted, seen>>
    BY <1>4 DEF ReportFailure, TypeOK
  <2>4. exceptions'[t] = <<>> /\ conf \in seen[t]
    BY <2>1, <2>3, LogStep DEF ThreadInv, DataInv, SeenInv, Cleaned
  <2>5. DataInv(t)'
    BY <2>1, <2>3, <2>4, LogStep DEF ThreadInv, DataInv, Cleaned
  <2>6. LogInv(t)'
    BY <2>1, <2>3, <2>4, LogStep DEF LogInv
  <2>7. SeenInv(t)' /\ WalkInv(t)' /\ KeptInv(t)'
    BY <2>3, <2>4 DEF SeenInv, WalkInv, KeptInv
  <2> QED
    BY <2>2, <2>5, <2>6, <2>7 DEF ThreadInv
<1> QED
  BY <1>1, <1>2, <1>3, <1>4

LEMMA ThreadStep ==
  ASSUME IInv, NEW t \in Threads, Steps(t)
  PROVE  IInv'
<1>1. TypeOK' /\ ThreadInv(t)'
  BY EarlySteps, ClearSteps, WalkSteps, LateSteps DEF Steps, Work
<1>2. \A u \in Threads : u # t => ThreadInv(u)'
  BY OthersUntouched
<1> QED
  BY <1>1, <1>2 DEF IInv
-----------------------------------------------------------------------------
(* The inductive invariant holds. *)

LEMMA Initial == Init => IInv
<1> SUFFICES ASSUME Init PROVE IInv
  OBVIOUS
<1>1. conf \in Configurations
  BY DEF Init, Configurations
<1>2. TypeOK
  BY <1>1 DEF Init, TypeOK
<1>3. ASSUME NEW t \in Threads
      PROVE  ThreadInv(t)
  BY DEF Init, ThreadInv, DataInv, SeenInv, WalkInv, LogInv, LineDue, KeptInv,
     Cleaned
<1> QED
  BY <1>2, <1>3 DEF IInv

LEMMA Inductive == IInv /\ [Next]_vars => IInv'
<1> SUFFICES ASSUME IInv, [Next]_vars PROVE IInv'
  OBVIOUS
<1>1. CASE Application
  BY <1>1, ApplicationStep
<1>2. ASSUME NEW t \in Threads, Steps(t)
      PROVE  IInv'
  BY <1>2, ThreadStep
<1>3. CASE UNCHANGED vars
  <2>1. TypeOK'
    BY <1>3 DEF IInv, TypeOK, vars
  <2>2. ASSUME NEW t \in Threads
        PROVE  ThreadInv(t)'
    BY <1>3, Untouched DEF IInv, vars
  <2> QED
    BY <2>1, <2>2 DEF IInv
<1> QED
  BY <1>1, <1>2, <1>3 DEF Next, Steps

(* What a thread holds at each point of its handling of an exception is what
   DataInv, SeenInv, WalkInv, LogInv and KeptInv say, in every reachable
   state. *)
THEOREM Invariance == Spec => []IInv
<1> HIDE DEF Init
<1> QED
  BY Initial, Inductive, PTL DEF Spec

-----------------------------------------------------------------------------
(* What follows from it. *)

(* The variables keep their types: no setter lets a negative limit through. *)
THEOREM TypeCorrect == Spec => []TypeOK
<1>1. IInv => TypeOK
  BY DEF IInv
<1> QED
  BY <1>1, Invariance, PTL

(* From CleanOld on, whether the dump succeeds or fails, nothing of an earlier
   exception is left for the application to find. *)
THEOREM LatestIsShown == Spec => []LatestOnly
<1>1. IInv => LatestOnly
  <2> SUFFICES ASSUME IInv, NEW t \in Threads,
                      pc[t] \notin {"preparing", "configuring", "cleaning"}
               PROVE  /\ get_AllData(t) \in {<<>>, <<accepted[t]>>}
                      /\ get_OperationLogs(t) \subseteq {accepted[t]}
    BY DEF LatestOnly
  <2>1. pc[t] \in Cleaned \cup {"trimming", "idle"}
    BY DEF IInv, TypeOK, Working, Cleaned
  <2>2. /\ exceptions[t] \in {<<>>, <<accepted[t]>>}
        /\ logs[t] \subseteq {accepted[t]}
    BY <2>1 DEF IInv, ThreadInv, DataInv
  <2> QED
    BY <2>2 DEF get_AllData, get_OperationLogs
<1> QED
  BY <1>1, Invariance, PTL

(* The walk runs under the one limit CopyConfig took, which was in force when
   it was taken, so a concurrent put_MaximumStackDepth never splits a dump. *)
THEOREM OneConfigurationHolds == Spec => []OneConfiguration
<1>1. IInv => OneConfiguration
  BY DEF IInv, ThreadInv, WalkInv, OneConfiguration
<1> QED
  BY <1>1, Invariance, PTL

(* TrimOld leaves no more entries than the maximum it read, whatever was
   written to the maximum before and after. *)
THEOREM Trimmed == Spec => []TrimmedToMaximum
<1>1. IInv => TrimmedToMaximum
  BY DEF IInv, ThreadInv, KeptInv, TrimmedToMaximum, get_HasData, get_AllData
<1> QED
  BY <1>1, Invariance, PTL

(* A dump that succeeded is kept if there was room for it throughout, and the
   log has a line for the exception if logging was on throughout and memory
   sufficed, whether the dump succeeded or failed. *)
THEOREM NothingLostInSilence == Spec => []NoSilentLoss
<1>1. IInv => NoSilentLoss
  <2> SUFFICES ASSUME IInv, NEW t \in Threads,
                      pc[t] = "idle", accepted[t] > 0, ~cleared[t]
               PROVE  /\ /\ outcome[t] = "dumped"
                         /\ \A c \in seen[t] : c.max_data_entries > 0
                         => get_Data(t) = accepted[t]
                      /\ ~lost[t] /\ (\A c \in seen[t] : c.logging)
                           => accepted[t] \in get_OperationLogs(t)
    BY DEF NoSilentLoss
  <2>1. ASSUME outcome[t] = "dumped", \A c \in seen[t] : c.max_data_entries > 0
        PROVE  get_Data(t) = accepted[t]
    <3>1. exceptions[t] = <<accepted[t]>>
      BY <2>1 DEF IInv, ThreadInv, KeptInv
    <3>2. Head(exceptions[t]) = accepted[t] /\ exceptions[t] # <<>>
      <4>1. accepted[t] \in Nat
        BY DEF IInv, TypeOK
      <4>2. Head(<<accepted[t]>>) = accepted[t] /\ <<accepted[t]>> # <<>>
        BY <4>1
      <4> QED
        BY <3>1, <4>2
    <3>3. has[t]
      BY <3>2 DEF IInv, TypeOK, ThreadInv, DataInv
    <3> QED
      BY <3>2, <3>3 DEF get_Data, get_HasData
  <2>2. ASSUME ~lost[t], \A c \in seen[t] : c.logging
        PROVE  accepted[t] \in get_OperationLogs(t)
    <3>1. accepted[t] \in logs[t]
      BY <2>2 DEF IInv, ThreadInv, LogInv, LineDue
    <3>2. has[t]
      BY <3>1 DEF IInv, TypeOK, ThreadInv, DataInv
    <3> QED
      BY <3>1, <3>2 DEF get_OperationLogs, get_HasOperationLogs
  <2> QED
    BY <2>1, <2>2
<1> QED
  BY <1>1, Invariance, PTL
=============================================================================
