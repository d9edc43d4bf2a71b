-------------------------- MODULE ActivationProofs --------------------------
(* Proofs about module Activation, for any calls on any threads. *)
EXTENDS Activation, SequenceTheorems, TLAPS

(* Giving back the topmost context leaves those below it as they were. *)
LEMMA PopProperties ==
  ASSUME NEW S, NEW s \in Seq(S), s # <<>>
  PROVE  /\ Pop(s) \in Seq(S)
         /\ Len(Pop(s)) = Len(s) - 1
         /\ \A i \in 1 .. Len(s) - 1 : Pop(s)[i] = s[i]
<1> DEFINE n == Len(s) - 1
<1>1. Len(s) \in Nat \ {0}
  BY EmptySeq
<1>2. n \in Nat
  BY <1>1
<1>3. \A i \in 1 .. n : s[i] \in S
  BY <1>1, ElementOfSeq
<1>4. Pop(s) = SubSeq(s, 1, n)
  BY DEF Pop
<1> HIDE DEF n
<1>5. /\ SubSeq(s, 1, n) \in Seq(S)
      /\ Len(SubSeq(s, 1, n)) = IF 1 <= n THEN n - 1 + 1 ELSE 0
      /\ \A i \in 1 .. n - 1 + 1 : SubSeq(s, 1, n)[i] = s[1 + i - 1]
  BY <1>2, <1>3, SubSeqProperties
<1>6. Len(SubSeq(s, 1, n)) = n
  BY <1>2, <1>5
<1>7. \A i \in 1 .. n : SubSeq(s, 1, n)[i] = s[i]
  BY <1>2, <1>5
<1> QED
  BY <1>4, <1>5, <1>6, <1>7 DEF n

(* What typing the stacks of the threads needs of the two steps that change
   them. *)
LEMMA StackTypes ==
  ASSUME ActivationTypeOK, NEW c \in Calls
  PROVE  /\ by[c] \in Threads
         /\ frames[by[c]] \in Seq(Calls)
         /\ Append(frames[by[c]], c) \in Seq(Calls)
         /\ frames[by[c]] # <<>> => Pop(frames[by[c]]) \in Seq(Calls)
<1>1. by[c] \in Threads /\ frames[by[c]] \in Seq(Calls)
  BY DEF ActivationTypeOK
<1>2. Append(frames[by[c]], c) \in Seq(Calls)
  BY <1>1, AppendProperties
<1> QED
  BY <1>1, <1>2, PopProperties

LEMMA TypesHoldInitially == ActivationInit => ActivationTypeOK
<1> SUFFICES ASSUME ActivationInit PROVE ActivationTypeOK
  OBVIOUS
<1>1. <<>> \in Seq(Calls)
  OBVIOUS
<1>2. frames \in [Threads -> Seq(Calls)]
  BY <1>1 DEF ActivationInit
<1> QED
  BY <1>2 DEF ActivationInit, ActivationTypeOK, Steps

LEMMA StepsKeepTypes ==
  ActivationTypeOK /\ [ActivationNext]_activationVars => ActivationTypeOK'
<1> SUFFICES ASSUME ActivationTypeOK, [ActivationNext]_activationVars
             PROVE  ActivationTypeOK'
  OBVIOUS
<1>1. CASE UNCHANGED activationVars
  BY <1>1 DEF ActivationTypeOK, activationVars
<1>2. ASSUME NEW c \in Calls,
             \/ Install(c) \/ InstallForWeb(c) \/ FreeUnused(c)
             \/ CopyLogger(c) \/ CopyFails(c) \/ EnterBody(c)
             \/ BodyReturns(c) \/ BodyThrows(c) \/ ActivateFails(c)
             \/ WrapCookie(c) \/ CutBeforeUsing(c) \/ CutActivation(c)
             \/ CreateContext(c) \/ CreationFails(c) \/ CutCreation(c)
      PROVE  ActivationTypeOK'
  BY <1>2 DEF ActivationTypeOK, Install, InstallForWeb, FreeUnused,
     CopyLogger, CopyFails, EnterBody, BodyReturns, BodyThrows, ActivateFails,
     WrapCookie, CutBeforeUsing, CutActivation, CreateContext, CreationFails,
     CutCreation, GoOn, Throw, nativeVars, managedVars, Steps
<1>3. ASSUME NEW c \in Calls, Activate(c)
      PROVE  ActivationTypeOK'
  <2>1. frames' \in [Threads -> Seq(Calls)]
    BY <1>3, StackTypes DEF ActivationTypeOK, Activate
  <2> QED
    BY <1>3, <2>1 DEF ActivationTypeOK, Activate, GoOn, managedVars, Steps
<1>4. ASSUME NEW c \in Calls, DisposeCookie(c)
      PROVE  ActivationTypeOK'
  <2>1. frames' \in [Threads -> Seq(Calls)]
    BY <1>4, StackTypes DEF ActivationTypeOK, DisposeCookie
  <2> QED
    BY <1>4, <2>1 DEF ActivationTypeOK, DisposeCookie, GoOn, Throw, Steps
<1>5. ASSUME NEW c \in Calls,
             DisposeContext(c) \/ FinalizeContext(c) \/ FinalizeCookie(c)
      PROVE  ActivationTypeOK'
  <2>1. releases' \in [Calls -> Nat]
    <3>1. releases' = releases
          \/ releases' = [releases EXCEPT ![c] = releases[c] + 1]
      BY <1>5 DEF ActivationTypeOK, DisposeContext, FinalizeContext,
         FinalizeCookie, Release, nativeVars
    <3>2. releases \in [Calls -> Nat] /\ releases[c] + 1 \in Nat
      BY DEF ActivationTypeOK
    <3> QED
      BY <3>1, <3>2
  <2> QED
    BY <1>5, <2>1 DEF ActivationTypeOK, DisposeContext, FinalizeContext,
       FinalizeCookie, Release, nativeVars, GoOn, Steps
<1> QED
  BY <1>1, <1>2, <1>3, <1>4, <1>5 DEF ActivationNext, OwnStep, Interrupted,
     Finalizer

(* Type correctness of the installer. *)
THEOREM ActivationTypes == ActivationSpec => []ActivationTypeOK
<1>1. ActivationInit => ActivationTypeOK
  BY TypesHoldInitially
<1>2. ActivationTypeOK /\ [ActivationNext]_activationVars => ActivationTypeOK'
  BY StepsKeepTypes
<1> QED
  BY <1>1, <1>2, PTL DEF ActivationSpec

-----------------------------------------------------------------------------
(* The life of a context.  Before its object exists nothing is open; from the
   constructor on the object awaits its finalizer until it is disposed; and
   what is disposed has been released, once. *)
BeforeContext == {"idle", "freeing", "copying", "asked"}
WithinUsing == {"created", "pushed", "wrapped", "body", "deactivating",
                "releasing"}

ReleaseInv ==
  \A c \in Calls :
    /\ releases[c] = IF c \in disposed /\ handle[c] = "open" THEN 1 ELSE 0
    /\ c \in contexts => c \notin disposed
    /\ step[c] \in BeforeContext => /\ handle[c] = "none"
                                    /\ c \notin contexts
                                    /\ c \notin disposed
    /\ step[c] \in WithinUsing => c \in contexts
    /\ step[c] = "over" /\ handle[c] = "open" =>
         c \in contexts \/ c \in disposed

LEMMA ReleaseHoldsInitially == ActivationInit => ReleaseInv
BY DEF ActivationInit, ReleaseInv, WithinUsing

LEMMA StepsKeepRelease ==
  ActivationTypeOK /\ ReleaseInv /\ [ActivationNext]_activationVars
    => ReleaseInv'
<1> SUFFICES ASSUME ActivationTypeOK, ReleaseInv,
                    [ActivationNext]_activationVars
             PROVE  ReleaseInv'
  OBVIOUS
<1>1. CASE UNCHANGED activationVars
  BY <1>1 DEF ReleaseInv, activationVars
<1>2. ASSUME NEW c \in Calls,
             \/ Install(c) \/ InstallForWeb(c) \/ FreeUnused(c)
             \/ CopyLogger(c) \/ CopyFails(c)
      PROVE  ReleaseInv'
  BY <1>2 DEF ReleaseInv, ActivationTypeOK, Install, InstallForWeb,
     FreeUnused, CopyLogger, CopyFails, GoOn, Throw, nativeVars, managedVars,
     BeforeContext, WithinUsing
<1>3. ASSUME NEW c \in Calls,
             CreateContext(c) \/ CreationFails(c) \/ CutCreation(c)
      PROVE  ReleaseInv'
  BY <1>3 DEF ReleaseInv, ActivationTypeOK, CreateContext, CreationFails,
     CutCreation, GoOn, Throw, BeforeContext, WithinUsing
<1>4. ASSUME NEW c \in Calls,
             \/ Activate(c) \/ ActivateFails(c) \/ WrapCookie(c)
             \/ EnterBody(c) \/ BodyReturns(c) \/ BodyThrows(c)
             \/ CutBeforeUsing(c) \/ CutActivation(c)
      PROVE  ReleaseInv'
  BY <1>4 DEF ReleaseInv, ActivationTypeOK, Activate, ActivateFails,
     WrapCookie, EnterBody, BodyReturns, BodyThrows, CutBeforeUsing,
     CutActivation, GoOn, Throw, nativeVars, managedVars, BeforeContext,
     WithinUsing
<1>5. ASSUME NEW c \in Calls, DisposeCookie(c)
      PROVE  ReleaseInv'
  BY <1>5 DEF ReleaseInv, ActivationTypeOK, DisposeCookie, GoOn, Throw,
     BeforeContext, WithinUsing
<1>6. ASSUME NEW c \in Calls, DisposeContext(c) \/ FinalizeContext(c)
      PROVE  ReleaseInv'
  <2>1. c \in contexts /\ c \notin disposed /\ releases[c] = 0
    BY <1>6 DEF ReleaseInv, DisposeContext, FinalizeContext, WithinUsing
  <2>2. /\ releases' = [releases EXCEPT
                          ![c] = IF handle[c] = "open" THEN 1 ELSE 0]
        /\ disposed' = disposed \cup {c}
        /\ contexts' = contexts \ {c}
        /\ handle' = handle
        /\ \A d \in Calls \ {c} : step'[d] = step[d]
        /\ step'[c] = "over"
    BY <1>6, <2>1 DEF DisposeContext, FinalizeContext, Release, GoOn,
       ActivationTypeOK, Running, nativeVars, ReleaseInv, BeforeContext
  <2> QED
    BY <2>1, <2>2 DEF ReleaseInv, ActivationTypeOK, BeforeContext, WithinUsing
<1>7. ASSUME NEW c \in Calls, FinalizeCookie(c)
      PROVE  ReleaseInv'
  BY <1>7 DEF ReleaseInv, FinalizeCookie, nativeVars
<1> QED
  BY <1>1, <1>2, <1>3, <1>4, <1>5, <1>6, <1>7 DEF ActivationNext, OwnStep,
     Interrupted, Finalizer

(* Dispose and the finalizer release every stored context exactly once. *)
THEOREM ContextReleasedOnce == ActivationSpec => []ReleasedOnce
<1>1. ActivationInit => ReleaseInv
  BY ReleaseHoldsInitially
<1>2. ActivationTypeOK /\ ReleaseInv /\ [ActivationNext]_activationVars
        => ReleaseInv'
  BY StepsKeepRelease
<1>3. ReleaseInv => ReleasedOnce
  <2> SUFFICES ASSUME ReleaseInv, NEW c \in Calls
               PROVE  /\ releases[c] <= 1
                      /\ handle[c] = "open" /\ step[c] = "over" =>
                           (releases[c] = 1 <=> c \notin contexts)
    BY DEF ReleasedOnce
  <2>1. CASE c \in disposed /\ handle[c] = "open"
    <3>1. releases[c] = 1 /\ c \notin contexts
      BY <2>1 DEF ReleaseInv
    <3> QED
      BY <3>1
  <2>2. CASE ~(c \in disposed /\ handle[c] = "open")
    <3>1. /\ releases[c] = 0
          /\ handle[c] = "open" /\ step[c] = "over" => c \in contexts
      BY <2>2 DEF ReleaseInv
    <3> QED
      BY <3>1
  <2> QED
    BY <2>1, <2>2
<1> QED
  BY <1>1, <1>2, <1>3, ActivationTypes, PTL DEF ActivationSpec

-----------------------------------------------------------------------------
(* The stacks of active contexts.  One call at a time runs on a thread; the
   context of a call in its using is on top of its thread's stack; below it
   lie contexts of calls that were cut short, which alone leave a cookie to
   the finalizer. *)
Alternating ==
  \A c, d \in Calls :
    c # d /\ by[c] = by[d] => ~(Running(c) /\ Running(d))
OnTop ==
  \A c \in Calls :
    step[c] \in Active => frames[by[c]] # <<>> /\ Last(frames[by[c]]) = c
Below ==
  \A t \in Threads : \A i \in 1 .. Len(frames[t]) :
    /\ by[frames[t][i]] = t
    /\ \/ frames[t][i] \in cut
       \/ i = Len(frames[t]) /\ step[frames[t][i]] \in Active
Refused ==
  /\ \A c \in cookies :
       c \in cut \/ step[c] \in {"wrapped", "body", "deactivating"}
  /\ died => cut # {}

StackInv == Alternating /\ OnTop /\ Below /\ Refused

LEMMA StackHoldsInitially == ActivationInit => StackInv
<1> SUFFICES ASSUME ActivationInit PROVE StackInv
  OBVIOUS
<1>1. \A t \in Threads : frames[t] = <<>>
  BY DEF ActivationInit
<1>2. Below
  BY <1>1 DEF Below
<1> QED
  BY <1>2 DEF ActivationInit, StackInv, Alternating, OnTop, Refused, Running,
     Active

(* A call that keeps its own using, or has none, disturbs no stack. *)
LEMMA StackUndisturbed ==
  ASSUME ActivationTypeOK, StackInv, NEW c \in Calls,
         by' = by, frames' = frames, cut \subseteq cut',
         \A d \in Calls \ {c} : step'[d] = step[d],
         Running(c) \/ Alone(c),
         step[c] \in Active => step'[c] \in Active \/ c \in cut',
         step'[c] \in Active => step[c] \in Active
  PROVE  Alternating' /\ OnTop' /\ Below'
<1>1. Alternating'
  BY DEF StackInv, Alternating, Alone, Running
<1>2. OnTop'
  BY DEF StackInv, OnTop, Last
<1>3. Below'
  <2> SUFFICES ASSUME NEW t \in Threads, NEW i \in 1 .. Len(frames[t])
               PROVE  /\ by[frames[t][i]] = t
                      /\ \/ frames[t][i] \in cut'
                         \/ /\ i = Len(frames[t])
                            /\ step'[frames[t][i]] \in Active
    BY DEF Below
  <2>1. frames[t][i] \in Calls
    BY ElementOfSeq DEF ActivationTypeOK
  <2> QED
    BY <2>1 DEF StackInv, Below
<1> QED
  BY <1>1, <1>2, <1>3

LEMMA RefusedUndisturbed ==
  ASSUME ActivationTypeOK, StackInv, NEW c \in Calls,
         cut' = cut, cookies' = cookies, died' = died,
         \A d \in Calls \ {c} : step'[d] = step[d],
         \/ step[c] \notin {"wrapped", "body", "deactivating"}
         \/ step'[c] \in {"wrapped", "body", "deactivating"}
  PROVE  Refused'
<1>1. died' => cut' # {}
  BY DEF StackInv, Refused
<1>2. ASSUME NEW d \in cookies
      PROVE  d \in cut \/ step'[d] \in {"wrapped", "body", "deactivating"}
  <2>1. d \in Calls
    BY DEF ActivationTypeOK
  <2>2. d \in cut \/ step[d] \in {"wrapped", "body", "deactivating"}
    BY DEF StackInv, Refused
  <2> QED
    BY <2>1, <2>2
<1> QED
  BY <1>1, <1>2 DEF Refused

LEMMA StepsKeepStack ==
  ActivationTypeOK /\ StackInv /\ [ActivationNext]_activationVars => StackInv'
<1> SUFFICES ASSUME ActivationTypeOK, StackInv,
                    [ActivationNext]_activationVars
             PROVE  StackInv'
  OBVIOUS
<1>1. CASE UNCHANGED activationVars
  BY <1>1 DEF StackInv, Alternating, OnTop, Below, Refused, Running, Last,
     activationVars
<1>2. ASSUME NEW c \in Calls,
             \/ Install(c) \/ InstallForWeb(c) \/ FreeUnused(c)
             \/ CopyLogger(c) \/ CopyFails(c)
      PROVE  StackInv'
  <2>1. Alternating' /\ OnTop' /\ Below'
    <3>1. /\ by' = by /\ frames' = frames /\ cut \subseteq cut'
          /\ \A d \in Calls \ {c} : step'[d] = step[d]
          /\ Running(c) \/ Alone(c)
          /\ step[c] \notin Active /\ step'[c] \notin Active
      BY <1>2 DEF Install, InstallForWeb, FreeUnused, CopyLogger, CopyFails,
         GoOn, Throw, nativeVars, ActivationTypeOK, Active, Running
    <3> QED
      BY <3>1, StackUndisturbed
  <2>2. Refused'
    <3>1. /\ cut' = cut /\ cookies' = cookies /\ died' = died
          /\ \A d \in Calls \ {c} : step'[d] = step[d]
          /\ step[c] \notin {"wrapped", "body", "deactivating"}
      BY <1>2 DEF Install, InstallForWeb, FreeUnused, CopyLogger, CopyFails,
         GoOn, Throw, managedVars, ActivationTypeOK
    <3> QED
      BY <3>1, RefusedUndisturbed
  <2> QED
    BY <2>1, <2>2 DEF StackInv
<1>3. ASSUME NEW c \in Calls,
             \/ CreateContext(c) \/ CreationFails(c) \/ CutCreation(c)
             \/ ActivateFails(c) \/ CutBeforeUsing(c) \/ DisposeContext(c)
      PROVE  StackInv'
  <2>1. Alternating' /\ OnTop' /\ Below'
    <3>1. /\ by' = by /\ frames' = frames /\ cut \subseteq cut'
          /\ \A d \in Calls \ {c} : step'[d] = step[d]
          /\ Running(c)
          /\ step[c] \notin Active /\ step'[c] \notin Active
      BY <1>3 DEF CreateContext, CreationFails, CutCreation, ActivateFails,
         CutBeforeUsing, DisposeContext, GoOn, Throw, nativeVars,
         ActivationTypeOK, Active, Running
    <3> QED
      BY <3>1, StackUndisturbed
  <2>2. Refused'
    <3>1. /\ cut' = cut /\ cookies' = cookies /\ died' = died
          /\ \A d \in Calls \ {c} : step'[d] = step[d]
          /\ step[c] \notin {"wrapped", "body", "deactivating"}
      BY <1>3 DEF CreateContext, CreationFails, CutCreation, ActivateFails,
         CutBeforeUsing, DisposeContext, GoOn, Throw, managedVars,
         ActivationTypeOK
    <3> QED
      BY <3>1, RefusedUndisturbed
  <2> QED
    BY <2>1, <2>2 DEF StackInv
<1>4. ASSUME NEW c \in Calls,
             \/ WrapCookie(c) \/ EnterBody(c) \/ BodyReturns(c)
             \/ BodyThrows(c) \/ CutActivation(c)
      PROVE  StackInv'
  <2>1. Alternating' /\ OnTop' /\ Below'
    <3>1. /\ by' = by /\ frames' = frames /\ cut \subseteq cut'
          /\ \A d \in Calls \ {c} : step'[d] = step[d]
          /\ Running(c)
          /\ step[c] \in Active
          /\ step'[c] \in Active \/ c \in cut'
      BY <1>4 DEF WrapCookie, EnterBody, BodyReturns, BodyThrows,
         CutActivation, GoOn, Throw, nativeVars, ActivationTypeOK, Active,
         Running
    <3> QED
      BY <3>1, StackUndisturbed
  <2>2. Refused'
    <3>1. CASE WrapCookie(c)
      <4>1. /\ cut' = cut /\ cookies' = cookies \cup {c} /\ died' = died
            /\ \A d \in Calls \ {c} : step'[d] = step[d]
            /\ step'[c] = "wrapped"
        BY <3>1 DEF WrapCookie, GoOn, ActivationTypeOK
      <4> QED
        BY <4>1 DEF StackInv, Refused, ActivationTypeOK
    <3>2. CASE EnterBody(c) \/ BodyReturns(c) \/ BodyThrows(c)
      <4>1. /\ cut' = cut /\ cookies' = cookies /\ died' = died
            /\ \A d \in Calls \ {c} : step'[d] = step[d]
            /\ step'[c] \in {"wrapped", "body", "deactivating"}
        BY <3>2 DEF EnterBody, BodyReturns, BodyThrows, GoOn, Throw,
           managedVars, ActivationTypeOK
      <4> QED
        BY <4>1, RefusedUndisturbed
    <3>3. CASE CutActivation(c)
      <4>1. /\ cut' = cut \cup {c} /\ cookies' = cookies /\ died' = died
            /\ \A d \in Calls \ {c} : step'[d] = step[d]
        BY <3>3 DEF CutActivation, Throw, managedVars, ActivationTypeOK
      <4> QED
        BY <4>1 DEF StackInv, Refused, ActivationTypeOK
    <3> QED
      BY <1>4, <3>1, <3>2, <3>3
  <2> QED
    BY <2>1, <2>2 DEF StackInv
<1>5. ASSUME NEW c \in Calls, Activate(c)
      PROVE  StackInv'
  <2> DEFINE s == frames[by[c]]
  <2>1. by[c] \in Threads /\ s \in Seq(Calls)
    BY StackTypes
  <2>2. /\ by' = by /\ cut' = cut /\ cookies' = cookies /\ died' = died
        /\ step' = [step EXCEPT ![c] = "pushed"]
        /\ step[c] = "created"
        /\ frames'[by[c]] = Append(s, c)
        /\ \A t \in Threads \ {by[c]} : frames'[t] = frames[t]
    BY <1>5, <2>1 DEF Activate, GoOn, managedVars, ActivationTypeOK
  <2>3. /\ Append(s, c) # <<>>
        /\ Len(Append(s, c)) = Len(s) + 1
        /\ \A i \in 1 .. Len(s) : Append(s, c)[i] = s[i]
        /\ Append(s, c)[Len(s) + 1] = c
        /\ Len(s) \in Nat
    BY <2>1, AppendProperties, LenProperties
  <2> HIDE DEF s
  <2>4. \A d \in Calls : by[d] = by[c] => step[d] \notin Active
    BY <2>2 DEF StackInv, Alternating, Running, Active
  <2>5. Alternating'
    BY <2>2 DEF StackInv, Alternating, Running, ActivationTypeOK
  <2>6. OnTop'
    <3> SUFFICES ASSUME NEW d \in Calls, step'[d] \in Active
                 PROVE  frames'[by[d]] # <<>> /\ Last(frames'[by[d]]) = d
      BY <2>2 DEF OnTop, Last
    <3>1. CASE d = c
      BY <2>2, <2>3, <3>1 DEF Last
    <3>2. CASE d # c
      <4>1. step[d] \in Active /\ by[d] \in Threads \ {by[c]}
        BY <2>2, <2>4, <3>2 DEF ActivationTypeOK
      <4> QED
        BY <2>2, <4>1 DEF StackInv, OnTop
    <3> QED
      BY <3>1, <3>2
  <2>7. Below'
    <3> SUFFICES ASSUME NEW t \in Threads, NEW i \in 1 .. Len(frames'[t])
                 PROVE  /\ by[frames'[t][i]] = t
                        /\ \/ frames'[t][i] \in cut
                           \/ /\ i = Len(frames'[t])
                              /\ step'[frames'[t][i]] \in Active
      BY <2>2 DEF Below
    <3>1. CASE t # by[c]
      <4>1. frames'[t] = frames[t] /\ frames[t][i] \in Calls
        BY <2>2, <3>1, ElementOfSeq DEF ActivationTypeOK
      <4>2. step'[frames[t][i]] = step[frames[t][i]] \/ frames[t][i] = c
        BY <2>2, <4>1 DEF ActivationTypeOK
      <4>3. by[frames[t][i]] = t
        BY <4>1 DEF StackInv, Below
      <4> QED
        BY <3>1, <4>1, <4>2, <4>3 DEF StackInv, Below
    <3>2. CASE t = by[c] /\ i = Len(s) + 1
      BY <2>2, <2>3, <3>2 DEF Active, ActivationTypeOK
    <3>3. CASE t = by[c] /\ i \in 1 .. Len(s)
      <4>1. frames'[t][i] = s[i] /\ s[i] \in Calls
        BY <2>1, <2>2, <2>3, <3>3, ElementOfSeq
      <4>2. by[s[i]] = t /\ s[i] \in cut
        BY <2>4, <3>3, <4>1 DEF StackInv, Below, s
      <4> QED
        BY <4>1, <4>2
    <3> QED
      BY <2>2, <2>3, <3>1, <3>2, <3>3
  <2>8. Refused'
    BY <2>2 DEF StackInv, Refused, ActivationTypeOK
  <2> QED
    BY <2>5, <2>6, <2>7, <2>8 DEF StackInv
<1>6. ASSUME NEW c \in Calls, DisposeCookie(c)
      PROVE  StackInv'
  <2> DEFINE s == frames[by[c]]
  <2>1. by[c] \in Threads /\ s \in Seq(Calls)
    BY StackTypes
  <2>2. step[c] = "deactivating" /\ s # <<>> /\ Last(s) = c
    BY <1>6 DEF DisposeCookie, StackInv, OnTop, Active
  <2>3. /\ by' = by /\ cut' = cut /\ died' = died
        /\ cookies' = cookies \ {c}
        /\ step' = [step EXCEPT ![c] = "releasing"]
        /\ frames'[by[c]] = Pop(s)
        /\ \A t \in Threads \ {by[c]} : frames'[t] = frames[t]
    BY <1>6, <2>1, <2>2 DEF DisposeCookie, GoOn, ActivationTypeOK
  <2>4. /\ Len(Pop(s)) = Len(s) - 1
        /\ \A i \in 1 .. Len(s) - 1 : Pop(s)[i] = s[i]
        /\ Len(s) \in Nat
    BY <2>1, <2>2, PopProperties, LenProperties
  <2> HIDE DEF s
  <2>5. \A d \in Calls \ {c} : by[d] = by[c] => step[d] \notin Active
    BY <2>2 DEF StackInv, Alternating, Running, Active
  <2>6. Alternating'
    BY <2>2, <2>3 DEF StackInv, Alternating, Running, ActivationTypeOK
  <2>7. OnTop'
    <3> SUFFICES ASSUME NEW d \in Calls, step'[d] \in Active
                 PROVE  frames'[by[d]] # <<>> /\ Last(frames'[by[d]]) = d
      BY <2>3 DEF OnTop, Last
    <3>1. d # c /\ step[d] \in Active
      BY <2>3 DEF ActivationTypeOK, Active
    <3>2. by[d] \in Threads \ {by[c]}
      BY <2>5, <3>1 DEF ActivationTypeOK
    <3> QED
      BY <2>3, <3>1, <3>2 DEF StackInv, OnTop
  <2>8. Below'
    <3> SUFFICES ASSUME NEW t \in Threads, NEW i \in 1 .. Len(frames'[t])
                 PROVE  /\ by[frames'[t][i]] = t
                        /\ \/ frames'[t][i] \in cut
                           \/ /\ i = Len(frames'[t])
                              /\ step'[frames'[t][i]] \in Active
      BY <2>3 DEF Below
    <3>1. CASE t # by[c]
      <4>1. frames'[t] = frames[t] /\ frames[t][i] \in Calls
        BY <2>3, <3>1, ElementOfSeq DEF ActivationTypeOK
      <4>2. by[frames[t][i]] = t
        BY <4>1 DEF StackInv, Below
      <4>3. step'[frames[t][i]] = step[frames[t][i]]
        BY <2>3, <3>1, <4>1, <4>2 DEF ActivationTypeOK
      <4> QED
        BY <4>1, <4>2, <4>3 DEF StackInv, Below
    <3>2. CASE t = by[c]
      <4>1. i \in 1 .. Len(s) - 1 /\ i # Len(s) /\ i \in 1 .. Len(s)
        BY <2>3, <2>4, <3>2
      <4>2. frames'[t][i] = s[i]
        BY <2>3, <2>4, <3>2, <4>1
      <4>3. by[s[i]] = t /\ s[i] \in cut
        BY <3>2, <4>1 DEF StackInv, Below, s
      <4> QED
        BY <4>2, <4>3
    <3> QED
      BY <3>1, <3>2
  <2>9. Refused'
    BY <2>3 DEF StackInv, Refused, ActivationTypeOK
  <2> QED
    BY <2>6, <2>7, <2>8, <2>9 DEF StackInv
<1>7. ASSUME NEW c \in Calls, Finalizer(c)
      PROVE  StackInv'
  <2>1. UNCHANGED <<by, step, cut, frames>>
    BY <1>7 DEF Finalizer, FinalizeContext, FinalizeCookie, nativeVars
  <2>2. Alternating' /\ OnTop' /\ Below'
    BY <2>1 DEF StackInv, Alternating, OnTop, Below, Running, Last
  <2>3. Refused'
    <3>1. CASE FinalizeContext(c)
      BY <2>1, <3>1 DEF StackInv, Refused, FinalizeContext
    <3>2. CASE FinalizeCookie(c)
      <4>1. c \in cut
        BY <3>2 DEF StackInv, Refused, FinalizeCookie
      <4> QED
        BY <2>1, <3>2, <4>1 DEF StackInv, Refused, FinalizeCookie
    <3> QED
      BY <1>7, <3>1, <3>2 DEF Finalizer
  <2> QED
    BY <2>2, <2>3 DEF StackInv
<1> QED
  BY <1>1, <1>2, <1>3, <1>4, <1>5, <1>6, <1>7 DEF ActivationNext, OwnStep,
     Interrupted

(* The class of the logger is looked up in the call's own context, no using
   is refused its cookie, and only a call cut short costs the process. *)
THEOREM OwnContextIsOnTop == ActivationSpec => []OwnContextOnTop
<1>1. ActivationInit => StackInv
  BY StackHoldsInitially
<1>2. ActivationTypeOK /\ StackInv /\ [ActivationNext]_activationVars
        => StackInv'
  BY StepsKeepStack
<1>3. StackInv => OwnContextOnTop
  BY DEF StackInv, OnTop, Below, Refused, OwnContextOnTop
<1> QED
  BY <1>1, <1>2, <1>3, ActivationTypes, PTL DEF ActivationSpec
=============================================================================
