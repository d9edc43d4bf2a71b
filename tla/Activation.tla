----------------------------- MODULE Activation -----------------------------
(***************************************************************************)
(* The managed installer: calls of Install and InstallForWeb, each of      *)
(* which opens a Win32 activation context, activates it on its thread so   *)
(* that the logger's class is found without registration, creates the      *)
(* logger, and gives cookie and context back through two nested usings.    *)
(*                                                                         *)
(* The cookie and the context are objects with a finalizer as well as a    *)
(* Dispose.  A call may be cut short at any point where a thread abort or  *)
(* a lack of memory reaches managed code, the gaps between the usings      *)
(* included; what the usings then miss is left to the finalizers.          *)
(***************************************************************************)
EXTENDS Integers, Sequences

CONSTANTS
  Calls,    \* the calls of the installer that a process makes; a bound
  Threads   \* the threads that make them

VARIABLES
  by,       \* the thread of each call
  step,     \* how far each call has come
  failed,   \* the calls that leave with an exception
  cut,      \* the calls cut short between ActivateActCtx and its try block
  handle,   \* the activation context a call has opened
  releases, \* how often ReleaseActCtx has been given that context
  disposed, \* the calls whose Win32ActivationContext has been disposed
  contexts, \* the calls whose Win32ActivationContext awaits its finalizer
  cookies,  \* the calls whose ActivationCookie awaits its finalizer
  frames,   \* the stack of active contexts of each thread
  died      \* an exception has left a finalizer, and ended the process

activationVars == <<by, step, failed, cut, handle, releases, disposed,
                    contexts, cookies, frames, died>>

(* What a call has of the Windows API, and what of managed objects. *)
nativeVars == <<handle, releases, frames>>
managedVars == <<disposed, contexts, cookies>>

Steps == {"idle", "freeing", "copying", "asked", "created", "pushed",
          "wrapped", "body", "deactivating", "releasing", "over"}
Active == {"pushed", "wrapped", "body", "deactivating"}

Running(c) == step[c] \notin {"idle", "over"}
Alone(c) == \A d \in Calls \ {c} : by[d] = by[c] => ~Running(d)

Last(s) == s[Len(s)]
Pop(s) == SubSeq(s, 1, Len(s) - 1)

ActivationInit ==
  /\ by \in [Calls -> Threads]
  /\ step = [c \in Calls |-> "idle"]
  /\ failed = {}
  /\ cut = {}
  /\ handle = [c \in Calls |-> "none"]
  /\ releases = [c \in Calls |-> 0]
  /\ disposed = {}
  /\ contexts = {}
  /\ cookies = {}
  /\ frames = [t \in Threads |-> <<>>]
  /\ died = FALSE

(* A call moves on, or leaves its present block with an exception. *)
GoOn(c, s) == step' = [step EXCEPT ![c] = s] /\ UNCHANGED <<by, failed, died>>
Throw(c, s) ==
  /\ step' = [step EXCEPT ![c] = s]
  /\ failed' = failed \cup {c}
  /\ UNCHANGED <<by, died>>

-----------------------------------------------------------------------------
(* StackLoggerInstaller, up to the first using. *)

Install(c) ==
  /\ ~died /\ step[c] = "idle" /\ Alone(c)
  /\ GoOn(c, "asked")
  /\ UNCHANGED <<cut, nativeVars, managedVars>>

InstallForWeb(c) ==
  /\ ~died /\ step[c] = "idle" /\ Alone(c)
  /\ GoOn(c, "freeing")
  /\ UNCHANGED <<cut, nativeVars, managedVars>>

(* Both calls that ask COM to unload what is unused. *)
FreeUnused(c) ==
  /\ ~died /\ step[c] = "freeing"
  /\ GoOn(c, "copying")
  /\ UNCHANGED <<cut, nativeVars, managedVars>>

(* The copy into the directory of the assembly, or no copy where that lies
   within the application; then Install. *)
CopyLogger(c) ==
  /\ ~died /\ step[c] = "copying"
  /\ GoOn(c, "asked")
  /\ UNCHANGED <<cut, nativeVars, managedVars>>

CopyFails(c) ==
  /\ ~died /\ step[c] = "copying"
  /\ Throw(c, "over")
  /\ UNCHANGED <<cut, nativeVars, managedVars>>

-----------------------------------------------------------------------------
(* Win32ActivationContext and ActivationCookie, as Install uses them. *)

CreateContext(c) ==
  /\ ~died /\ step[c] = "asked"
  /\ GoOn(c, "created")
  /\ handle' = [handle EXCEPT ![c] = "open"]
  /\ contexts' = contexts \cup {c}
  /\ UNCHANGED <<cut, releases, frames, disposed, cookies>>

(* The constructor throws: no using is entered, yet there is an object, and
   its finalizer is to run. *)
CreationFails(c) ==
  /\ ~died /\ step[c] = "asked"
  /\ Throw(c, "over")
  /\ handle' = [handle EXCEPT ![c] = "invalid"]
  /\ contexts' = contexts \cup {c}
  /\ UNCHANGED <<cut, releases, frames, disposed, cookies>>

Activate(c) ==
  /\ ~died /\ step[c] = "created"
  /\ GoOn(c, "pushed")
  /\ frames' = [frames EXCEPT ![by[c]] = Append(@, c)]
  /\ UNCHANGED <<cut, handle, releases, managedVars>>

ActivateFails(c) ==
  /\ ~died /\ step[c] = "created"
  /\ Throw(c, "releasing")
  /\ UNCHANGED <<cut, nativeVars, managedVars>>

WrapCookie(c) ==
  /\ ~died /\ step[c] = "pushed"
  /\ GoOn(c, "wrapped")
  /\ cookies' = cookies \cup {c}
  /\ UNCHANGED <<cut, nativeVars, disposed, contexts>>

EnterBody(c) ==
  /\ ~died /\ step[c] = "wrapped"
  /\ GoOn(c, "body")
  /\ UNCHANGED <<cut, nativeVars, managedVars>>

(* The logger is created while the context is active, or it is not. *)
BodyReturns(c) ==
  /\ ~died /\ step[c] = "body"
  /\ GoOn(c, "deactivating")
  /\ UNCHANGED <<cut, nativeVars, managedVars>>

(* Mutation: the cookie is given back on the normal way out only. *)
BodyThrowsPast(c) ==
  /\ ~died /\ step[c] = "body"
  /\ Throw(c, "releasing")
  /\ UNCHANGED <<cut, nativeVars, managedVars>>

BodyThrows(c) ==
  /\ ~died /\ step[c] = "body"
  /\ Throw(c, "deactivating")
  /\ UNCHANGED <<cut, nativeVars, managedVars>>

(* Dispose of the cookie.  Windows refuses a cookie that is not the topmost
   one of the calling thread, and Dispose throws. *)
DisposeCookie(c) ==
  /\ ~died /\ step[c] = "deactivating"
  /\ IF frames[by[c]] # <<>> /\ Last(frames[by[c]]) = c
     THEN /\ GoOn(c, "releasing")
          /\ frames' = [frames EXCEPT ![by[c]] = Pop(@)]
          /\ cookies' = cookies \ {c}
     ELSE /\ Throw(c, "releasing")
          /\ UNCHANGED <<frames, cookies>>
  /\ UNCHANGED <<cut, handle, releases, disposed, contexts>>

(* ReleaseActCtx does nothing for what is not an open context. *)
Release(c) ==
  releases' = [releases EXCEPT ![c] = IF handle[c] = "open" THEN @ + 1 ELSE @]

(* Mutation: the context is released in a catch block instead of a using. *)
DisposeContextOfFailed(c) ==
  /\ ~died /\ step[c] = "releasing"
  /\ GoOn(c, "over")
  /\ IF c \in failed THEN Release(c) ELSE UNCHANGED releases
  /\ disposed' = disposed \cup {c}
  /\ contexts' = contexts \ {c}
  /\ UNCHANGED <<cut, handle, frames, cookies>>

DisposeContext(c) ==
  /\ ~died /\ step[c] = "releasing"
  /\ GoOn(c, "over")
  /\ IF c \notin disposed THEN Release(c) ELSE UNCHANGED releases
  /\ disposed' = disposed \cup {c}
  /\ contexts' = contexts \ {c}
  /\ UNCHANGED <<cut, handle, frames, cookies>>

(* A thread abort on the way back from native code, or no memory for the
   cookie.  A finally block is not interrupted. *)
CutCreation(c) ==
  /\ ~died /\ step[c] = "asked"
  /\ Throw(c, "over")
  /\ handle' = [handle EXCEPT ![c] = "lost"]
  /\ contexts' = contexts \cup {c}
  /\ UNCHANGED <<cut, releases, frames, disposed, cookies>>

CutBeforeUsing(c) ==
  /\ ~died /\ step[c] = "created"
  /\ Throw(c, "over")
  /\ UNCHANGED <<cut, nativeVars, managedVars>>

CutActivation(c) ==
  /\ ~died /\ step[c] \in {"pushed", "wrapped"}
  /\ Throw(c, "releasing")
  /\ cut' = cut \cup {c}
  /\ UNCHANGED <<nativeVars, managedVars>>

-----------------------------------------------------------------------------
(* The finalizer thread, on which no activation context is active. *)

(* Mutation: Dispose(false) leaves the handle alone. *)
FinalizeManagedOnly(c) ==
  /\ ~died /\ c \in contexts /\ ~Running(c)
  /\ disposed' = disposed \cup {c}
  /\ contexts' = contexts \ {c}
  /\ UNCHANGED <<by, step, failed, cut, nativeVars, cookies, died>>

FinalizeContext(c) ==
  /\ ~died /\ c \in contexts /\ ~Running(c)
  /\ IF c \notin disposed THEN Release(c) ELSE UNCHANGED releases
  /\ disposed' = disposed \cup {c}
  /\ contexts' = contexts \ {c}
  /\ UNCHANGED <<by, step, failed, cut, handle, frames, cookies, died>>

(* Nobody holds the cookie of a call cut short any more.  It is refused here,
   Dispose throws, and an exception out of a finalizer ends the process. *)
FinalizeCookie(c) ==
  /\ ~died /\ c \in cookies /\ step[c] \in {"releasing", "over"}
  /\ died' = TRUE
  /\ cookies' = cookies \ {c}
  /\ UNCHANGED <<by, step, failed, cut, nativeVars, disposed, contexts>>

-----------------------------------------------------------------------------
(* The steps of a call that concern nobody else, and those that a system
   with the native module in it says more of. *)
OwnStep(c) ==
  \/ CreateContext(c) \/ CreationFails(c)
  \/ Activate(c) \/ ActivateFails(c)
  \/ WrapCookie(c) \/ EnterBody(c)
  \/ DisposeCookie(c) \/ DisposeContext(c)
Interrupted(c) == CutCreation(c) \/ CutBeforeUsing(c) \/ CutActivation(c)
Finalizer(c) == FinalizeContext(c) \/ FinalizeCookie(c)

ActivationNext ==
  \E c \in Calls :
    \/ Install(c) \/ InstallForWeb(c)
    \/ FreeUnused(c) \/ CopyLogger(c) \/ CopyFails(c)
    \/ BodyReturns(c) \/ BodyThrows(c)
    \/ OwnStep(c) \/ Interrupted(c) \/ Finalizer(c)

ActivationSpec == ActivationInit /\ [][ActivationNext]_activationVars

-----------------------------------------------------------------------------
ActivationTypeOK ==
  /\ by \in [Calls -> Threads]
  /\ step \in [Calls -> Steps]
  /\ failed \subseteq Calls
  /\ cut \subseteq Calls
  /\ handle \in [Calls -> {"none", "open", "invalid", "lost"}]
  /\ releases \in [Calls -> Nat]
  /\ disposed \subseteq Calls
  /\ contexts \subseteq Calls
  /\ cookies \subseteq Calls
  /\ frames \in [Threads -> Seq(Calls)]
  /\ died \in BOOLEAN

(* While a call creates its logger, the context on top of its thread's stack
   is the call's own, whatever other calls on the same thread have left
   there; the stack holds besides only contexts of calls that were cut short
   before their try block, so that DeactivateActCtx refuses no using and the
   process dies in a finalizer only after such a cut. *)
OwnContextOnTop ==
  /\ \A c \in Calls :
       step[c] \in Active =>
         frames[by[c]] # <<>> /\ Last(frames[by[c]]) = c
  /\ \A t \in Threads : \A i \in 1 .. Len(frames[t]) :
       LET c == frames[t][i] IN
         by[c] = t /\ (c \in cut \/ (i = Len(frames[t]) /\ step[c] \in Active))
  /\ died => cut # {}

(* Dispose and the finalizer between them release a context exactly once:
   never twice, and not at all only while the finalizer is still to run. *)
ReleasedOnce ==
  \A c \in Calls :
    /\ releases[c] <= 1
    /\ handle[c] = "open" /\ step[c] = "over" =>
         (releases[c] = 1 <=> c \notin contexts)
=============================================================================
