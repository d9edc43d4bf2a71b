----------------------------- MODULE ThunkCode -----------------------------
(***************************************************************************)
(* The code create_x64_thunk generates for a callback of some number of    *)
(* arguments, run on the part of an x64 that it uses, from the call of the *)
(* thunk by Windows to its return, with an instance method that does with  *)
(* volatile registers, its home space and its arguments what the calling   *)
(* convention allows it.                                                   *)
(*                                                                         *)
(* A word is what it holds, not a number.  Addresses are relative to the   *)
(* stack pointer on entry, where the return address is; the convention     *)
(* puts 8 modulo 16 there.                                                 *)
(***************************************************************************)
EXTENDS Integers, Sequences

CONSTANTS
  ArgumentCounts, \* the numbers of arguments thunks are made for
  MostArguments,  \* the largest of them; it is given as a byte
  Results         \* what the callback may return

ASSUME CountsAssumption ==
  MostArguments \in 0..255 /\ ArgumentCounts \subseteq 0..MostArguments
ASSUME ResultsAssumption == Results \subseteq Int

VARIABLES
  state,   \* of the thunk: "none", "failed", "made", "running", "calling", "back"
  nargs,   \* the arguments it was made for
  code,    \* its instructions
  ip,      \* the one that is next
  regs,
  mem,     \* the stack
  result   \* what the callback returned

vars == <<state, nargs, code, ip, regs, mem, result>>

Word(is, n) == [is |-> is, n |-> n]
Address(n) == Word("address", n)
ArgumentWord(i) == Word("argument", i)
Object == Word("object", 0)
Callback == Word("callback", 0)
ReturnAddress == Word("return", 0)
CallerFrame == Word("frame", 0)
Garbage == Word("garbage", 0)
ResultWords == {Word("result", n) : n \in Results}

Registers == {"rax", "rcx", "rdx", "r8", "r9", "rsp", "rbp"}
ArgumentRegisters == <<"rcx", "rdx", "r8", "r9">>

(* As much of the stack as any thunk made here touches, and some arguments
   more. *)
Stack == {8 * k : k \in (-5 - MostArguments)..(MostArguments + 1)}

-----------------------------------------------------------------------------
(* The generator. *)

Instr(op, reg, disp) == [op |-> op, reg |-> reg, disp |-> disp]

(* Mutation: the frame pointer is not set. *)
prolog_without_frame == <<Instr("push", "rbp", 0)>>

prolog == <<Instr("push", "rbp", 0), Instr("mov", "rbp", 0)>>

Least(n, m) == IF n < m THEN n ELSE m

(* Where the first four arguments are put aside, below the frame pointer. *)
Aside(i) == -8 - 8 * i

(* mov [rbp-..],rcx|rdx|r8|r9 *)
spills(n) ==
  [i \in 1..Least(n, 4) |-> Instr("store", ArgumentRegisters[i], Aside(i))]

viastack(n) == IF n > 3 THEN n - 3 ELSE 0

(* push [rbp+argpos], the last argument first. *)
pushes(n) ==
  [i \in 1..viastack(n) |-> Instr("pushmem", "rbp", -32 - 8 * viastack(n) + 8 * (i - 1))]

(* Mutation: the home space of the callback is forgotten. *)
reserve_nothing == <<>>

(* Mutation: the stack pointer is where it would be without the push of rbp. *)
reserve_and_align == <<Instr("reserve", "rsp", 40)>>

(* sub rsp,0x20 *)
reserve == <<Instr("reserve", "rsp", 32)>>

(* Mutation: every argument keeps its place. *)
fetches_in_place(n) ==
  [i \in 1..Least(n, 3) |-> Instr("load", ArgumentRegisters[i], Aside(i))]

(* mov rdx|r8|r9,[rbp-..], each argument one place further. *)
fetches(n) ==
  [i \in 1..Least(n, 3) |-> Instr("load", ArgumentRegisters[i + 1], Aside(i))]

call_callback == <<Instr("callback", "rax", 0), Instr("call", "rax", 0)>>

(* mov rsp,rbp; pop rbp; ret *)
epilog == <<Instr("restore", "rsp", 0), Instr("pop", "rbp", 0), Instr("ret", "rsp", 0)>>

create_x64_thunk(n) ==
  prolog \o spills(n) \o pushes(n) \o reserve
    \o <<Instr("object", "rcx", 0)>> \o fetches(n) \o call_callback \o epilog

-----------------------------------------------------------------------------
(* Making a thunk, and entering it. *)

Init ==
  /\ state = "none"
  /\ nargs = 0
  /\ code = <<>>
  /\ ip = 0
  /\ regs = [r \in Registers |-> Garbage]
  /\ mem = [a \in Stack |-> Garbage]
  /\ result = Garbage

Create(n) ==
  /\ state = "none"
  /\ state' = "made"
  /\ nargs' = n
  /\ code' = create_x64_thunk(n)
  /\ UNCHANGED <<ip, regs, mem, result>>

(* VirtualAlloc gives no page. *)
CreationFails(n) ==
  /\ state = "none"
  /\ state' = "failed"
  /\ nargs' = n
  /\ UNCHANGED <<code, ip, regs, mem, result>>

(* Windows calls the thunk: four arguments in registers, the rest above the
   home space it has left for them. *)
Enter ==
  /\ state \in {"made", "back"}
  /\ state' = "running"
  /\ ip' = 1
  /\ regs' = [r \in Registers |->
               IF \E i \in 1..Least(nargs, 4) : ArgumentRegisters[i] = r
               THEN ArgumentWord(CHOOSE i \in 1..4 : ArgumentRegisters[i] = r)
               ELSE CASE r = "rsp" -> Address(0)
                      [] r = "rbp" -> CallerFrame
                      [] OTHER -> Garbage]
  /\ mem' = [a \in Stack |->
              IF a = 0 THEN ReturnAddress
              ELSE IF a >= 40 /\ a <= 8 * nargs THEN ArgumentWord(a \div 8) ELSE Garbage]
  /\ result' = Garbage
  /\ UNCHANGED <<nargs, code>>

-----------------------------------------------------------------------------
(* The instructions. *)

Is(op) == state = "running" /\ code[ip].op = op
reg == code[ip].reg
rsp == regs["rsp"].n
rbp == regs["rbp"].n
Set(r, word) == regs' = [regs EXCEPT ![r] = word]

Proceed == ip' = ip + 1 /\ UNCHANGED <<state, nargs, code, result>>

PushWord(word) ==
  /\ mem' = [mem EXCEPT ![rsp - 8] = word]
  /\ Set("rsp", Address(rsp - 8))

Push == Is("push") /\ PushWord(regs[reg]) /\ Proceed

PushMemory == Is("pushmem") /\ PushWord(mem[rbp + code[ip].disp]) /\ Proceed

MoveFrame == Is("mov") /\ Set("rbp", regs["rsp"]) /\ UNCHANGED mem /\ Proceed

PutAside ==
  /\ Is("store")
  /\ mem' = [mem EXCEPT ![rbp + code[ip].disp] = regs[reg]]
  /\ UNCHANGED regs
  /\ Proceed

Fetch == Is("load") /\ Set(reg, mem[rbp + code[ip].disp]) /\ UNCHANGED mem /\ Proceed

Reserve ==
  Is("reserve") /\ Set("rsp", Address(rsp - code[ip].disp)) /\ UNCHANGED mem /\ Proceed

LoadConstant ==
  /\ \/ Is("object") /\ Set(reg, Object)
     \/ Is("callback") /\ Set(reg, Callback)
  /\ UNCHANGED mem
  /\ Proceed

Call ==
  /\ Is("call")
  /\ state' = "calling"
  /\ UNCHANGED <<nargs, code, ip, regs, mem, result>>

Restore == Is("restore") /\ Set("rsp", regs["rbp"]) /\ UNCHANGED mem /\ Proceed

Pop ==
  /\ Is("pop")
  /\ regs' = [regs EXCEPT ![reg] = mem[rsp], !["rsp"] = Address(rsp + 8)]
  /\ UNCHANGED mem
  /\ Proceed

Ret ==
  /\ Is("ret")
  /\ state' = "back"
  /\ Set("rsp", Address(rsp + 8))
  /\ UNCHANGED <<nargs, code, ip, mem, result>>

Execute ==
  \/ Push \/ PushMemory \/ MoveFrame \/ PutAside \/ Fetch \/ Reserve
  \/ LoadConstant \/ Call \/ Restore \/ Pop \/ Ret

(* The home space and the arguments on the stack. *)
CallbackSpace == {a \in Stack : a >= rsp /\ (a < rsp + 32 \/ a < rsp + 8 * (nargs + 1))}

(* The callback returns.  What is below the stack pointer is no longer what
   it was, nor what volatile registers held, and any of the home space and of
   the arguments on the stack may have been written. *)
CallbackReturns ==
  /\ state = "calling"
  /\ state' = "running"
  /\ ip' = ip + 1
  /\ \E word \in ResultWords, written \in SUBSET CallbackSpace :
       /\ result' = word
       /\ regs' = [r \in Registers |->
                    CASE r = "rax" -> word
                      [] r \in {"rsp", "rbp"} -> regs[r]
                      [] OTHER -> Garbage]
       /\ mem' = [a \in Stack |->
                   IF a \in written \/ a < rsp THEN Garbage ELSE mem[a]]
  /\ UNCHANGED <<nargs, code>>

Next ==
  \/ \E n \in ArgumentCounts : Create(n) \/ CreationFails(n)
  \/ Enter
  \/ Execute
  \/ CallbackReturns

Spec == Init /\ [][Next]_vars

-----------------------------------------------------------------------------
(* Properties. *)

Words == [is : {"address", "argument", "object", "callback", "return", "frame",
                "garbage", "result"}, n : Int]

(* Every variable has its type; the stack pointer stays on the stack. *)
TypeOK ==
  /\ state \in {"none", "failed", "made", "running", "calling", "back"}
  /\ nargs \in ArgumentCounts \cup {0}
  /\ ip \in 0..Len(code)
  /\ regs \in [Registers -> Words]
  /\ mem \in [Stack -> Words]
  /\ result \in Words
  /\ state \in {"running", "calling", "back"} =>
       regs["rsp"].is = "address" /\ rsp \in Stack

(* The place of the i-th argument of the function called with this stack
   pointer, before the call has pushed the return address. *)
Place(i) == IF i <= 4 THEN regs[ArgumentRegisters[i]] ELSE mem[rsp + 8 * (i - 1)]

(* "Make it possible to use instance method as a callback": the method gets
   the object, and every argument of the callback one place further. *)
ArgumentsForwarded ==
  state = "calling" =>
    /\ regs["rax"] = Callback
    /\ Place(1) = Object
    /\ \A i \in 1..nargs : Place(i + 1) = ArgumentWord(i)

(* The stack pointer is a multiple of 16 where the callback is called, by
   every thunk that pushes an even number of words; the logger's pushes none. *)
CallAligned ==
  state = "calling" /\ viastack(nargs) % 2 = 0 => (rsp + 8) % 16 = 0

(* Whatever the callback wrote to the space that is its own, the thunk comes
   back to its caller with the caller's frame and stack pointer, and with what
   the callback returned. *)
CallerRestored ==
  /\ state = "running" /\ code[ip].op = "ret" => mem[rsp] = ReturnAddress
  /\ state = "back" =>
       /\ regs["rsp"] = Address(8)
       /\ regs["rbp"] = CallerFrame
       /\ regs["rax"] = result
       /\ result \in ResultWords
=============================================================================
